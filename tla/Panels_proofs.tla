---------------------------- MODULE Panels_proofs -----------------------------
(***************************************************************************)
(* Proofs about the two panels of the web client: the one that writes a    *)
(* message (Compose) and the one that keeps the aliases (Aliases). They    *)
(* share no state; each half below stands alone.                           *)
(*                                                                         *)
(* The first half is about Compose, for every number of mailboxes, drafts, *)
(* edits and clicks, whatever the user does between a call of the panel    *)
(* and its answer and in whichever order the calls arrive. CalmSendIsExact *)
(* relates a message to the click that asked for it. Between the two is a  *)
(* draft row that other calls may write: Sender, CalmTexts and PlainTexts  *)
(* carry what the click showed along the final write and the send; Apart   *)
(* says that the panel has no other call under way for that draft, and     *)
(* Fresh that the panel, its timer and its creates know of no draft but    *)
(* their own. OneCall and Mailed carry what was said of a click back to    *)
(* the calls that were made for it.                                        *)
(*                                                                         *)
(* The second half is about Aliases, for every number of addresses,        *)
(* mailboxes, rows and links, whatever the panel and the app ask for and   *)
(* in which order their calls arrive.                                      *)
(*                                                                         *)
(* ForwardsToConfirmed relates a row of aliases to a link that was opened. *)
(* Between the two are the target row and its token: BookOK says that an   *)
(* alias points at a verified row, that a verified row has been confirmed, *)
(* and that a link whose token is still in a row was mailed for that row.  *)
(***************************************************************************)
EXTENDS Compose, Aliases, WellFoundedInduction, TLAPS

Kinds == {"create", "patch", "delete", "final", "send", "prefill", "post"}
DraftRow == [box : Boxes, text : Versions]
CallType == [kind : Kinds, no : Nat, click : Nat, draft : DraftIds \cup {None}, from : Boxes \cup {None},
             text : Versions, at : {"up", "relay", "taken", "down"}, ok : BOOLEAN]
ClickType == [text : Versions, from : Boxes, calm : BOOLEAN, kept : BOOLEAN]
MailType == [click : Clicks, draft : DraftIds \cup {None}, from : Boxes, text : Versions]
PanelType == [open : BOOLEAN, no : Nat, text : Versions, from : Boxes \cup {None},
              draft : DraftIds \cup {None}, busy : BOOLEAN]
TimerType == [text : Versions, from : Boxes \cup {None}, draft : DraftIds \cup {None}]
PadType == [open : BOOLEAN, no : Nat, text : Versions, from : Boxes \cup {None},
            is : {"ready", "loading", "error"}, reply : Boxes \cup {None}]

\* A draft that was made, out of m.
Known(d, m) == d # None => d \in 1 .. m

\* What a call of each kind carries; n clicks on Send and m drafts were made.
CallWell(c, n, m) ==
  /\ c \in CallType /\ c.click <= n /\ Known(c.draft, m)
  /\ c.click > 0 <=> c.kind \in {"final", "send", "post"}
  /\ c.kind \in {"patch", "delete", "final"} => c.draft # None
  /\ c.kind \in {"post", "prefill"} => c.draft = None
  /\ c.kind = "create" => (c.at = "up" => c.draft = None) /\ (c.ok => c.draft # None)
  /\ c.kind # "delete" => c.from \in Boxes
  /\ c.at \in {"relay", "taken"} => c.kind \in {"send", "post"}
  /\ c.ok => c.at = "down"

ServerWell ==
  /\ boxes \subseteq Boxes /\ made \in 0 .. MaxDrafts
  /\ drafts \in [DraftIds -> DraftRow \cup {None}]
  /\ \A d \in DraftIds : drafts[d] # None => d \in 1 .. made

\* A timer that waits has the values the panel shows.
PanelWell ==
  /\ panel \in PanelType /\ timer \in TimerType /\ edits \in Versions
  /\ panel.open => panel.from \in Boxes
  /\ Known(panel.draft, made) /\ Known(timer.draft, made)
  /\ timer # NoTimer => panel.open /\ timer.text = panel.text /\ timer.from = panel.from

PadWell == pad \in PadType /\ (pad.open => pad.from \in Boxes)

CallsWell == \A c \in calls : CallWell(c, Len(clicks), made)

PastWell ==
  /\ clicks \in Seq(ClickType) /\ Len(clicks) <= MaxClicks
  /\ told \in [Clicks -> {"nothing", "sent", "failed"}]
  /\ mails \subseteq MailType /\ \A x \in mails : x.click <= Len(clicks)

ComposeWell == ServerWell /\ PanelWell /\ PadWell /\ CallsWell /\ PastWell
-----------------------------------------------------------------------------
LEMMA ComposeConstants ==
  /\ None \notin Nat /\ None \notin Boxes /\ None \notin DraftRow /\ None \notin DraftIds
  /\ MaxEdits \in Nat /\ MaxPanels \in Nat /\ MaxDrafts \in Nat /\ MaxClicks \in Nat
  /\ Versions = 0 .. MaxEdits /\ Versions \subseteq Nat /\ 0 \in Versions /\ DraftIds = 1 .. MaxDrafts /\ Clicks = 1 .. MaxClicks
  BY ComposeConstantsOK DEF DraftRow, DraftIds, Versions, Clicks

LEMMA ComposeRecords ==
  /\ Closed \in PanelType /\ ~Closed.open /\ ~Closed.busy /\ Closed.draft = None /\ Closed.no = 0
  /\ NoTimer \in TimerType /\ NoTimer.draft = None
  /\ NoPad \in PadType /\ ~NoPad.open /\ NoPad.no = 0 /\ NoPad.reply = None
  BY ComposeConstants DEF Closed, NoTimer, NoPad, PanelType, TimerType, PadType

LEMMA ComposeFields ==
  ASSUME ComposeWell
  PROVE  /\ Len(clicks) \in Nat /\ DOMAIN clicks = 1 .. Len(clicks) /\ made \in Nat /\ edits \in Nat
         /\ \A k \in 1 .. Len(clicks) : clicks[k] \in ClickType /\ k \in Clicks
         /\ \A d \in 1 .. made : d \in DraftIds
         /\ panel.no \in Nat /\ pad.no \in Nat
<1>1. made \in Nat /\ edits \in Nat
  BY ComposeConstants DEF ComposeWell, ServerWell, PanelWell
<1>2. Len(clicks) \in Nat /\ DOMAIN clicks = 1 .. Len(clicks) /\ \A k \in 1 .. Len(clicks) : clicks[k] \in ClickType
  BY DEF ComposeWell, PastWell
<1>3. \A k \in 1 .. Len(clicks) : k \in Clicks
  BY <1>2, ComposeConstants DEF ComposeWell, PastWell
<1>4. \A d \in 1 .. made : d \in DraftIds
  BY <1>1, ComposeConstants DEF ComposeWell, ServerWell
<1>5. panel.no \in Nat /\ pad.no \in Nat
  BY DEF ComposeWell, PanelWell, PadWell, PanelType, PadType
<1> QED BY <1>1, <1>2, <1>3, <1>4, <1>5

\* Call c is now e: it is the same but for where it is and how it was answered.
Goes(c, e, at, ok) ==
  /\ e \in CallType /\ e.kind = c.kind /\ e.no = c.no /\ e.click = c.click /\ e.draft = c.draft
  /\ e.from = c.from /\ e.text = c.text /\ e.at = at /\ e.ok = ok
  /\ calls' = (calls \ {c}) \cup {e}

LEMMA AnsweredGoes ==
  ASSUME ComposeWell, NEW c \in calls, NEW ok \in BOOLEAN, Answered(c, ok)
  PROVE  \E e : Goes(c, e, "down", ok)
<1> DEFINE e == [c EXCEPT !.at = "down", !.ok = ok]
<1>1. c \in CallType
  BY DEF ComposeWell, CallsWell, CallWell
<1>2. /\ e \in CallType /\ e.kind = c.kind /\ e.no = c.no /\ e.click = c.click /\ e.draft = c.draft
      /\ e.from = c.from /\ e.text = c.text /\ e.at = "down" /\ e.ok = ok
  BY <1>1 DEF CallType
<1>3. calls' = (calls \ {c}) \cup {e}
  BY DEF Answered, Moves
<1> HIDE DEF e
<1> QED BY <1>2, <1>3 DEF Goes

\* A new call.
Asked(e, kind, click, draft, from, text) ==
  /\ e \in CallType /\ e.kind = kind /\ e.click = click /\ e.draft = draft /\ e.from = from /\ e.text = text
  /\ e.at = "up" /\ ~e.ok

LEMMA CallAsked ==
  ASSUME ComposeWell, NEW kind \in Kinds, NEW click \in Nat, NEW draft \in DraftIds \cup {None},
         NEW from \in Boxes \cup {None}, NEW text \in Versions
  PROVE  Asked(Call(kind, click, draft, from, text), kind, click, draft, from, text)
         /\ Call(kind, click, draft, from, text).no = panel.no
<1> DEFINE e == Call(kind, click, draft, from, text)
<1>1. panel.no \in Nat
  BY ComposeFields
<1>2. e = [kind |-> kind, no |-> panel.no, click |-> click, draft |-> draft, from |-> from, text |-> text,
           at |-> "up", ok |-> FALSE]
  BY DEF Call
<1> HIDE DEF e
<1>3. Asked(e, kind, click, draft, from, text) /\ e.no = panel.no
  BY <1>1, <1>2 DEF Asked, CallType
<1> QED BY <1>3 DEF e

\* A call that goes on is still one of its kind.
LEMMA GoesWell ==
  ASSUME ComposeWell, NEW c \in calls, NEW e, NEW at, NEW ok, Goes(c, e, at, ok),
         at \in {"relay", "taken"} => c.kind \in {"send", "post"}, ok => at = "down",
         c.kind = "create" => at = "down" /\ ~ok,
         made <= made', Len(clicks) = Len(clicks'), made' \in Nat
  PROVE  CallsWell'
<1>0. made \in Nat
  BY ComposeFields
<1>1. \A x \in calls : CallWell(x, Len(clicks'), made')
  BY <1>0 DEF ComposeWell, CallsWell, CallWell, Known
<1>2. CallWell(e, Len(clicks'), made')
  BY <1>1 DEF CallWell, Goes
<1> QED BY <1>1, <1>2 DEF CallsWell, Goes

LEMMA FewerCallsWell ==
  ASSUME ComposeWell, calls' \subseteq calls, made <= made', Len(clicks) = Len(clicks'), made' \in Nat
  PROVE  CallsWell'
<1>0. made \in Nat
  BY ComposeFields
<1> QED BY <1>0 DEF ComposeWell, CallsWell, CallWell, Known
-----------------------------------------------------------------------------
(* What the panel does without a call.                                     *)

\* A panel is opened; the draft in it is not one that is being sent, or that is in the history.
Opened ==
  /\ ~panel.open /\ panel'.open /\ ~panel'.busy /\ panel'.no = panel.no + 1 /\ timer' = NoTimer
  /\ reopened => reopened'
  /\ panel'.draft # None /\ ~reopened' => \A c \in calls : c.click > 0 => c.draft # panel'.draft

\* What it shows changes; a timer waits if nothing is being sent.
Edited ==
  /\ panel.open /\ panel'.open /\ panel'.no = panel.no /\ panel'.draft = panel.draft /\ panel'.busy = panel.busy
  /\ panel.busy => timer' = NoTimer
  /\ timer'.draft \in {None, panel.draft} /\ UNCHANGED reopened

Shut ==
  /\ ~panel'.open /\ panel'.no = panel.no /\ panel'.draft = panel.draft /\ timer' = NoTimer /\ UNCHANGED reopened

Looks == Opened \/ Edited \/ Shut

LEMMA WellWithPanel ==
  ASSUME ComposeWell, UNCHANGED <<boxes, drafts, pad, calls, made, clicks, told, mails>>, PanelWell'
  PROVE  ComposeWell'
  BY DEF ComposeWell, ServerWell, PadWell, CallsWell, CallWell, Known, PastWell

LEMMA OpenNewDoes ==
  ASSUME ComposeWell, NEW b \in Boxes, OpenNew(b)
  PROVE  ComposeWell' /\ Opened /\ UNCHANGED <<boxes, drafts, sentRows, pad, calls, made, clicks, told, mails, broken>>
<1>1. /\ ~panel.open /\ panel' = [Closed EXCEPT !.open = TRUE, !.no = panel.no + 1, !.from = b] /\ timer' = NoTimer
      /\ UNCHANGED <<boxes, drafts, sentRows, pad, calls, edits, made, clicks, told, mails, reopened, broken>>
  BY DEF OpenNew, server, history
<1>2. panel.no + 1 \in Nat
  BY ComposeFields
<1>3. PICK q \in PanelType : q = Closed
  BY ComposeRecords
<1>4. panel' \in PanelType /\ panel'.open /\ ~panel'.busy /\ panel'.no = panel.no + 1 /\ panel'.draft = None /\ panel'.from = b
  <2>1. panel' = [q EXCEPT !.open = TRUE, !.no = panel.no + 1, !.from = b]
    BY <1>1, <1>3
  <2>2. q.draft = None /\ q.busy = FALSE
    BY <1>3 DEF Closed
  <2> QED BY <1>2, <2>1, <2>2 DEF PanelType
<1>5. PanelWell'
  BY <1>1, <1>4, ComposeRecords DEF ComposeWell, PanelWell, Known
<1>6. Opened
  BY <1>1, <1>4 DEF Opened
<1> QED BY <1>1, <1>5, <1>6, WellWithPanel

LEMMA OpenDraftDoes ==
  ASSUME ComposeWell, NEW d \in DraftIds, OpenDraft(d)
  PROVE  ComposeWell' /\ Opened /\ UNCHANGED <<boxes, drafts, sentRows, pad, calls, made, clicks, told, mails, broken>>
<1> DEFINE p == [open |-> TRUE, no |-> panel.no + 1, text |-> drafts[d].text, from |-> drafts[d].box,
                 draft |-> d, busy |-> FALSE]
<1>1. /\ ~panel.open /\ panel' = p /\ timer' = NoTimer /\ drafts[d] # None
      /\ reopened' = (reopened \/ \E c \in calls : c.click > 0 /\ c.draft = d)
      /\ UNCHANGED <<boxes, drafts, sentRows, pad, calls, edits, made, clicks, told, mails, broken>>
  BY DEF OpenDraft, server
<1>2. drafts[d].text \in Versions /\ drafts[d].box \in Boxes /\ d \in 1 .. made
  BY <1>1 DEF ComposeWell, ServerWell, DraftRow
<1>3. /\ p \in PanelType /\ p.open /\ ~p.busy /\ p.no = panel.no + 1 /\ p.draft = d /\ p.from \in Boxes
  BY <1>2, ComposeFields DEF PanelType
<1> HIDE DEF p
<1>4. PanelWell'
  BY <1>1, <1>2, <1>3, ComposeRecords DEF ComposeWell, PanelWell, Known
<1>5. Opened
  BY <1>1, <1>3 DEF Opened
<1> QED BY <1>1, <1>4, <1>5, WellWithPanel

LEMMA EditDoes ==
  ASSUME ComposeWell, NEW b \in Boxes, Edit(b)
  PROVE  ComposeWell' /\ Edited /\ UNCHANGED <<boxes, drafts, sentRows, pad, calls, made, clicks, told, mails, broken>>
<1> DEFINE p == [panel EXCEPT !.text = edits + 1, !.from = b]
<1>1. /\ panel.open /\ edits < MaxEdits /\ edits' = edits + 1 /\ panel' = p
      /\ timer' = IF p.busy THEN NoTimer ELSE [text |-> p.text, from |-> p.from, draft |-> p.draft]
      /\ UNCHANGED <<boxes, drafts, sentRows, pad, calls, made, clicks, told, mails, reopened, broken>>
  BY DEF Edit, Effect, server
<1>2. edits + 1 \in Versions
  BY <1>1, ComposeFields, ComposeConstants
<1>3. /\ p \in PanelType /\ p.open /\ p.busy = panel.busy /\ p.no = panel.no /\ p.draft = panel.draft
      /\ p.from = b /\ p.text = edits + 1
  BY <1>1, <1>2 DEF ComposeWell, PanelWell, PanelType
<1> HIDE DEF p
<1>4. /\ timer' \in TimerType /\ timer'.draft \in {None, panel.draft}
      /\ timer' # NoTimer => timer'.text = p.text /\ timer'.from = p.from
      /\ panel.busy => timer' = NoTimer
  BY <1>1, <1>3, ComposeRecords DEF TimerType, PanelType
<1>5. PanelWell'
  BY <1>1, <1>2, <1>3, <1>4 DEF ComposeWell, PanelWell, Known
<1>6. Edited
  BY <1>1, <1>3, <1>4 DEF Edited
<1> QED BY <1>1, <1>5, <1>6, WellWithPanel

LEMMA ShutWell ==
  ASSUME ComposeWell, panel' = [panel EXCEPT !.open = FALSE], timer' = NoTimer,
         UNCHANGED <<boxes, drafts, pad, calls, edits, made, clicks, told, mails, reopened>>
  PROVE  ComposeWell' /\ Shut
<1>1. /\ panel' \in PanelType /\ ~panel'.open /\ panel'.no = panel.no /\ panel'.draft = panel.draft
  BY DEF ComposeWell, PanelWell, PanelType
<1>2. PanelWell'
  BY <1>1, ComposeRecords DEF ComposeWell, PanelWell, Known
<1> QED BY <1>1, <1>2, WellWithPanel DEF Shut

LEMMA CloseDoes ==
  ASSUME ComposeWell, Close \/ ClosesItself
  PROVE  ComposeWell' /\ Shut /\ UNCHANGED <<boxes, drafts, sentRows, pad, calls, made, clicks, told, mails, broken>>
<1>1. /\ panel' = [panel EXCEPT !.open = FALSE] /\ timer' = NoTimer
      /\ UNCHANGED <<boxes, drafts, sentRows, pad, calls, edits, made, clicks, told, mails, reopened, broken>>
  BY DEF Close, ClosesItself, server, history
<1> QED BY <1>1, ShutWell
-----------------------------------------------------------------------------
(* What makes a call.                                                      *)

LEMMA NewCallWell ==
  ASSUME ComposeWell, NEW e, CallWell(e, Len(clicks'), made), calls' = calls \cup {e},
         Len(clicks) <= Len(clicks'), Len(clicks') \in Nat, UNCHANGED made
  PROVE  CallsWell'
BY ComposeFields DEF ComposeWell, CallsWell, CallWell, CallType

\* An autosave.
Saves(e) ==
  /\ timer # NoTimer /\ timer' = NoTimer /\ calls' = calls \cup {e}
  /\ e.no = panel.no /\ e.click = 0 /\ e.at = "up" /\ ~e.ok
  /\ \/ e.kind = "create" /\ e.draft = None
     \/ e.kind = "patch" /\ e.draft = timer.draft /\ e.text = timer.text
  /\ UNCHANGED <<boxes, drafts, panel, pad, made, clicks, told, mails, reopened, broken>>

LEMMA AutosaveDoes ==
  ASSUME ComposeWell, Autosave
  PROVE  ComposeWell' /\ \E e : Saves(e)
<1> DEFINE kind == IF timer.draft = None THEN "create" ELSE "patch"
           e == Call(kind, 0, timer.draft, timer.from, timer.text)
<1>1. /\ timer # NoTimer /\ timer' = NoTimer /\ calls' = calls \cup {e}
      /\ UNCHANGED <<boxes, drafts, sentRows, panel, pad, edits, made, clicks, told, mails, reopened, broken>>
  BY DEF Autosave, server, history
<1>2. /\ timer.draft \in DraftIds \cup {None} /\ timer.from \in Boxes /\ timer.text \in Versions /\ kind \in Kinds
      /\ Known(timer.draft, made)
  BY <1>1 DEF ComposeWell, PanelWell, TimerType, Kinds
<1>3. Asked(e, kind, 0, timer.draft, timer.from, timer.text) /\ e.no = panel.no
  BY <1>2, CallAsked, 0 \in Nat
<1>4. (kind = "create" /\ timer.draft = None) \/ (kind = "patch" /\ timer.draft # None)
  OBVIOUS
<1> HIDE DEF e, kind
<1>5. Saves(e)
  BY <1>1, <1>3, <1>4 DEF Asked, Saves
<1>6. CallWell(e, Len(clicks), made)
  BY <1>2, <1>3, <1>4, ComposeFields DEF Asked, CallWell
<1>7. CallsWell'
  BY <1>1, <1>6, NewCallWell, ComposeFields
<1>8. PanelWell'
  BY <1>1, ComposeRecords DEF ComposeWell, PanelWell, Known
<1> QED BY <1>1, <1>5, <1>7, <1>8 DEF ComposeWell, ServerWell, PadWell, PastWell

\* A draft is thrown away, or a reply is fetched.
Wants(e) ==
  /\ calls' = calls \cup {e} /\ e.click = 0 /\ e.at = "up" /\ ~e.ok
  /\ UNCHANGED <<boxes, drafts, panel, timer, made, clicks, told, mails, reopened, broken>>

LEMMA DiscardDoes ==
  ASSUME ComposeWell, Discard
  PROVE  ComposeWell' /\ UNCHANGED pad /\ \E e : Wants(e) /\ e.kind = "delete"
<1> DEFINE e == Call("delete", 0, panel.draft, None, 0)
<1>1. /\ panel.draft # None /\ calls' = calls \cup {e}
      /\ UNCHANGED <<boxes, drafts, sentRows, panel, timer, pad, edits, made, clicks, told, mails, reopened, broken>>
  BY DEF Discard, server, client, history
<1>2. panel.draft \in DraftIds \cup {None} /\ Known(panel.draft, made) /\ "delete" \in Kinds
  BY DEF ComposeWell, PanelWell, PanelType, Kinds
<1>3. Asked(e, "delete", 0, panel.draft, None, 0)
  BY <1>2, CallAsked, ComposeConstants
<1> HIDE DEF e
<1>4. Wants(e) /\ e.kind = "delete"
  BY <1>1, <1>3 DEF Asked, Wants
<1>5. CallWell(e, Len(clicks), made)
  BY <1>1, <1>2, <1>3, ComposeFields DEF Asked, CallWell
<1>6. CallsWell'
  BY <1>1, <1>5, NewCallWell, ComposeFields
<1> QED BY <1>1, <1>4, <1>6 DEF ComposeWell, ServerWell, PanelWell, PadWell, PastWell

\* The call e of a new click, at which k was shown.
Clicked(e, k) ==
  /\ calls' = calls \cup {e} /\ e.click = Len(clicks) + 1 /\ e.at = "up" /\ ~e.ok
  /\ Len(clicks') = Len(clicks) + 1 /\ clicks'[Len(clicks) + 1] = k
  /\ \A i \in 1 .. Len(clicks) : clicks'[i] = clicks[i]
  /\ UNCHANGED <<boxes, drafts, timer, pad, made, told, mails, reopened, broken>>

LEMMA ClickedWell ==
  ASSUME ComposeWell, NEW e, NEW k \in ClickType, CallWell(e, Len(clicks) + 1, made), e.click = Len(clicks) + 1, e.at = "up", ~e.ok,
         Len(clicks) < MaxClicks, clicks' = Append(clicks, k), calls' = calls \cup {e}, PanelWell',
         UNCHANGED <<boxes, drafts, timer, pad, made, told, mails, reopened, broken>>
  PROVE  ComposeWell' /\ Clicked(e, k)
<1>1. clicks \in Seq(ClickType) /\ Len(clicks) \in Nat /\ Len(clicks) <= MaxClicks /\ MaxClicks \in Nat
  BY ComposeFields, ComposeConstants DEF ComposeWell, PastWell
<1>2. /\ clicks' \in Seq(ClickType) /\ Len(clicks') = Len(clicks) + 1 /\ clicks'[Len(clicks) + 1] = k
      /\ \A i \in 1 .. Len(clicks) : clicks'[i] = clicks[i]
  BY <1>1
<1>3. Clicked(e, k)
  BY <1>2 DEF Clicked
<1>4. CallsWell'
  BY <1>1, <1>2, NewCallWell
<1>5. PastWell'
  <2>1. Len(clicks') <= MaxClicks
    BY <1>1, <1>2
  <2>2. \A x \in mails' : x.click <= Len(clicks')
    BY <1>1, <1>2, ComposeConstants DEF ComposeWell, PastWell, MailType
  <2> QED BY <1>2, <2>1, <2>2 DEF ComposeWell, PastWell
<1> QED BY <1>3, <1>4, <1>5 DEF ComposeWell, ServerWell, PadWell

\* What the panel shows is sent.
Sends(e, k) ==
  /\ panel.open /\ ~panel.busy
  /\ panel'.open /\ panel'.busy /\ panel'.no = panel.no /\ panel'.draft = panel.draft
  /\ Clicked(e, k) /\ k.text = panel.text /\ k.from = panel.from
  /\ k.calm => Calm(panel.draft)
  /\ k.kept => (panel.draft # None => drafts[panel.draft] # None /\ drafts[panel.draft].box = panel.from)
  /\ e.no = panel.no /\ e.draft = panel.draft /\ e.from = panel.from /\ e.text = panel.text
  /\ e.kind = IF panel.draft = None THEN "send" ELSE "final"

LEMMA ClickSendDoes ==
  ASSUME ComposeWell, ClickSend
  PROVE  ComposeWell' /\ \E e, k : Sends(e, k)
<1> DEFINE kept == panel.draft # None => drafts[panel.draft] # None /\ drafts[panel.draft].box = panel.from
           k == [text |-> panel.text, from |-> panel.from, calm |-> Calm(panel.draft), kept |-> kept]
           kind == IF panel.draft = None THEN "send" ELSE "final"
           e == Call(kind, Len(clicks) + 1, panel.draft, panel.from, panel.text)
<1>1. /\ panel.open /\ ~panel.busy /\ Len(clicks) < MaxClicks /\ panel' = [panel EXCEPT !.busy = TRUE]
      /\ clicks' = Append(clicks, k) /\ calls' = calls \cup {e}
      /\ UNCHANGED <<boxes, drafts, timer, pad, edits, made, told, mails, reopened, broken>>
  BY Zenon DEF ClickSend, CanSend, FirstCall, server
<1>2. /\ panel.draft \in DraftIds \cup {None} /\ panel.from \in Boxes /\ panel.text \in Versions /\ kind \in Kinds
      /\ Known(panel.draft, made) /\ Len(clicks) + 1 \in Nat
  BY <1>1, ComposeFields DEF ComposeWell, PanelWell, PanelType, Kinds
<1>3. Asked(e, kind, Len(clicks) + 1, panel.draft, panel.from, panel.text) /\ e.no = panel.no
  BY <1>2, CallAsked
<1>4. kept \in BOOLEAN /\ Calm(panel.draft) \in BOOLEAN
  BY DEF Calm
<1>5. k \in ClickType /\ k.text = panel.text /\ k.from = panel.from /\ k.calm = Calm(panel.draft) /\ k.kept = kept
  <2> HIDE DEF kept
  <2> QED BY <1>2, <1>4 DEF ClickType
<1>6. (kind = "send" /\ panel.draft = None) \/ (kind = "final" /\ panel.draft # None)
  OBVIOUS
<1> HIDE DEF e, k
<1>7. CallWell(e, Len(clicks) + 1, made)
  <2> HIDE DEF kind
  <2> QED BY <1>2, <1>3, <1>6, ComposeFields DEF Asked, CallWell
<1>8. PanelWell' /\ panel'.open /\ panel'.busy /\ panel'.no = panel.no /\ panel'.draft = panel.draft
  BY <1>1 DEF ComposeWell, PanelWell, PanelType, Known
<1>9. ComposeWell' /\ Clicked(e, k)
  BY <1>1, <1>3, <1>5, <1>7, <1>8, ClickedWell DEF Asked
<1>10. Sends(e, k)
  BY <1>1, <1>3, <1>5, <1>8, <1>9 DEF Asked, Sends
<1> QED BY <1>9, <1>10
-----------------------------------------------------------------------------
(* The answers.                                                            *)

\* What the panel, its timer and its words become when the answer of c is there.
Hears(c) ==
  /\ calls' = calls \ {c} /\ c.at = "down"
  /\ panel'.no = panel.no /\ UNCHANGED <<boxes, drafts, pad, made, clicks, mails, reopened, broken>>
  /\ \/ /\ c.kind = "create" /\ c.ok /\ c.no = panel.no /\ panel.open /\ panel'.open
        /\ panel'.draft = c.draft /\ panel'.busy = panel.busy /\ UNCHANGED <<timer, told>>
     \/ /\ c.kind \in {"final", "send"} /\ panel'.open = panel.open /\ panel'.draft = panel.draft
        /\ panel'.busy = (panel.busy /\ ~Mounted(c)) /\ UNCHANGED timer
        /\ told' = [told EXCEPT ![c.click] = IF c.ok THEN "sent" ELSE "failed"]
     \/ ~panel'.open /\ panel'.draft = panel.draft /\ timer' = NoTimer /\ UNCHANGED told
     \/ UNCHANGED <<panel, timer, told>>

\* The draft is written, and is sent now.
GoesOn(c, e) ==
  /\ calls' = (calls \ {c}) \cup {e} /\ c.kind = "final" /\ c.at = "down" /\ c.ok
  /\ e.kind = "send" /\ e.no = c.no /\ e.click = c.click /\ e.draft = c.draft /\ e.from = c.from /\ e.text = c.text
  /\ e.at = "up" /\ ~e.ok
  /\ UNCHANGED <<boxes, drafts, panel, timer, pad, made, clicks, told, mails, reopened, broken>>

LEMMA ToldWell ==
  ASSUME ComposeWell, NEW c \in calls, c.click > 0, NEW word \in {"sent", "failed"}, told' = [told EXCEPT ![c.click] = word],
         UNCHANGED <<clicks, mails>>
  PROVE  PastWell'
<1>1. c.click \in Clicks
  BY ComposeFields DEF ComposeWell, CallsWell, CallWell, CallType
<1> QED BY <1>1 DEF ComposeWell, PastWell

LEMMA ReturnsDoes ==
  ASSUME ComposeWell, NEW c \in calls, Returns(c)
  PROVE  ComposeWell' /\ (Hears(c) \/ \E e : GoesOn(c, e))
<1>1. /\ c.at = "down" /\ UNCHANGED <<boxes, drafts, sentRows, pad, edits, made, clicks, mails, reopened, broken>>
  BY DEF Returns, server
<1>2. CallWell(c, Len(clicks), made) /\ c \in CallType
  BY DEF ComposeWell, CallsWell, CallWell
<1>3. panel \in PanelType /\ panel.draft = panel.draft
  BY DEF ComposeWell, PanelWell
<1>4. CASE /\ c.kind = "create" /\ c.ok /\ Mounted(c) /\ panel' = [panel EXCEPT !.draft = c.draft]
           /\ calls' = calls \ {c} /\ UNCHANGED <<timer, closing, told>>
  <2>1. c.draft \in DraftIds /\ Known(c.draft, made)
    BY <1>2, <1>4 DEF CallWell, CallType
  <2>2. /\ panel' \in PanelType /\ panel'.open /\ panel'.no = panel.no /\ panel'.draft = c.draft /\ panel'.busy = panel.busy
        /\ panel'.text = panel.text /\ panel'.from = panel.from /\ c.no = panel.no
    BY <1>3, <1>4, <2>1 DEF PanelType, Mounted
  <2>3. PanelWell' /\ CallsWell'
    BY <1>1, <1>4, <2>1, <2>2, FewerCallsWell, ComposeFields DEF ComposeWell, PanelWell, Known, Mounted
  <2>4. Hears(c)
    BY <1>1, <1>4, <2>2 DEF Hears, Mounted
  <2> QED BY <1>1, <1>4, <2>3, <2>4 DEF ComposeWell, ServerWell, PadWell, PastWell
<1>5. CASE /\ c.kind = "final" /\ c.ok /\ Moves(c, [c EXCEPT !.kind = "send", !.at = "up", !.ok = FALSE])
           /\ UNCHANGED <<panel, timer, closing, told>>
  <2> DEFINE e == [c EXCEPT !.kind = "send", !.at = "up", !.ok = FALSE]
  <2>1. /\ e \in CallType /\ e.kind = "send" /\ e.no = c.no /\ e.click = c.click /\ e.draft = c.draft /\ e.from = c.from
        /\ e.text = c.text /\ e.at = "up" /\ ~e.ok
    BY <1>2 DEF CallType, Kinds
  <2>2. calls' = (calls \ {c}) \cup {e}
    BY <1>5 DEF Moves
  <2> HIDE DEF e
  <2>3. GoesOn(c, e)
    BY <1>1, <1>5, <2>1, <2>2 DEF GoesOn
  <2>4. CallWell(e, Len(clicks), made)
    BY <1>2, <1>5, <2>1 DEF CallWell
  <2>5. CallsWell'
    BY <1>1, <2>2, <2>4 DEF ComposeWell, CallsWell
  <2> QED BY <1>1, <1>5, <2>3, <2>5 DEF ComposeWell, ServerWell, PanelWell, PadWell, PastWell
<1>6. CASE /\ c.kind \in {"final", "send"} /\ told' = [told EXCEPT ![c.click] = IF c.ok THEN "sent" ELSE "failed"]
           /\ panel' = (IF Mounted(c) THEN [panel EXCEPT !.busy = FALSE] ELSE panel)
           /\ calls' = calls \ {c} /\ UNCHANGED timer
  <2>1. /\ panel' \in PanelType /\ panel'.open = panel.open /\ panel'.no = panel.no /\ panel'.draft = panel.draft
        /\ panel'.text = panel.text /\ panel'.from = panel.from /\ panel'.busy = (panel.busy /\ ~Mounted(c))
    <3>1. CASE Mounted(c)
      BY <1>3, <1>6, <3>1 DEF PanelType
    <3>2. CASE ~Mounted(c)
      BY <1>3, <1>6, <3>2 DEF PanelType
    <3> QED BY <3>1, <3>2
  <2>2. PanelWell' /\ CallsWell'
    BY <1>1, <1>6, <2>1, FewerCallsWell, ComposeFields DEF ComposeWell, PanelWell, Known
  <2>3. c.click > 0
    BY <1>2, <1>6 DEF CallWell
  <2>4. PastWell'
    BY <1>1, <1>6, <2>3, ToldWell
  <2>5. Hears(c)
    BY <1>1, <1>6, <2>1 DEF Hears
  <2> QED BY <1>1, <1>6, <2>2, <2>4, <2>5 DEF ComposeWell, ServerWell, PadWell
<1>7. CASE /\ panel' = [panel EXCEPT !.open = FALSE] /\ timer' = NoTimer
           /\ calls' = calls \ {c} /\ UNCHANGED <<closing, told>>
  <2>1. panel' \in PanelType /\ ~panel'.open /\ panel'.no = panel.no /\ panel'.draft = panel.draft
    BY <1>3, <1>7 DEF PanelType
  <2>2. PanelWell' /\ CallsWell'
    BY <1>1, <1>7, <2>1, ComposeRecords, FewerCallsWell, ComposeFields DEF ComposeWell, PanelWell, Known
  <2>3. Hears(c)
    BY <1>1, <1>7, <2>1 DEF Hears
  <2> QED BY <1>1, <1>7, <2>2, <2>3 DEF ComposeWell, ServerWell, PadWell, PastWell
<1>8. CASE calls' = calls \ {c} /\ UNCHANGED <<panel, timer, closing, told>>
  <2>1. PanelWell' /\ CallsWell'
    BY <1>1, <1>8, FewerCallsWell, ComposeFields DEF ComposeWell, PanelWell, Known
  <2>2. Hears(c)
    BY <1>1, <1>8 DEF Hears
  <2> QED BY <1>1, <1>8, <2>1, <2>2 DEF ComposeWell, ServerWell, PadWell, PastWell
<1> QED BY <1>4, <1>5, <1>6, <1>7, <1>8, Zenon DEF Returns
-----------------------------------------------------------------------------
(* The compose screen of the app.                                          *)

\* What the screen shows changes, and nothing else.
PadLooks ==
  /\ \/ /\ pad.open /\ pad'.open /\ pad'.no = pad.no /\ pad'.reply = pad.reply
        /\ pad.reply # None => pad'.from = pad.from
     \/ ~pad'.open /\ pad'.no = pad.no
     \/ pad'.open /\ pad'.no = pad.no + 1 /\ pad'.reply = None
  /\ UNCHANGED <<boxes, drafts, panel, timer, calls, made, clicks, told, mails, reopened, broken>>

LEMMA WellWithPad ==
  ASSUME ComposeWell, edits' \in Versions, PadWell',
         UNCHANGED <<boxes, drafts, panel, timer, calls, made, clicks, told, mails>>
  PROVE  ComposeWell'
BY DEF ComposeWell, ServerWell, PanelWell, Known, CallsWell, PastWell

LEMMA PadCallAsked ==
  ASSUME ComposeWell, NEW kind \in Kinds, NEW click \in Nat, NEW from \in Boxes \cup {None}, NEW text \in Versions, pad'.no \in Nat
  PROVE  Asked(PadCall(kind, click, from, text), kind, click, None, from, text) /\ PadCall(kind, click, from, text).no = pad'.no
<1> DEFINE d == Call(kind, click, None, from, text)
           e == [d EXCEPT !.no = pad'.no]
<1>1. Asked(d, kind, click, None, from, text)
  BY CallAsked
<1> HIDE DEF d
<1>2. Asked(e, kind, click, None, from, text) /\ e.no = pad'.no
  BY <1>1 DEF Asked, CallType
<1>3. PadCall(kind, click, from, text) = e
  BY DEF PadCall, d
<1> HIDE DEF e
<1> QED BY <1>2, <1>3

LEMMA PadOpensDoes ==
  ASSUME ComposeWell, NEW b \in Boxes, NEW reply \in BOOLEAN, PadOpens(b, reply)
  PROVE  /\ ComposeWell'
         /\ \/ PadLooks
            \/ /\ pad'.open /\ pad'.no = pad.no + 1 /\ pad'.reply = b /\ pad'.from = b
               /\ \E e : Wants(e) /\ e.kind = "prefill" /\ e.no = pad'.no /\ e.from = b
<1>1. /\ pad' = [NoPad EXCEPT !.open = TRUE, !.no = pad.no + 1, !.from = b,
                         !.is = IF reply THEN "loading" ELSE "ready", !.reply = IF reply THEN b ELSE None]
      /\ calls' = IF reply THEN calls \cup {PadCall("prefill", 0, b, 0)} ELSE calls
      /\ UNCHANGED <<boxes, drafts, sentRows, panel, timer, edits, made, clicks, told, mails, reopened, broken>>
  BY DEF PadOpens, server, history
<1>2. PICK q \in PadType : q = NoPad
  BY ComposeRecords
<1>3. /\ pad' \in PadType /\ pad'.open /\ pad'.no = pad.no + 1 /\ pad'.from = b /\ pad'.no \in Nat
      /\ pad'.reply = IF reply THEN b ELSE None
  <2> DEFINE is == IF reply THEN "loading" ELSE "ready"
             re == IF reply THEN b ELSE None
  <2>1. is \in {"ready", "loading", "error"} /\ re \in Boxes \cup {None} /\ pad.no + 1 \in Nat
    BY ComposeFields
  <2>2. pad' = [q EXCEPT !.open = TRUE, !.no = pad.no + 1, !.from = b, !.is = is, !.reply = re]
    BY <1>1, <1>2
  <2> HIDE DEF is, re
  <2>3. pad' \in PadType /\ pad'.open /\ pad'.no = pad.no + 1 /\ pad'.from = b /\ pad'.no \in Nat /\ pad'.reply = re
    BY <2>1, <2>2 DEF PadType
  <2> QED BY <2>3 DEF re
<1>4. PadWell' /\ edits' \in Versions
  BY <1>1, <1>3 DEF PadWell, ComposeWell, PanelWell
<1>5. CASE ~reply
  <2>1. PadLooks
    BY <1>1, <1>3, <1>5 DEF PadLooks
  <2> QED BY <1>1, <1>4, <1>5, <2>1, WellWithPad
<1>6. CASE reply
  <2> DEFINE e == PadCall("prefill", 0, b, 0)
  <2>1. Asked(e, "prefill", 0, None, b, 0) /\ e.no = pad'.no
    BY <1>3, PadCallAsked, ComposeConstants DEF Kinds
  <2>2. calls' = calls \cup {e}
    BY <1>1, <1>6
  <2> HIDE DEF e
  <2>3. Wants(e) /\ e.kind = "prefill" /\ e.no = pad'.no /\ e.from = b
    BY <1>1, <2>1, <2>2 DEF Wants, Asked
  <2>4. CallWell(e, Len(clicks), made)
    BY <2>1, ComposeFields DEF Asked, CallWell, Known
  <2>5. CallsWell'
    BY <1>1, <2>2, <2>4, NewCallWell, ComposeFields
  <2>6. ComposeWell'
    BY <1>1, <1>4, <2>5 DEF ComposeWell, ServerWell, PanelWell, Known, PastWell
  <2> QED BY <1>3, <1>6, <2>3, <2>6
<1> QED BY <1>5, <1>6

LEMMA PadLooksDoes ==
  ASSUME ComposeWell, PadEdits \/ PadLeaves \/ \E b \in Boxes : PadPicks(b)
  PROVE  ComposeWell' /\ PadLooks
<1>1. pad \in PadType
  BY DEF ComposeWell, PadWell
<1>2. CASE PadEdits
  <2>1. /\ pad.open /\ edits < MaxEdits /\ edits' = edits + 1 /\ pad' = [pad EXCEPT !.text = edits + 1]
        /\ UNCHANGED <<boxes, drafts, panel, timer, calls, made, clicks, told, mails, reopened, broken>>
    BY <1>2 DEF PadEdits, server
  <2>2. edits + 1 \in Versions
    BY <2>1, ComposeFields, ComposeConstants
  <2>3. pad' \in PadType /\ pad'.open /\ pad'.no = pad.no /\ pad'.reply = pad.reply /\ pad'.from = pad.from
    BY <1>1, <2>1, <2>2 DEF PadType
  <2>4. PadWell' /\ PadLooks
    BY <2>1, <2>3 DEF ComposeWell, PadWell, PadLooks
  <2> QED BY <2>1, <2>2, <2>4, WellWithPad
<1>3. CASE PadLeaves
  <2>1. /\ pad' = [NoPad EXCEPT !.no = pad.no]
        /\ UNCHANGED <<boxes, drafts, panel, timer, calls, edits, made, clicks, told, mails, reopened, broken>>
    BY <1>3 DEF PadLeaves, server, history
  <2>2. PICK q \in PadType : q = NoPad /\ ~q.open
    BY ComposeRecords
  <2>3. pad' \in PadType /\ ~pad'.open /\ pad'.no = pad.no
    BY <1>1, <2>1, <2>2 DEF PadType
  <2>4. PadWell' /\ PadLooks /\ edits' \in Versions
    BY <2>1, <2>3 DEF ComposeWell, PanelWell, PadWell, PadLooks
  <2> QED BY <2>1, <2>4, WellWithPad
<1>4. CASE \E b \in Boxes : PadPicks(b)
  <2>1. PICK b \in Boxes : PadPicks(b)
    BY <1>4
  <2>2. /\ pad.open /\ pad.reply = None /\ pad' = [pad EXCEPT !.from = b]
        /\ UNCHANGED <<boxes, drafts, panel, timer, calls, edits, made, clicks, told, mails, reopened, broken>>
    BY <2>1 DEF PadPicks, server, history
  <2>3. pad' \in PadType /\ pad'.open /\ pad'.no = pad.no /\ pad'.reply = pad.reply /\ pad'.from = b
    BY <1>1, <2>2 DEF PadType
  <2>4. PadWell' /\ PadLooks /\ edits' \in Versions
    BY <2>2, <2>3 DEF ComposeWell, PanelWell, PadWell, PadLooks
  <2> QED BY <2>2, <2>4, WellWithPad
<1> QED BY <1>2, <1>3, <1>4

\* What the screen shows is sent; a reply from the mailbox its message came to.
Posts(e, k) ==
  /\ Clicked(e, k) /\ UNCHANGED panel /\ e.kind = "post" /\ e.draft = None
  /\ pad.open /\ e.from = pad.from /\ e.text = k.text /\ k.from = IF pad.reply = None THEN pad.from ELSE pad.reply

LEMMA PadSendsDoes ==
  ASSUME ComposeWell, PadSends
  PROVE  ComposeWell' /\ \E e, k : Posts(e, k)
<1> DEFINE from == IF pad.reply = None THEN pad.from ELSE pad.reply
           k == [text |-> pad.text, from |-> from, calm |-> TRUE, kept |-> TRUE]
           e == PadCall("post", Len(clicks) + 1, pad.from, pad.text)
<1>1. /\ pad.open /\ Len(clicks) < MaxClicks /\ pad' = pad
      /\ clicks' = Append(clicks, k) /\ calls' = calls \cup {e}
      /\ UNCHANGED <<boxes, drafts, panel, timer, edits, made, told, mails, reopened, broken>>
  BY Zenon DEF PadSends, CanPress, server
<1>2. /\ pad.from \in Boxes /\ pad.text \in Versions /\ from \in Boxes /\ Len(clicks) + 1 \in Nat /\ pad'.no \in Nat
  BY <1>1, ComposeFields DEF ComposeWell, PadWell, PadType
<1>3. Asked(e, "post", Len(clicks) + 1, None, pad.from, pad.text)
  BY <1>2, PadCallAsked DEF Kinds
<1>4. k \in ClickType /\ k.text = pad.text /\ k.from = from
  <2> HIDE DEF from
  <2> QED BY <1>2 DEF ClickType
<1> HIDE DEF e, k
<1>5. CallWell(e, Len(clicks) + 1, made)
  BY <1>2, <1>3, ComposeFields DEF Asked, CallWell, Known
<1>6. PanelWell'
  BY <1>1 DEF ComposeWell, PanelWell, Known
<1>7. ComposeWell' /\ Clicked(e, k)
  BY <1>1, <1>3, <1>4, <1>5, <1>6, ClickedWell DEF Asked
<1>8. Posts(e, k)
  BY <1>1, <1>3, <1>4, <1>7 DEF Asked, Posts
<1> QED BY <1>7, <1>8

PadHears(c) ==
  /\ calls' = calls \ {c} /\ c.at = "down" /\ c.kind \in {"prefill", "post"}
  /\ \/ pad' = pad
     \/ ~pad'.open /\ pad'.no = pad.no
     \/ c.kind = "prefill" /\ pad.open /\ pad'.no = pad.no /\ pad'.no = c.no /\ pad'.reply = pad.reply /\ pad'.from = c.from
  /\ \/ told' = told
     \/ c.kind = "post" /\ told' = [told EXCEPT ![c.click] = IF c.ok THEN "sent" ELSE "failed"]
  /\ UNCHANGED <<boxes, drafts, panel, timer, made, clicks, mails, reopened, broken>>

LEMMA PadReturnsDoes ==
  ASSUME ComposeWell, NEW c \in calls, PadReturns(c)
  PROVE  ComposeWell' /\ PadHears(c)
<1> DEFINE here == pad.open /\ pad.no = c.no
<1>1. /\ c.at = "down" /\ c.kind \in {"prefill", "post"} /\ calls' = calls \ {c}
      /\ pad' = IF ~here THEN pad
                ELSE IF c.kind = "prefill" THEN [pad EXCEPT !.is = IF c.ok THEN "ready" ELSE "error", !.from = c.from]
                ELSE IF c.ok THEN [NoPad EXCEPT !.no = pad.no] ELSE pad
      /\ told' = IF c.kind = "post" /\ here THEN [told EXCEPT ![c.click] = IF c.ok THEN "sent" ELSE "failed"] ELSE told
      /\ UNCHANGED <<boxes, drafts, panel, timer, edits, made, clicks, mails, reopened, broken>>
  BY Zenon DEF PadReturns, server
<1>2. CallWell(c, Len(clicks), made) /\ c \in CallType /\ pad \in PadType
  BY DEF ComposeWell, CallsWell, CallWell, PadWell
<1>3. /\ PadWell'
      /\ \/ pad' = pad
         \/ ~pad'.open /\ pad'.no = pad.no
         \/ c.kind = "prefill" /\ pad.open /\ pad'.no = pad.no /\ pad'.no = c.no /\ pad'.reply = pad.reply /\ pad'.from = c.from
  <2>1. CASE here /\ c.kind = "prefill"
    <3> DEFINE is == IF c.ok THEN "ready" ELSE "error"
    <3>1. pad' = [pad EXCEPT !.is = is, !.from = c.from] /\ is \in {"ready", "loading", "error"}
      BY <1>1, <2>1
    <3>2. c.from \in Boxes
      BY <1>2, <2>1 DEF CallWell
    <3> HIDE DEF is
    <3>3. pad' \in PadType /\ pad'.no = pad.no /\ pad'.reply = pad.reply /\ pad'.from = c.from
      BY <1>2, <3>1, <3>2 DEF PadType
    <3> QED BY <2>1, <3>2, <3>3 DEF PadWell
  <2>2. CASE here /\ c.kind # "prefill" /\ c.ok
    <3>1. pad' = [NoPad EXCEPT !.no = pad.no]
      BY <1>1, <2>2
    <3>2. PICK q \in PadType : q = NoPad /\ ~q.open
      BY ComposeRecords
    <3>3. pad' \in PadType /\ ~pad'.open /\ pad'.no = pad.no
      BY <1>2, <3>1, <3>2 DEF PadType
    <3> QED BY <3>3 DEF PadWell
  <2>3. CASE ~here \/ (c.kind # "prefill" /\ ~c.ok)
    <3>1. pad' = pad
      BY <1>1, <2>3
    <3> QED BY <3>1 DEF ComposeWell, PadWell
  <2> QED BY <2>1, <2>2, <2>3
<1>4. PadHears(c)
  BY <1>1, <1>3 DEF PadHears
<1>5. PastWell'
  <2>1. CASE told' = told
    BY <1>1, <2>1 DEF ComposeWell, PastWell
  <2>2. CASE c.kind = "post" /\ told' = [told EXCEPT ![c.click] = IF c.ok THEN "sent" ELSE "failed"]
    <3>1. c.click > 0
      BY <1>2, <2>2 DEF CallWell
    <3> QED BY <1>1, <2>2, <3>1, ToldWell
  <2> QED BY <1>1, <2>1, <2>2
<1>6. CallsWell' /\ PanelWell'
  BY <1>1, FewerCallsWell, ComposeFields DEF ComposeWell, PanelWell, Known
<1> QED BY <1>1, <1>3, <1>4, <1>5, <1>6 DEF ComposeWell, ServerWell
-----------------------------------------------------------------------------
(* The server.                                                             *)

\* Rows of drafts are only deleted.
RowsGo == \A d \in DraftIds : drafts'[d] \in {drafts[d], None}

\* Call c is answered with ok.
Answers(c, e, ok) ==
  /\ Goes(c, e, "down", ok) /\ RowsGo /\ boxes' = boxes
  /\ ok => c.kind # "final" /\ (c.kind = "create" => c.ok)
  /\ c.at = "taken" /\ ~ok => broken' \/ c.from \notin boxes
  /\ c.at = "down" /\ ~ok => broken'
  /\ broken => broken'
  /\ UNCHANGED <<panel, timer, pad, made, clicks, told, mails, reopened>>

LEMMA AnswersWell ==
  ASSUME ComposeWell, NEW c \in calls, NEW e, NEW ok \in BOOLEAN, Goes(c, e, "down", ok),
         ok => c.kind # "create" \/ c.draft # None,
         drafts' \in [DraftIds -> DraftRow \cup {None}], RowsGo, edits' = edits,
         UNCHANGED <<boxes, panel, timer, pad, made, clicks, told, mails>>
  PROVE  ComposeWell'
<1>1. CallWell(e, Len(clicks), made)
  BY DEF ComposeWell, CallsWell, CallWell, Goes
<1>2. CallsWell'
  BY <1>1 DEF ComposeWell, CallsWell, Goes
<1>3. ServerWell'
  BY DEF ComposeWell, ServerWell, RowsGo
<1> QED BY <1>2, <1>3 DEF ComposeWell, PanelWell, Known, PadWell, PastWell

LEMMA RowsStay ==
  ASSUME ComposeWell, drafts' = drafts
  PROVE  drafts' \in [DraftIds -> DraftRow \cup {None}] /\ RowsGo
BY DEF ComposeWell, ServerWell, RowsGo

LEMMA RowGoes ==
  ASSUME ComposeWell, NEW d, drafts' = [drafts EXCEPT ![d] = None]
  PROVE  drafts' \in [DraftIds -> DraftRow \cup {None}] /\ RowsGo
BY DEF ComposeWell, ServerWell, RowsGo

LEMMA PrefillDoes ==
  ASSUME ComposeWell, NEW c \in calls, Prefill(c)
  PROVE  ComposeWell' /\ \E e, ok : Answers(c, e, ok)
<1> DEFINE ok == c.from \in boxes
<1>1. /\ c.kind = "prefill" /\ c.at = "up" /\ Answered(c, ok)
      /\ UNCHANGED <<boxes, drafts, panel, timer, pad, edits, made, clicks, told, mails, reopened, broken>>
  BY DEF Prefill, server, client, history
<1>2. ok \in BOOLEAN
  OBVIOUS
<1> HIDE DEF ok
<1>3. PICK e : Goes(c, e, "down", ok)
  BY <1>1, <1>2, AnsweredGoes
<1>4. ComposeWell' /\ RowsGo
  BY <1>1, <1>2, <1>3, RowsStay, AnswersWell
<1>5. Answers(c, e, ok)
  BY <1>1, <1>3, <1>4 DEF Answers
<1> QED BY <1>4, <1>5

\* Call c has made the next row of drafts.
Makes(c, e) ==
  /\ c.kind = "create" /\ e.kind = "create" /\ e.no = c.no /\ e.click = c.click /\ e.draft = made + 1
  /\ e.at = "down" /\ e.ok /\ calls' = (calls \ {c}) \cup {e}
  /\ made + 1 \in DraftIds /\ \A d \in DraftIds : d # made + 1 => drafts'[d] = drafts[d]
  /\ UNCHANGED <<boxes, panel, timer, pad, clicks, told, mails, reopened, broken>>

LEMMA CreateDoes ==
  ASSUME ComposeWell, NEW c \in calls, Create(c)
  PROVE  ComposeWell' /\ ((\E e, ok : Answers(c, e, ok)) \/ \E e : Makes(c, e))
<1>1. /\ c.kind = "create" /\ c.at = "up"
      /\ UNCHANGED <<boxes, panel, timer, pad, edits, clicks, told, mails, reopened, broken>>
  BY DEF Create, client
<1>2. CASE c.from \notin boxes
  <2>1. Answered(c, FALSE) /\ UNCHANGED <<made, drafts>>
    BY <1>2 DEF Create
  <2>2. PICK e : Goes(c, e, "down", FALSE)
    BY <2>1, AnsweredGoes
  <2>3. ComposeWell' /\ RowsGo
    BY <1>1, <2>1, <2>2, RowsStay, AnswersWell
  <2>4. Answers(c, e, FALSE)
    BY <1>1, <2>1, <2>2, <2>3 DEF Answers
  <2> QED BY <2>3, <2>4
<1>3. CASE c.from \in boxes
  <2> DEFINE e == [c EXCEPT !.at = "down", !.ok = TRUE, !.draft = made + 1]
             r == [box |-> c.from, text |-> c.text]
  <2>1. /\ made < MaxDrafts /\ made' = made + 1 /\ drafts' = [drafts EXCEPT ![made + 1] = r] /\ calls' = (calls \ {c}) \cup {e}
    BY <1>3 DEF Create, Moves
  <2>2. CallWell(c, Len(clicks), made) /\ c \in CallType
    BY DEF ComposeWell, CallsWell, CallWell
  <2>3. made + 1 \in DraftIds /\ made + 1 \in 1 .. made' /\ made \in Nat /\ made' \in 0 .. MaxDrafts
    BY <2>1, ComposeConstants DEF ComposeWell, ServerWell
  <2>4. /\ e \in CallType /\ e.kind = "create" /\ e.no = c.no /\ e.click = c.click /\ e.draft = made + 1 /\ e.from = c.from
        /\ e.at = "down" /\ e.ok = TRUE
    BY <1>1, <2>2, <2>3 DEF CallType
  <2>5. r \in DraftRow /\ r # None
    BY <1>1, <2>2, ComposeConstants DEF DraftRow, CallWell, CallType
  <2> HIDE DEF e, r
  <2>6. ServerWell'
    <3>1. drafts' \in [DraftIds -> DraftRow \cup {None}]
      BY <2>1, <2>3, <2>5 DEF ComposeWell, ServerWell
    <3>2. \A d \in DraftIds : drafts'[d] # None => d \in 1 .. made'
      BY <2>1, <2>3 DEF ComposeWell, ServerWell
    <3> QED BY <1>1, <2>3, <3>1, <3>2 DEF ComposeWell, ServerWell
  <2>7. CallWell(e, Len(clicks), made')
    BY <1>1, <2>1, <2>2, <2>3, <2>4, ComposeConstants DEF CallWell, Known
  <2>8. \A x \in calls : CallWell(x, Len(clicks), made')
    BY <2>1, <2>3 DEF ComposeWell, CallsWell, CallWell, Known
  <2>9. CallsWell'
    BY <1>1, <2>1, <2>7, <2>8 DEF CallsWell
  <2>10. PanelWell'
    BY <1>1, <2>1, <2>3 DEF ComposeWell, PanelWell, Known
  <2>11. Makes(c, e)
    BY <1>1, <2>1, <2>3, <2>4 DEF Makes, ComposeWell, ServerWell
  <2> QED BY <1>1, <2>6, <2>9, <2>10, <2>11 DEF ComposeWell, PadWell, PastWell
<1> QED BY <1>2, <1>3

\* Call c has written its text to the draft, if it is there.
Writes(c) ==
  /\ c.kind \in {"patch", "final"} /\ c.at = "up" /\ c.draft \in DraftIds
  /\ \A d \in DraftIds : drafts'[d] = IF d = c.draft /\ drafts[d] # None THEN [box |-> drafts[d].box, text |-> c.text] ELSE drafts[d]
  /\ \/ c.kind = "patch" /\ calls' = calls \ {c}
     \/ c.kind = "final" /\ \E e : Goes(c, e, "down", drafts[c.draft] # None)
  /\ UNCHANGED <<boxes, panel, timer, pad, made, clicks, told, mails, reopened, broken>>

LEMMA PatchDoes ==
  ASSUME ComposeWell, NEW c \in calls, Patch(c)
  PROVE  ComposeWell' /\ Writes(c)
<1> DEFINE ok == drafts[c.draft] # None
<1>1. /\ c.kind \in {"patch", "final"} /\ c.at = "up"
      /\ drafts' = IF drafts[c.draft] = None THEN drafts ELSE [drafts EXCEPT ![c.draft].text = c.text]
      /\ IF c.kind = "final" THEN Answered(c, ok) ELSE calls' = calls \ {c}
      /\ UNCHANGED <<boxes, panel, timer, pad, edits, made, clicks, told, mails, reopened, broken>>
  BY DEF Patch, client, history
<1>2. CallWell(c, Len(clicks), made) /\ c \in CallType /\ c.draft \in DraftIds /\ c.text \in Versions
  BY <1>1 DEF ComposeWell, CallsWell, CallWell, CallType
<1>3. ok \in BOOLEAN
  OBVIOUS
<1>4. \A d \in DraftIds : drafts'[d] = IF d = c.draft /\ drafts[d] # None THEN [box |-> drafts[d].box, text |-> c.text] ELSE drafts[d]
  <2>1. CASE drafts[c.draft] = None
    BY <1>1, <2>1
  <2>2. CASE drafts[c.draft] # None
    <3>1. drafts[c.draft] \in DraftRow
      BY <1>2, <2>2 DEF ComposeWell, ServerWell
    <3>2. [drafts[c.draft] EXCEPT !.text = c.text] = [box |-> drafts[c.draft].box, text |-> c.text]
      BY <3>1 DEF DraftRow
    <3>3. drafts' = [drafts EXCEPT ![c.draft] = [drafts[c.draft] EXCEPT !.text = c.text]]
      BY <1>1, <2>2
    <3> QED BY <1>2, <2>2, <3>2, <3>3 DEF ComposeWell, ServerWell
  <2> QED BY <2>1, <2>2
<1>5. drafts' \in [DraftIds -> DraftRow \cup {None}]
  <2>1. ASSUME NEW d \in DraftIds PROVE drafts'[d] \in DraftRow \cup {None}
    <3>1. drafts[d] \in DraftRow \cup {None}
      BY DEF ComposeWell, ServerWell
    <3>2. CASE d = c.draft /\ drafts[d] # None
      <4>1. drafts'[d] = [box |-> drafts[d].box, text |-> c.text] /\ drafts[d].box \in Boxes
        BY <1>4, <3>1, <3>2 DEF DraftRow
      <4> QED BY <1>2, <4>1 DEF DraftRow
    <3>3. CASE d # c.draft \/ drafts[d] = None
      BY <1>4, <3>1, <3>3
    <3> QED BY <3>2, <3>3
  <2>2. drafts' = [d \in DraftIds |-> drafts'[d]]
    <3>1. CASE drafts[c.draft] = None
      BY <1>1, <3>1 DEF ComposeWell, ServerWell
    <3>2. CASE drafts[c.draft] # None
      BY <1>1, <3>2 DEF ComposeWell, ServerWell
    <3> QED BY <3>1, <3>2
  <2> QED BY <2>1, <2>2
<1>6. ServerWell'
  BY <1>1, <1>4, <1>5 DEF ComposeWell, ServerWell
<1> HIDE DEF ok
<1>7. CASE c.kind = "final"
  <2>1. PICK e : Goes(c, e, "down", ok)
    BY <1>1, <1>3, <1>7, AnsweredGoes
  <2>2. CallWell(e, Len(clicks), made)
    BY <1>2, <1>7, <2>1 DEF CallWell, Goes
  <2>3. CallsWell'
    BY <1>1, <2>1, <2>2 DEF ComposeWell, CallsWell, Goes
  <2>4. Writes(c)
    BY <1>1, <1>2, <1>4, <1>7, <2>1 DEF Writes, ok
  <2> QED BY <1>1, <1>6, <2>3, <2>4 DEF ComposeWell, PanelWell, Known, PadWell, PastWell
<1>8. CASE c.kind = "patch"
  <2>1. CallsWell'
    BY <1>1, <1>8, FewerCallsWell, ComposeFields
  <2>2. Writes(c)
    BY <1>1, <1>2, <1>4, <1>8 DEF Writes
  <2> QED BY <1>1, <1>6, <2>1, <2>2 DEF ComposeWell, PanelWell, Known, PadWell, PastWell
<1> QED BY <1>1, <1>7, <1>8

LEMMA DeleteDoes ==
  ASSUME ComposeWell, NEW c \in calls, Delete(c)
  PROVE  ComposeWell' /\ \E e, ok : Answers(c, e, ok)
<1> DEFINE ok == drafts[c.draft] # None
<1>1. /\ c.kind = "delete" /\ c.at = "up" /\ Answered(c, ok) /\ drafts' = [drafts EXCEPT ![c.draft] = None]
      /\ UNCHANGED <<boxes, panel, timer, pad, edits, made, clicks, told, mails, reopened, broken>>
  BY DEF Delete, client, history
<1>2. ok \in BOOLEAN
  OBVIOUS
<1> HIDE DEF ok
<1>3. PICK e : Goes(c, e, "down", ok)
  BY <1>1, <1>2, AnsweredGoes
<1>4. ComposeWell' /\ RowsGo
  BY <1>1, <1>2, <1>3, RowGoes, AnswersWell
<1>5. Answers(c, e, ok)
  BY <1>1, <1>3, <1>4 DEF Answers
<1> QED BY <1>4, <1>5
\* The send route has read what it sends: the draft if there is one, what the call carries otherwise.
Reads(c, e) ==
  /\ c.kind \in {"send", "post"} /\ c.at = "up" /\ calls' = (calls \ {c}) \cup {e}
  /\ e.kind = c.kind /\ e.no = c.no /\ e.click = c.click /\ e.draft = c.draft /\ e.at = "relay" /\ ~e.ok
  /\ c.draft = None => e.from = c.from /\ e.text = c.text
  /\ c.draft # None => drafts[c.draft] # None /\ e.from = drafts[c.draft].box /\ e.text = drafts[c.draft].text
  /\ UNCHANGED <<boxes, drafts, panel, timer, pad, made, clicks, told, mails, reopened, broken>>

LEMMA SendDoes ==
  ASSUME ComposeWell, NEW c \in calls, Send(c)
  PROVE  ComposeWell' /\ \E e : Answers(c, e, FALSE) \/ Reads(c, e)
<1> DEFINE d == c.draft
           found == IF d = None THEN c.from \in boxes ELSE drafts[d] # None
           from == IF d = None THEN c.from ELSE drafts[d].box
           text == IF d = None THEN c.text ELSE drafts[d].text
           e == [c EXCEPT !.at = "relay", !.from = from, !.text = text]
<1>1. /\ c.kind \in {"send", "post"} /\ c.at = "up"
      /\ IF ~found THEN Answered(c, FALSE) ELSE calls' = (calls \ {c}) \cup {e}
      /\ UNCHANGED <<boxes, drafts, panel, timer, pad, edits, made, clicks, told, mails, reopened, broken>>
  <2>1. c \in CallType
    BY DEF ComposeWell, CallsWell, CallWell
  <2>2. [c EXCEPT !.at = "relay", !.from = IF d = None THEN @ ELSE drafts[d].box, !.text = IF d = None THEN @ ELSE drafts[d].text] = e
    BY <2>1 DEF CallType
  <2> QED BY <2>2 DEF Send, Moves, server, client, history
<1>2. CASE ~found
  <2>1. PICK x : Goes(c, x, "down", FALSE)
    BY <1>1, <1>2, AnsweredGoes
  <2>2. ComposeWell' /\ RowsGo
    BY <1>1, <2>1, RowsStay, AnswersWell
  <2>3. Answers(c, x, FALSE)
    BY <1>1, <2>1, <2>2 DEF Answers
  <2> QED BY <2>2, <2>3
<1>3. CASE found
  <2>1. CallWell(c, Len(clicks), made) /\ c \in CallType /\ ~c.ok
    BY <1>1 DEF ComposeWell, CallsWell, CallWell, CallType
  <2>2. from \in Boxes /\ text \in Versions
    <3>1. CASE d = None
      BY <1>1, <2>1, <3>1 DEF CallWell, CallType
    <3>2. CASE d # None
      <4>1. drafts[d] \in DraftRow
        BY <1>3, <2>1, <3>2 DEF CallType, ComposeWell, ServerWell
      <4> QED BY <3>2, <4>1 DEF DraftRow
    <3> QED BY <3>1, <3>2
  <2>3. /\ d = None => from = c.from /\ text = c.text
        /\ d # None => drafts[d] # None /\ from = drafts[d].box /\ text = drafts[d].text
    BY <1>3
  <2>4. calls' = (calls \ {c}) \cup {e}
    BY <1>1, <1>3
  <2> HIDE DEF from, text, found
  <2>5. /\ e \in CallType /\ e.kind = c.kind /\ e.no = c.no /\ e.click = c.click /\ e.draft = d /\ e.from = from
        /\ e.text = text /\ e.at = "relay" /\ ~e.ok
    BY <2>1, <2>2 DEF CallType
  <2> HIDE DEF e
  <2>6. CallWell(e, Len(clicks), made)
    BY <1>1, <2>1, <2>2, <2>5 DEF CallWell
  <2>7. CallsWell'
    BY <1>1, <2>4, <2>6 DEF ComposeWell, CallsWell
  <2>8. Reads(c, e)
    BY <1>1, <2>3, <2>4, <2>5 DEF Reads
  <2> QED BY <1>1, <2>7, <2>8 DEF ComposeWell, ServerWell, PanelWell, Known, PadWell, PastWell
<1> QED BY <1>2, <1>3

\* The relay has the message x of call c.
Takes(c, e, x) ==
  /\ c.at = "relay" /\ Goes(c, e, "taken", FALSE)
  /\ mails' = mails \cup {x} /\ x.click = c.click /\ x.draft = c.draft /\ x.from = c.from /\ x.text = c.text
  /\ UNCHANGED <<boxes, drafts, panel, timer, pad, made, clicks, told, reopened, broken>>

LEMMA RelayTakesDoes ==
  ASSUME ComposeWell, NEW c \in calls, RelayTakes(c)
  PROVE  ComposeWell' /\ \E e, x : Takes(c, e, x)
<1> DEFINE e == [c EXCEPT !.at = "taken"]
           x == [click |-> c.click, draft |-> c.draft, from |-> c.from, text |-> c.text]
<1>1. /\ c.at = "relay" /\ calls' = (calls \ {c}) \cup {e} /\ mails' = mails \cup {x}
      /\ UNCHANGED <<boxes, drafts, panel, timer, pad, edits, made, clicks, told, reopened, broken>>
  BY DEF RelayTakes, Moves, server, client
<1>2. CallWell(c, Len(clicks), made) /\ c \in CallType /\ c.ok = FALSE /\ c.from \in Boxes /\ c.click > 0 /\ c.kind \in {"send", "post"}
  BY <1>1 DEF ComposeWell, CallsWell, CallWell, CallType
<1>3. /\ e \in CallType /\ e.kind = c.kind /\ e.no = c.no /\ e.click = c.click /\ e.draft = c.draft /\ e.from = c.from
      /\ e.text = c.text /\ e.at = "taken" /\ e.ok = FALSE
  BY <1>2 DEF CallType
<1>4. x \in MailType /\ x.click <= Len(clicks) /\ x.click = c.click /\ x.draft = c.draft /\ x.from = c.from /\ x.text = c.text
  <2>1. c.click \in Clicks
    BY <1>2, ComposeFields DEF CallWell, CallType
  <2> QED BY <1>2, <2>1 DEF CallWell, CallType, MailType
<1> HIDE DEF e, x
<1>5. Goes(c, e, "taken", FALSE)
  BY <1>1, <1>3 DEF Goes
<1>6. CallsWell'
  <2>1. CallWell(e, Len(clicks), made)
    BY <1>1, <1>2, <1>3 DEF CallWell
  <2> QED BY <1>1, <2>1 DEF ComposeWell, CallsWell
<1>7. Takes(c, e, x)
  BY <1>1, <1>4, <1>5 DEF Takes
<1> QED BY <1>1, <1>4, <1>6, <1>7 DEF ComposeWell, ServerWell, PanelWell, Known, PadWell, PastWell

LEMMA RelayRefusesDoes ==
  ASSUME ComposeWell, NEW c \in calls, RelayRefuses(c)
  PROVE  ComposeWell' /\ \E e : Answers(c, e, FALSE)
<1>1. /\ c.at = "relay" /\ Answered(c, FALSE)
      /\ UNCHANGED <<boxes, drafts, panel, timer, pad, edits, made, clicks, told, mails, reopened, broken>>
  BY DEF RelayRefuses, server, client, history
<1>2. PICK e : Goes(c, e, "down", FALSE)
  BY <1>1, AnsweredGoes
<1>3. ComposeWell' /\ RowsGo
  BY <1>1, <1>2, RowsStay, AnswersWell
<1>4. Answers(c, e, FALSE)
  BY <1>1, <1>2, <1>3 DEF Answers
<1> QED BY <1>3, <1>4

LEMMA FileDoes ==
  ASSUME ComposeWell, NEW c \in calls, File(c)
  PROVE  ComposeWell' /\ c.at = "taken" /\ (\E e, ok : Answers(c, e, ok))
         /\ \A d \in DraftIds : drafts'[d] # drafts[d] => c.draft = d
<1> DEFINE ok == c.from \in boxes
<1>1. /\ c.at = "taken" /\ Answered(c, ok)
      /\ \/ ok /\ drafts' = IF c.draft = None THEN drafts ELSE [drafts EXCEPT ![c.draft] = None]
         \/ ~ok /\ drafts' = drafts
      /\ UNCHANGED <<boxes, panel, timer, pad, edits, made, clicks, told, mails, reopened, broken>>
  BY DEF File, Fileable, client, history
<1>2. ok \in BOOLEAN
  OBVIOUS
<1>3. c.kind \in {"send", "post"}
  BY <1>1 DEF ComposeWell, CallsWell, CallWell
<1>4. drafts' = drafts \/ drafts' = [drafts EXCEPT ![c.draft] = None]
  BY <1>1
<1>5. drafts' \in [DraftIds -> DraftRow \cup {None}] /\ RowsGo
  BY <1>4, RowsStay, RowGoes
<1>6. \A d \in DraftIds : drafts'[d] # drafts[d] => c.draft = d
  BY <1>4 DEF ComposeWell, ServerWell
<1>7. PICK e : Goes(c, e, "down", ok)
  <2> HIDE DEF ok
  <2> QED BY <1>1, <1>2, AnsweredGoes
<1>8. ComposeWell'
  <2> HIDE DEF ok
  <2> QED BY <1>1, <1>2, <1>3, <1>5, <1>7, AnswersWell
<1>9. Answers(c, e, ok)
  BY <1>1, <1>3, <1>5, <1>7 DEF Answers
<1> QED BY <1>1, <1>6, <1>8, <1>9

LEMMA LostDoes ==
  ASSUME ComposeWell, NEW c \in calls, Lost(c)
  PROVE  ComposeWell' /\ \E e : Answers(c, e, FALSE)
<1>1. /\ Answered(c, FALSE) /\ broken' = TRUE
      /\ UNCHANGED <<boxes, drafts, panel, timer, pad, edits, made, clicks, told, mails, reopened>>
  BY DEF Lost, server, client
<1>2. PICK e : Goes(c, e, "down", FALSE)
  BY <1>1, AnsweredGoes
<1>3. ComposeWell' /\ RowsGo
  BY <1>1, <1>2, RowsStay, AnswersWell
<1>4. Answers(c, e, FALSE)
  BY <1>1, <1>2, <1>3 DEF Answers
<1> QED BY <1>3, <1>4

\* A mailbox goes with its drafts.
BoxGoes ==
  /\ boxes' \subseteq boxes /\ RowsGo
  /\ \A d \in DraftIds : drafts'[d] # drafts[d] => drafts[d].box \notin boxes'
  /\ UNCHANGED <<panel, timer, pad, calls, made, clicks, told, mails, reopened, broken>>

LEMMA DeleteMailboxDoes ==
  ASSUME ComposeWell, NEW b \in Boxes, DeleteMailbox(b)
  PROVE  ComposeWell' /\ BoxGoes
<1>1. /\ boxes' = boxes \ {b}
      /\ drafts' = [d \in DraftIds |-> IF drafts[d] # None /\ drafts[d].box = b THEN None ELSE drafts[d]]
      /\ UNCHANGED <<panel, timer, pad, calls, edits, made, clicks, told, mails, reopened, broken>>
  BY DEF DeleteMailbox, client, history
<1>2. BoxGoes
  BY <1>1 DEF BoxGoes, RowsGo
<1>3. ServerWell'
  BY <1>1 DEF ComposeWell, ServerWell
<1> QED BY <1>1, <1>2, <1>3 DEF ComposeWell, PanelWell, Known, PadWell, CallsWell, PastWell
-----------------------------------------------------------------------------
(* Every step is of one of these kinds.                                    *)

PanelStep == Looks /\ UNCHANGED <<boxes, drafts, pad, calls, made, clicks, told, mails, broken>>

Fetches(e) ==
  /\ Wants(e) /\ e.kind = "prefill" /\ e.no = pad'.no /\ e.from = pad'.reply
  /\ pad'.open /\ pad'.no = pad.no + 1 /\ pad'.reply = pad'.from

PanelCalls ==
  \/ \E e : Saves(e)
  \/ \E e : Wants(e) /\ e.kind = "delete" /\ UNCHANGED pad
  \/ \E e : Fetches(e)
  \/ \E e, k : Sends(e, k) \/ Posts(e, k)

CallMoves(c) ==
  \/ Hears(c) \/ PadHears(c) \/ Writes(c)
  \/ \E e : \/ GoesOn(c, e) \/ Makes(c, e) \/ Reads(c, e)
            \/ \E x : Takes(c, e, x)
            \/ \E ok : Answers(c, e, ok)

NothingMoves == UNCHANGED <<boxes, drafts, panel, timer, pad, calls, made, clicks, told, mails, reopened, broken>>

ComposeStep == NothingMoves \/ PanelStep \/ PadLooks \/ PanelCalls \/ BoxGoes \/ \E c \in calls : CallMoves(c)

LEMMA ComposeWellInit == Init => ComposeWell
<1> SUFFICES ASSUME Init PROVE ComposeWell
  OBVIOUS
<1>1. ServerWell
  BY ComposeConstants DEF Init, ServerWell
<1>2. PanelWell /\ PadWell
  BY ComposeRecords, ComposeConstants DEF Init, PanelWell, PadWell, Known
<1>3. CallsWell
  BY DEF Init, CallsWell
<1>4. PastWell
  BY ComposeConstants DEF Init, PastWell
<1> QED BY <1>1, <1>2, <1>3, <1>4 DEF ComposeWell

LEMMA ComposeSteps ==
  ASSUME ComposeWell, [Next]_vars
  PROVE  ComposeWell' /\ ComposeStep
<1>1. ASSUME NEW b \in Boxes, OpenNew(b) PROVE ComposeWell' /\ PanelStep
  BY <1>1, OpenNewDoes DEF PanelStep, Looks
<1>2. ASSUME NEW b \in Boxes, Edit(b) PROVE ComposeWell' /\ PanelStep
  BY <1>2, EditDoes DEF PanelStep, Looks
<1>3. ASSUME NEW d \in DraftIds, OpenDraft(d) PROVE ComposeWell' /\ PanelStep
  BY <1>3, OpenDraftDoes DEF PanelStep, Looks
<1>4. ASSUME Close \/ ClosesItself PROVE ComposeWell' /\ PanelStep
  BY <1>4, CloseDoes DEF PanelStep, Looks
<1>5. ASSUME NEW b \in Boxes, DeleteMailbox(b) PROVE ComposeWell' /\ BoxGoes
  BY <1>5, DeleteMailboxDoes
<1>6. ASSUME Discard PROVE ComposeWell' /\ PanelCalls
  BY <1>6, DiscardDoes DEF PanelCalls
<1>7. ASSUME ClickSend PROVE ComposeWell' /\ PanelCalls
  BY <1>7, ClickSendDoes DEF PanelCalls
<1>8. ASSUME NEW b \in Boxes, PadPicks(b) \/ PadEdits \/ PadLeaves PROVE ComposeWell' /\ PadLooks
  BY <1>8, PadLooksDoes
<1>9. ASSUME NEW b \in Boxes, NEW reply \in BOOLEAN, PadOpens(b, reply) PROVE ComposeWell' /\ (PadLooks \/ PanelCalls)
  BY <1>9, PadOpensDoes DEF PanelCalls, Fetches
<1>10. ASSUME PadSends PROVE ComposeWell' /\ PanelCalls
  BY <1>10, PadSendsDoes DEF PanelCalls
<1>11. ASSUME Autosave PROVE ComposeWell' /\ PanelCalls
  BY <1>11, AutosaveDoes DEF PanelCalls
<1>12. ASSUME NEW c \in calls, Returns(c) PROVE ComposeWell' /\ CallMoves(c)
  BY <1>12, ReturnsDoes DEF CallMoves
<1>13. ASSUME NEW c \in calls, PadReturns(c) PROVE ComposeWell' /\ CallMoves(c)
  BY <1>13, PadReturnsDoes DEF CallMoves
<1>14. ASSUME NEW c \in calls, Lost(c) PROVE ComposeWell' /\ CallMoves(c)
  BY <1>14, LostDoes DEF CallMoves
<1>15. ASSUME NEW c \in calls, Prefill(c) \/ Delete(c) PROVE ComposeWell' /\ CallMoves(c)
  BY <1>15, PrefillDoes, DeleteDoes DEF CallMoves
<1>16. ASSUME NEW c \in calls, Create(c) PROVE ComposeWell' /\ CallMoves(c)
  BY <1>16, CreateDoes DEF CallMoves
<1>17. ASSUME NEW c \in calls, Patch(c) PROVE ComposeWell' /\ CallMoves(c)
  BY <1>17, PatchDoes DEF CallMoves
<1>18. ASSUME NEW c \in calls, Send(c) PROVE ComposeWell' /\ CallMoves(c)
  BY <1>18, SendDoes DEF CallMoves
<1>19. ASSUME NEW c \in calls, RelayTakes(c) PROVE ComposeWell' /\ CallMoves(c)
  BY <1>19, RelayTakesDoes DEF CallMoves
<1>20. ASSUME NEW c \in calls, RelayRefuses(c) PROVE ComposeWell' /\ CallMoves(c)
  BY <1>20, RelayRefusesDoes DEF CallMoves
<1>21. ASSUME NEW c \in calls, File(c) PROVE ComposeWell' /\ CallMoves(c)
  BY <1>21, FileDoes DEF CallMoves
<1>22. ASSUME UNCHANGED vars PROVE ComposeWell' /\ NothingMoves
  <2>1. UNCHANGED <<boxes, drafts, panel, timer, pad, calls, edits, made, clicks, told, mails, reopened, broken>>
    BY <1>22 DEF vars, server, client, history
  <2> QED BY <2>1 DEF NothingMoves, ComposeWell, ServerWell, PanelWell, Known, PadWell, CallsWell, PastWell
<1>23. Boxes # {}
  BY ComposeConstantsOK
<1>24. CASE Owner
  BY <1>1, <1>2, <1>3, <1>4, <1>5, <1>6, <1>7, <1>8, <1>9, <1>10, <1>23, <1>24 DEF Owner, ComposeStep
<1>25. CASE Client
  BY <1>4, <1>11, <1>12, <1>13, <1>14, <1>25 DEF Client, ComposeStep
<1>26. CASE Server
  BY <1>15, <1>16, <1>17, <1>18, <1>19, <1>20, <1>21, <1>26 DEF Server, ComposeStep
<1> QED BY <1>22, <1>24, <1>25, <1>26 DEF Next, ComposeStep
-----------------------------------------------------------------------------
(* There is at most one call for a click, and one send of a panel.         *)

IsSending(c) == c.kind \in {"final", "send"}

OneCall ==
  /\ \A c, e \in calls : c.click > 0 /\ c.click = e.click => c = e
  /\ \A c, e \in calls : IsSending(c) /\ IsSending(e) /\ c.no = e.no => c = e
  /\ \A c \in calls : IsSending(c) /\ c.no = panel.no /\ panel.open => panel.busy
  /\ \A c \in calls : IsSending(c) \/ c.kind = "create" => c.no <= panel.no

LEMMA CallNumbers ==
  ASSUME ComposeWell
  PROVE  /\ \A c \in calls : c.no \in Nat /\ c.click \in 0 .. Len(clicks) /\ c.at \in {"up", "relay", "taken", "down"}
                             /\ (IsSending(c) \/ c.kind = "post" <=> c.click > 0)
         /\ panel.no \in Nat /\ Len(clicks) \in Nat
<1>1. \A c \in calls : c \in CallType /\ CallWell(c, Len(clicks), made)
  BY DEF ComposeWell, CallsWell, CallWell
<1>2. panel.no \in Nat /\ Len(clicks) \in Nat
  BY ComposeFields
<1> QED BY <1>1, <1>2 DEF CallType, CallWell, IsSending

LEMMA OneCallFewer ==
  ASSUME OneCall, calls' \subseteq calls, panel'.no = panel.no, panel'.open => panel.open /\ panel'.busy = panel.busy
  PROVE  OneCall'
BY DEF OneCall, IsSending

LEMMA OneCallMoves ==
  ASSUME OneCall, NEW c \in calls, NEW e, calls' = (calls \ {c}) \cup {e}, e.click = c.click, e.no = c.no,
         IsSending(e) <=> IsSending(c), e.kind = "create" => c.kind = "create", panel' = panel
  PROVE  OneCall'
BY DEF OneCall, IsSending

LEMMA OneCallMore ==
  ASSUME ComposeWell, OneCall, NEW e, calls' = calls \cup {e}, ~IsSending(e), e.click \notin 1 .. Len(clicks),
         e.kind = "create" => e.no = panel.no, panel' = panel
  PROVE  OneCall'
BY CallNumbers DEF OneCall, IsSending

LEMMA OneCallStep ==
  ASSUME ComposeWell, OneCall, ComposeStep
  PROVE  OneCall'
<1>0. /\ \A c \in calls : c.no \in Nat /\ c.click \in 0 .. Len(clicks) /\ (IsSending(c) \/ c.kind = "post" <=> c.click > 0)
      /\ panel.no \in Nat /\ Len(clicks) \in Nat
  BY CallNumbers
<1>1. CASE NothingMoves \/ PadLooks \/ BoxGoes
  BY <1>1, OneCallFewer DEF NothingMoves, PadLooks, BoxGoes
<1>2. CASE PanelStep
  <2>1. CASE Opened
    <3>1. calls' = calls /\ panel'.no = panel.no + 1 /\ \A c \in calls : c.no <= panel.no => c.no <= panel'.no /\ c.no # panel'.no
      BY <1>0, <1>2, <2>1 DEF PanelStep, Opened
    <3> QED BY <1>0, <3>1 DEF OneCall, IsSending
  <2>2. CASE Edited \/ Shut
    BY <1>2, <2>2, OneCallFewer DEF PanelStep, Edited, Shut
  <2> QED BY <1>2, <2>1, <2>2 DEF PanelStep, Looks
<1>3. ASSUME NEW e, Saves(e) PROVE OneCall'
  BY <1>0, <1>3, OneCallMore DEF Saves, IsSending
<1>4. ASSUME NEW e, Wants(e), e.kind \in {"delete", "prefill"} PROVE OneCall'
  BY <1>0, <1>4, OneCallMore DEF Wants, IsSending
<1>5. ASSUME NEW e, NEW k, Posts(e, k) PROVE OneCall'
  BY <1>0, <1>5, OneCallMore DEF Posts, Clicked, IsSending
<1>6. ASSUME NEW e, NEW k, Sends(e, k) PROVE OneCall'
  <2>1. /\ panel.open /\ ~panel.busy /\ panel'.busy /\ panel'.no = panel.no /\ e.no = panel.no
        /\ calls' = calls \cup {e} /\ IsSending(e) /\ e.kind # "create"
        /\ \A c \in calls : c.click # e.click
    BY <1>0, <1>6 DEF Sends, Clicked, IsSending
  <2>2. \A c \in calls : IsSending(c) => c.no # panel.no
    BY <2>1 DEF OneCall
  <2> QED BY <1>0, <2>1, <2>2 DEF OneCall, IsSending
<1>7. ASSUME NEW c \in calls, Hears(c) PROVE OneCall'
  <2>1. calls' = calls \ {c} /\ panel'.no = panel.no
    BY <1>7 DEF Hears
  <2>2. CASE panel'.open => panel.open /\ panel'.busy = panel.busy
    BY <2>1, <2>2, OneCallFewer
  <2>3. CASE IsSending(c) /\ panel'.open = panel.open /\ panel'.busy = (panel.busy /\ ~Mounted(c))
    <3>1. CASE Mounted(c)
      <4>1. \A x \in calls' : IsSending(x) => x.no # panel.no
        BY <2>1, <2>3, <3>1 DEF OneCall, Mounted
      <4> QED BY <2>1, <2>3, <4>1 DEF OneCall, IsSending
    <3>2. CASE ~Mounted(c)
      <4>1. \A x \in calls' : IsSending(x) /\ x.no = panel.no /\ panel.open => panel.busy
        BY <2>1 DEF OneCall
      <4> QED BY <2>1, <2>3, <3>2, <4>1 DEF OneCall, IsSending
    <3> QED BY <3>1, <3>2
  <2> QED BY <1>7, <2>2, <2>3 DEF Hears, IsSending
<1>8. ASSUME NEW c \in calls, PadHears(c) PROVE OneCall'
  BY <1>8, OneCallFewer DEF PadHears
<1>9. ASSUME NEW c \in calls, Writes(c) PROVE OneCall'
  <2>1. CASE calls' = calls \ {c}
    BY <1>9, <2>1, OneCallFewer DEF Writes
  <2>2. ASSUME NEW e, NEW ok, Goes(c, e, "down", ok) PROVE OneCall'
    BY <1>9, <2>2, OneCallMoves DEF Writes, Goes, IsSending
  <2> QED BY <1>9, <2>1, <2>2 DEF Writes
<1>10. ASSUME NEW c \in calls, NEW e, GoesOn(c, e) \/ Makes(c, e) \/ Reads(c, e) PROVE OneCall'
  <2>1. CASE GoesOn(c, e)
    BY <2>1, OneCallMoves DEF GoesOn, IsSending
  <2>2. CASE Makes(c, e)
    BY <2>2, OneCallMoves DEF Makes, IsSending
  <2>3. CASE Reads(c, e)
    BY <2>3, OneCallMoves DEF Reads, IsSending
  <2> QED BY <1>10, <2>1, <2>2, <2>3
<1>11. ASSUME NEW c \in calls, NEW e, NEW x, Takes(c, e, x) PROVE OneCall'
  BY <1>11, OneCallMoves DEF Takes, Goes, IsSending
<1>12. ASSUME NEW c \in calls, NEW e, NEW ok, Answers(c, e, ok) PROVE OneCall'
  BY <1>12, OneCallMoves DEF Answers, Goes, IsSending
<1>13. CASE PanelCalls
  BY <1>3, <1>4, <1>5, <1>6, <1>13 DEF PanelCalls, Fetches
<1>14. CASE \E c \in calls : CallMoves(c)
  BY <1>7, <1>8, <1>9, <1>10, <1>11, <1>12, <1>14 DEF CallMoves
<1> QED BY <1>1, <1>2, <1>13, <1>14 DEF ComposeStep
-----------------------------------------------------------------------------
(* What a step never takes back.                                           *)

\* Clicks and mails stay as they are; what broke, broke.
Onward ==
  /\ Len(clicks) <= Len(clicks') /\ \A i \in 1 .. Len(clicks) : clicks'[i] = clicks[i]
  /\ boxes' \subseteq boxes /\ (broken => broken') /\ (reopened => reopened')
  /\ mails' = mails \/ \E c \in calls : \E e, x : Takes(c, e, x)

LEMMA MailClicks ==
  ASSUME ComposeWell
  PROVE  \A x \in mails : x.click \in 1 .. Len(clicks) /\ x.click \in Nat /\ x.click > 0
<1>1. \A x \in mails : x \in MailType /\ x.click <= Len(clicks)
  BY DEF ComposeWell, PastWell
<1> QED BY <1>1, ComposeFields, ComposeConstants DEF MailType

LEMMA GoesOnward ==
  ASSUME ComposeWell, ComposeStep
  PROVE  Onward
<1>0. Len(clicks) \in Nat
  BY ComposeFields
<1>1. CASE NothingMoves \/ PanelStep \/ PadLooks \/ BoxGoes
  BY <1>0, <1>1 DEF NothingMoves, PanelStep, Looks, Opened, Edited, Shut, PadLooks, BoxGoes, Onward
<1>2. CASE PanelCalls
  <2>1. ASSUME NEW e, Saves(e) PROVE Onward
    BY <1>0, <2>1 DEF Saves, Onward
  <2>2. ASSUME NEW e, Wants(e) PROVE Onward
    BY <1>0, <2>2 DEF Wants, Onward
  <2>3. ASSUME NEW e, NEW k, Clicked(e, k) PROVE Onward
    BY <1>0, <2>3 DEF Clicked, Onward
  <2> QED BY <1>2, <2>1, <2>2, <2>3 DEF PanelCalls, Fetches, Sends, Posts
<1>3. ASSUME NEW c \in calls, CallMoves(c) PROVE Onward
  <2>1. CASE Hears(c) \/ PadHears(c) \/ Writes(c)
    BY <1>0, <2>1 DEF Hears, PadHears, Writes, Onward
  <2>2. ASSUME NEW e, GoesOn(c, e) \/ Makes(c, e) \/ Reads(c, e) PROVE Onward
    BY <1>0, <2>2 DEF GoesOn, Makes, Reads, Onward
  <2>3. ASSUME NEW e, NEW x, Takes(c, e, x) PROVE Onward
    <3>1. UNCHANGED <<boxes, clicks, broken, reopened>>
      BY <2>3 DEF Takes
    <3> QED BY <1>0, <2>3, <3>1 DEF Onward
  <2>4. ASSUME NEW e, NEW ok, Answers(c, e, ok) PROVE Onward
    BY <1>0, <2>4 DEF Answers, Onward
  <2> QED BY <1>3, <2>1, <2>2, <2>3, <2>4 DEF CallMoves
<1> QED BY <1>1, <1>2, <1>3 DEF ComposeStep
-----------------------------------------------------------------------------
(* A mail and the call that brought it.                                    *)

\* The call of a click of which there is a mail has been taken by the relay, and fails after that
\* only if its mailbox is gone or something broke. What the panel says of a click it says when the
\* call is over.
Mailed ==
  /\ \A x \in mails, c \in calls : c.click = x.click =>
       /\ c.kind \in {"send", "post"} /\ c.at \in {"taken", "down"}
       /\ c.at = "taken" => c.from = x.from /\ c.text = x.text /\ c.draft = x.draft
       /\ c.at = "down" /\ ~c.ok => broken \/ x.from \notin boxes
  /\ \A c \in calls : c.at = "taken" => \E x \in mails : x.click = c.click
  /\ \A c \in calls : c.click > 0 => told[c.click] = "nothing"
  /\ \A k \in Clicks : k > Len(clicks) => told[k] = "nothing"

\* No call begins or moves.
LEMMA MailedFewer ==
  ASSUME ComposeWell, Mailed, calls' \subseteq calls, boxes' \subseteq boxes, broken => broken', UNCHANGED <<clicks, told, mails>>
  PROVE  Mailed'
BY DEF Mailed

LEMMA MailedMore ==
  ASSUME ComposeWell, ComposeWell', Mailed, Onward, NEW e, calls' = calls \cup {e}, e.at = "up", UNCHANGED <<boxes, broken, told, mails>>,
         e.click = 0 \/ e.click = Len(clicks) + 1, e.click > 0 => Len(clicks') >= e.click
  PROVE  Mailed'
<1>0. Len(clicks) \in Nat /\ Len(clicks') \in Nat /\ Len(clicks) <= Len(clicks')
  BY ComposeFields DEF Onward
<1>1. \A x \in mails : x.click # e.click
  BY <1>0, MailClicks
<1>2. e.click > 0 => e.click \in Clicks /\ e.click > Len(clicks)
  <2>1. ASSUME e.click > 0 PROVE e.click \in Clicks /\ e.click > Len(clicks)
    <3>1. e.click = Len(clicks) + 1 /\ e.click > Len(clicks) /\ e.click \in 1 .. Len(clicks')
      BY <1>0, <2>1
    <3>2. Len(clicks') <= MaxClicks /\ MaxClicks \in Nat
      BY ComposeConstants DEF ComposeWell, PastWell
    <3> QED BY <1>0, <3>1, <3>2, ComposeConstants
  <2> QED BY <2>1
<1>3. \A c \in calls' : c.click > 0 => told'[c.click] = "nothing"
  BY <1>2 DEF Mailed
<1>4. \A k \in Clicks : k > Len(clicks') => k > Len(clicks)
  BY <1>0, ComposeConstants
<1>5. \A x \in mails', c \in calls' : c.click = x.click => c \in calls
  BY <1>1
<1>6. \A c \in calls' : c.at = "taken" => c \in calls
  OBVIOUS
<1> QED BY <1>3, <1>4, <1>5, <1>6 DEF Mailed

\* A call moves that has no mail, or whose mail it is.
LEMMA MailedMoves ==
  ASSUME ComposeWell, Mailed, NEW c \in calls, NEW e, calls' = (calls \ {c}) \cup {e}, e.click = c.click,
         boxes' \subseteq boxes, broken => broken', UNCHANGED <<clicks, told, mails>>,
         \/ c.at \in {"taken", "down"} /\ e.at = "down" /\ e.kind = c.kind /\ (~e.ok => broken' \/ c.from \notin boxes)
            /\ (c.at = "down" /\ ~e.ok => broken')
         \/ c.at \notin {"taken", "down"} /\ e.at # "taken"
         \/ c.kind \notin {"send", "post"} /\ e.at # "taken"
  PROVE  Mailed'
<1>1. \A k \in calls' : k.click > 0 => told'[k.click] = "nothing"
  BY DEF Mailed
<1>2. \A k \in calls' : k.at = "taken" => \E x \in mails : x.click = k.click
  BY DEF Mailed
<1>3. ASSUME NEW x \in mails, e.click = x.click
      PROVE  e.kind \in {"send", "post"} /\ e.at = "down" /\ (~e.ok => broken' \/ x.from \notin boxes)
  <2>1. /\ c.kind \in {"send", "post"} /\ c.at \in {"taken", "down"}
        /\ c.at = "taken" => c.from = x.from
    BY <1>3 DEF Mailed
  <2> QED BY <2>1
<1> QED BY <1>1, <1>2, <1>3 DEF Mailed

\* The panel or the screen says what became of the click.
LEMMA MailedTold ==
  ASSUME ComposeWell, OneCall, Mailed, NEW c \in calls, calls' = calls \ {c}, c.click > 0, NEW word,
         told' = [told EXCEPT ![c.click] = word], UNCHANGED <<boxes, broken, clicks, mails>>
  PROVE  Mailed'
<1>1. \A k \in calls' : k.click > 0 => k.click # c.click
  BY DEF OneCall
<1>2. \A k \in calls : k.click > 0 => k.click \in Clicks
  BY CallNumbers, ComposeFields
<1>3. \A k \in calls' : k.click > 0 => told'[k.click] = "nothing"
  BY <1>1, <1>2 DEF Mailed, ComposeWell, PastWell
<1>4. \A k \in Clicks : k > Len(clicks) => k # c.click
  BY CallNumbers, ComposeConstants
<1>5. \A k \in Clicks : k > Len(clicks) => told'[k] = "nothing"
  BY <1>4 DEF Mailed, ComposeWell, PastWell
<1> QED BY <1>3, <1>5 DEF Mailed

LEMMA MailedTaken ==
  ASSUME ComposeWell, OneCall, Mailed, NEW c \in calls, NEW e, NEW x, Takes(c, e, x)
  PROVE  Mailed'
<1>1. /\ c.at = "relay" /\ calls' = (calls \ {c}) \cup {e} /\ mails' = mails \cup {x}
      /\ e.kind = c.kind /\ e.click = c.click /\ e.draft = c.draft /\ e.from = c.from /\ e.text = c.text /\ e.at = "taken"
      /\ x.click = c.click /\ x.draft = c.draft /\ x.from = c.from /\ x.text = c.text
      /\ UNCHANGED <<boxes, clicks, told, broken>>
  BY DEF Takes, Goes
<1>2. c.kind \in {"send", "post"} /\ c.click > 0
  BY <1>1 DEF ComposeWell, CallsWell, CallWell
<1>3. \A k \in calls : k.click = c.click => k = c
  BY <1>2 DEF OneCall
<1>4. \A y \in mails : y.click # c.click
  BY <1>1 DEF Mailed
<1>5. \A k \in calls' : k.click > 0 => told'[k.click] = "nothing"
  BY <1>1 DEF Mailed
<1>6. \A k \in calls' : k.at = "taken" => \E y \in mails' : y.click = k.click
  BY <1>1 DEF Mailed
<1>7. ASSUME NEW y \in mails', NEW k \in calls', k.click = y.click
      PROVE  /\ k.kind \in {"send", "post"} /\ k.at \in {"taken", "down"}
             /\ k.at = "taken" => k.from = y.from /\ k.text = y.text /\ k.draft = y.draft
             /\ k.at = "down" /\ ~k.ok => broken \/ y.from \notin boxes
  <2>1. CASE k = e
    BY <1>1, <1>2, <1>4, <1>7, <2>1
  <2>2. CASE k # e
    <3>1. k \in calls /\ k # c
      BY <1>1, <2>2
    <3>2. y \in mails
      BY <1>1, <1>3, <1>7, <3>1
    <3> QED BY <1>7, <3>1, <3>2 DEF Mailed
  <2> QED BY <2>1, <2>2
<1> QED BY <1>1, <1>5, <1>6, <1>7 DEF Mailed

LEMMA MailedStep ==
  ASSUME ComposeWell, ComposeWell', OneCall, Mailed, ComposeStep
  PROVE  Mailed'
<1>0. Onward
  BY GoesOnward
<1>1. CASE NothingMoves \/ PanelStep \/ PadLooks \/ BoxGoes
  BY <1>1, MailedFewer DEF NothingMoves, PanelStep, PadLooks, BoxGoes
<1>2. CASE PanelCalls
  <2>1. ASSUME NEW e, Saves(e) PROVE Mailed'
    BY <1>0, <2>1, MailedMore DEF Saves
  <2>2. ASSUME NEW e, Wants(e) PROVE Mailed'
    BY <1>0, <2>2, MailedMore DEF Wants
  <2>3. ASSUME NEW e, NEW k, Clicked(e, k) PROVE Mailed'
    <3>1. /\ calls' = calls \cup {e} /\ e.at = "up" /\ UNCHANGED <<boxes, broken, told, mails>>
          /\ e.click = Len(clicks) + 1 /\ Len(clicks') = e.click /\ e.click \in Nat
      BY <2>3, ComposeFields DEF Clicked
    <3>2. Len(clicks') >= e.click
      BY <3>1
    <3> QED BY <1>0, <3>1, <3>2, MailedMore
  <2> QED BY <1>2, <2>1, <2>2, <2>3 DEF PanelCalls, Fetches, Sends, Posts
<1>3. ASSUME NEW c \in calls, CallMoves(c) PROVE Mailed'
  <2>0. IsSending(c) \/ c.kind = "post" <=> c.click > 0
    BY CallNumbers
  <2>1. CASE Hears(c)
    <3>1. CASE told' = told
      BY <2>1, <3>1, MailedFewer DEF Hears
    <3>2. CASE IsSending(c) /\ \E word : told' = [told EXCEPT ![c.click] = word]
      BY <2>0, <2>1, <3>2, MailedTold DEF Hears
    <3> QED BY <2>1, <3>1, <3>2 DEF Hears, IsSending
  <2>2. CASE PadHears(c)
    <3>1. CASE told' = told
      BY <2>2, <3>1, MailedFewer DEF PadHears
    <3>2. CASE c.kind = "post" /\ \E word : told' = [told EXCEPT ![c.click] = word]
      BY <2>0, <2>2, <3>2, MailedTold DEF PadHears
    <3> QED BY <2>2, <3>1, <3>2 DEF PadHears
  <2>3. CASE Writes(c)
    <3>1. CASE calls' = calls \ {c}
      BY <2>3, <3>1, MailedFewer DEF Writes
    <3>2. ASSUME NEW e, NEW ok, Goes(c, e, "down", ok) PROVE Mailed'
      BY <2>3, <3>2, MailedMoves DEF Writes, Goes
    <3> QED BY <2>3, <3>1, <3>2 DEF Writes
  <2>4. ASSUME NEW e, GoesOn(c, e) \/ Makes(c, e) \/ Reads(c, e) PROVE Mailed'
    BY <2>4, MailedMoves DEF GoesOn, Makes, Reads
  <2>5. ASSUME NEW e, NEW x, Takes(c, e, x) PROVE Mailed'
    BY <2>5, MailedTaken
  <2>6. ASSUME NEW e, NEW ok, Answers(c, e, ok) PROVE Mailed'
    <3>1. /\ calls' = (calls \ {c}) \cup {e} /\ e.click = c.click /\ e.kind = c.kind /\ e.at = "down" /\ e.ok = ok
          /\ boxes' \subseteq boxes /\ (broken => broken') /\ UNCHANGED <<clicks, told, mails>>
          /\ c.at = "taken" /\ ~ok => broken' \/ c.from \notin boxes
          /\ c.at = "down" /\ ~ok => broken'
      BY <2>6 DEF Answers, Goes
    <3> QED BY <3>1, MailedMoves
  <2> QED BY <1>3, <2>1, <2>2, <2>3, <2>4, <2>5, <2>6 DEF CallMoves
<1> QED BY <1>1, <1>2, <1>3 DEF ComposeStep
-----------------------------------------------------------------------------
(* The sender of a message.                                                *)

\* A reply is written from the mailbox its message came to, whatever the fetch answers.
PadFrom ==
  /\ pad.open /\ pad.reply # None => pad.from = pad.reply
  /\ \A c \in calls : c.kind = "prefill" => c.no <= pad.no /\ (pad.open /\ c.no = pad.no => c.from = pad.reply)

LEMMA PadFromStep ==
  ASSUME ComposeWell, PadFrom, ComposeStep
  PROVE  PadFrom'
<1>0. pad.no \in Nat /\ \A c \in calls : c.no \in Nat
  BY CallNumbers, ComposeFields
<1>1. ASSUME calls' \subseteq calls, pad' = pad PROVE PadFrom'
  BY <1>1 DEF PadFrom
<1>2. CASE NothingMoves \/ PanelStep \/ BoxGoes
  BY <1>1, <1>2 DEF NothingMoves, PanelStep, BoxGoes
<1>3. CASE PadLooks
  <2>1. calls' = calls
    BY <1>3 DEF PadLooks
  <2>2. \A c \in calls : c.no <= pad.no => c.no <= pad.no + 1 /\ c.no # pad.no + 1
    BY <1>0
  <2>3. CASE pad.open /\ pad'.open /\ pad'.no = pad.no /\ pad'.reply = pad.reply /\ (pad.reply # None => pad'.from = pad.from)
    BY <2>1, <2>3 DEF PadFrom
  <2>4. CASE ~pad'.open /\ pad'.no = pad.no
    BY <2>1, <2>4 DEF PadFrom
  <2>5. CASE pad'.open /\ pad'.no = pad.no + 1 /\ pad'.reply = None
    BY <2>1, <2>2, <2>5 DEF PadFrom
  <2> QED BY <1>3, <2>3, <2>4, <2>5 DEF PadLooks
<1>4. ASSUME NEW e, calls' = calls \cup {e}, pad' = pad, e.kind # "prefill" PROVE PadFrom'
  BY <1>4 DEF PadFrom
<1>5. ASSUME NEW e, Fetches(e) PROVE PadFrom'
  <2>1. /\ calls' = calls \cup {e} /\ e.no = pad'.no /\ e.from = pad'.reply /\ pad'.no = pad.no + 1 /\ pad'.reply = pad'.from
    BY <1>5 DEF Fetches, Wants
  <2>2. \A c \in calls : c.no <= pad.no => c.no <= pad.no + 1 /\ c.no # pad.no + 1
    BY <1>0
  <2> QED BY <1>0, <2>1, <2>2 DEF PadFrom
<1>6. CASE PanelCalls
  <2>1. ASSUME NEW e, Saves(e) PROVE PadFrom'
    BY <1>4, <2>1 DEF Saves
  <2>2. ASSUME NEW e, Wants(e), e.kind = "delete", pad' = pad PROVE PadFrom'
    BY <1>4, <2>2 DEF Wants
  <2>3. ASSUME NEW e, NEW k, Sends(e, k) \/ Posts(e, k) PROVE PadFrom'
    BY <1>4, <2>3 DEF Sends, Posts, Clicked
  <2> QED BY <1>5, <1>6, <2>1, <2>2, <2>3 DEF PanelCalls
<1>7. ASSUME NEW c \in calls, NEW e, calls' = (calls \ {c}) \cup {e}, pad' = pad,
             e.kind = "prefill" => c.kind = "prefill" /\ e.no = c.no /\ e.from = c.from
      PROVE  PadFrom'
  BY <1>7 DEF PadFrom
<1>8. ASSUME NEW c \in calls, CallMoves(c) PROVE PadFrom'
  <2>1. CASE Hears(c)
    BY <1>1, <2>1 DEF Hears
  <2>2. CASE PadHears(c)
    <3>1. calls' \subseteq calls
      BY <2>2 DEF PadHears
    <3>2. CASE pad' = pad
      BY <1>1, <3>1, <3>2
    <3>3. CASE ~pad'.open /\ pad'.no = pad.no
      BY <3>1, <3>3 DEF PadFrom
    <3>4. CASE c.kind = "prefill" /\ pad.open /\ pad'.no = pad.no /\ pad'.no = c.no /\ pad'.reply = pad.reply /\ pad'.from = c.from
      BY <3>1, <3>4 DEF PadFrom
    <3> QED BY <2>2, <3>2, <3>3, <3>4 DEF PadHears
  <2>3. CASE Writes(c)
    BY <1>1, <1>7, <2>3 DEF Writes, Goes
  <2>4. ASSUME NEW e, GoesOn(c, e) \/ Makes(c, e) \/ Reads(c, e) PROVE PadFrom'
    BY <1>7, <2>4 DEF GoesOn, Makes, Reads
  <2>5. ASSUME NEW e, NEW x, Takes(c, e, x) PROVE PadFrom'
    BY <1>7, <2>5 DEF Takes, Goes
  <2>6. ASSUME NEW e, NEW ok, Answers(c, e, ok) PROVE PadFrom'
    BY <1>7, <2>6 DEF Answers, Goes
  <2> QED BY <1>8, <2>1, <2>2, <2>3, <2>4, <2>5, <2>6 DEF CallMoves
<1> QED BY <1>2, <1>3, <1>6, <1>8 DEF ComposeStep

\* Call c sends from the mailbox s: it carries it, or the draft does.
SentFrom(c, s, ds) ==
  /\ c.draft = None \/ c.at \in {"relay", "taken"} => c.from = s
  /\ c.draft # None => (ds[c.draft] # None => ds[c.draft].box = s)

Sender == \A c \in calls : c.click > 0 /\ clicks[c.click].kept => SentFrom(c, clicks[c.click].from, drafts)

\* The mailbox of a draft never changes, and a new row has a new number.
RowsKeepBox == \A d \in 1 .. made : drafts'[d] # None => drafts[d] # None /\ drafts'[d].box = drafts[d].box

LEMMA BoxesKept ==
  ASSUME ComposeWell, ComposeStep
  PROVE  RowsKeepBox
<1>0. \A d \in 1 .. made : d \in DraftIds /\ d # made + 1
  BY ComposeFields
<1>1. CASE UNCHANGED drafts \/ RowsGo
  BY <1>0, <1>1 DEF RowsGo, RowsKeepBox
<1>2. CASE PanelCalls
  BY <1>1, <1>2 DEF PanelCalls, Fetches, Wants, Saves, Sends, Posts, Clicked
<1>3. ASSUME NEW c \in calls, CallMoves(c) PROVE RowsKeepBox
  <2>1. CASE Hears(c) \/ PadHears(c)
    BY <1>1, <2>1 DEF Hears, PadHears
  <2>2. CASE Writes(c)
    <3>1. ASSUME NEW d \in 1 .. made, drafts'[d] # None PROVE drafts[d] # None /\ drafts'[d].box = drafts[d].box
      <4>1. d \in DraftIds
        BY <1>0
      <4>2. CASE d = c.draft /\ drafts[d] # None
        <5>1. drafts'[d] = [box |-> drafts[d].box, text |-> c.text]
          BY <2>2, <4>1, <4>2 DEF Writes
        <5> QED BY <4>2, <5>1
      <4>3. CASE d # c.draft \/ drafts[d] = None
        <5>1. drafts'[d] = drafts[d]
          BY <2>2, <4>1, <4>3, Zenon DEF Writes
        <5> QED BY <3>1, <5>1
      <4> QED BY <4>2, <4>3
    <3> QED BY <3>1 DEF RowsKeepBox
  <2>3. ASSUME NEW e, GoesOn(c, e) \/ Reads(c, e) PROVE RowsKeepBox
    BY <1>1, <2>3 DEF GoesOn, Reads
  <2>4. ASSUME NEW e, Makes(c, e) PROVE RowsKeepBox
    BY <1>0, <2>4 DEF Makes, RowsKeepBox
  <2>5. ASSUME NEW e, NEW x, Takes(c, e, x) PROVE RowsKeepBox
    BY <1>1, <2>5 DEF Takes
  <2>6. ASSUME NEW e, NEW ok, Answers(c, e, ok) PROVE RowsKeepBox
    BY <1>1, <2>6 DEF Answers
  <2> QED BY <1>3, <2>1, <2>2, <2>3, <2>4, <2>5, <2>6 DEF CallMoves
<1> QED BY <1>1, <1>2, <1>3 DEF ComposeStep, NothingMoves, PanelStep, PadLooks, BoxGoes

\* A call that stays sends from where it sent.
LEMMA SentFromStays ==
  ASSUME ComposeWell, Sender, Onward, RowsKeepBox, NEW c \in calls, c.click > 0, clicks'[c.click].kept
  PROVE  clicks'[c.click] = clicks[c.click] /\ SentFrom(c, clicks[c.click].from, drafts) /\ SentFrom(c, clicks[c.click].from, drafts')
<1>1. c.click \in 1 .. Len(clicks)
  BY CallNumbers
<1>2. clicks'[c.click] = clicks[c.click]
  BY <1>1 DEF Onward
<1>3. SentFrom(c, clicks[c.click].from, drafts)
  BY <1>2 DEF Sender
<1>4. c.draft # None => c.draft \in 1 .. made
  BY DEF ComposeWell, CallsWell, CallWell, Known
<1> QED BY <1>2, <1>3, <1>4 DEF SentFrom, RowsKeepBox

LEMMA SenderMoves ==
  ASSUME ComposeWell, Sender, Onward, RowsKeepBox, NEW c \in calls, NEW e, calls' = (calls \ {c}) \cup {e}, e.click = c.click,
         e.click > 0 => /\ e.draft = c.draft
                        /\ \/ e.from = c.from /\ (e.at \in {"relay", "taken"} => c.at \in {"relay", "taken"})
                           \/ c.draft = None /\ e.from = c.from
                           \/ c.draft # None /\ drafts[c.draft] # None /\ e.from = drafts[c.draft].box
  PROVE  Sender'
<1>1. ASSUME NEW k \in calls, k.click > 0, clicks'[k.click].kept PROVE SentFrom(k, clicks'[k.click].from, drafts')
  BY <1>1, SentFromStays
<1>2. ASSUME e.click > 0, clicks'[e.click].kept PROVE SentFrom(e, clicks'[e.click].from, drafts')
  <2>1. /\ clicks'[c.click] = clicks[c.click] /\ SentFrom(c, clicks[c.click].from, drafts) /\ SentFrom(c, clicks[c.click].from, drafts')
    BY <1>2, SentFromStays
  <2> QED BY <1>2, <2>1 DEF SentFrom
<1> QED BY <1>1, <1>2 DEF Sender

LEMMA SenderStep ==
  ASSUME ComposeWell, PadFrom, Sender, ComposeStep
  PROVE  Sender'
<1>0. Onward /\ RowsKeepBox
  BY GoesOnward, BoxesKept
<1>1. ASSUME NEW k \in calls, k.click > 0, clicks'[k.click].kept PROVE SentFrom(k, clicks'[k.click].from, drafts')
  BY <1>0, <1>1, SentFromStays
<1>2. ASSUME calls' \subseteq calls PROVE Sender'
  BY <1>1, <1>2 DEF Sender
<1>3. CASE NothingMoves \/ PanelStep \/ PadLooks \/ BoxGoes
  BY <1>2, <1>3 DEF NothingMoves, PanelStep, PadLooks, BoxGoes
<1>4. ASSUME NEW e, calls' = calls \cup {e}, e.click = 0 PROVE Sender'
  BY <1>1, <1>4 DEF Sender
<1>5. ASSUME NEW e, NEW k, Clicked(e, k), k.kept => SentFrom(e, k.from, drafts') PROVE Sender'
  BY <1>1, <1>5 DEF Sender, Clicked
<1>6. ASSUME NEW e, NEW k, Sends(e, k) PROVE Sender'
  <2>1. k.kept => SentFrom(e, k.from, drafts')
    BY <1>6 DEF Sends, Clicked, SentFrom
  <2> QED BY <1>5, <1>6, <2>1 DEF Sends
<1>7. ASSUME NEW e, NEW k, Posts(e, k) PROVE Sender'
  <2>1. k.kept => SentFrom(e, k.from, drafts')
    BY <1>7 DEF Posts, Clicked, SentFrom, PadFrom
  <2> QED BY <1>5, <1>7, <2>1 DEF Posts
<1>8. CASE PanelCalls
  BY <1>4, <1>6, <1>7, <1>8 DEF PanelCalls, Fetches, Wants, Saves
<1>9. ASSUME NEW c \in calls, CallMoves(c) PROVE Sender'
  <2>1. CASE Hears(c) \/ PadHears(c)
    BY <1>2, <2>1 DEF Hears, PadHears
  <2>2. CASE Writes(c)
    <3>1. CASE calls' = calls \ {c}
      BY <1>2, <3>1
    <3>2. ASSUME NEW e, NEW ok, Goes(c, e, "down", ok) PROVE Sender'
      BY <1>0, <3>2, SenderMoves DEF Goes
    <3> QED BY <2>2, <3>1, <3>2 DEF Writes
  <2>3. ASSUME NEW e, GoesOn(c, e) PROVE Sender'
    BY <1>0, <2>3, SenderMoves DEF GoesOn
  <2>4. ASSUME NEW e, Reads(c, e) PROVE Sender'
    BY <1>0, <2>4, SenderMoves DEF Reads
  <2>5. ASSUME NEW e, Makes(c, e) PROVE Sender'
    <3>1. c.click = 0
      BY <2>5, CallNumbers DEF Makes, IsSending
    <3> QED BY <1>0, <2>5, <3>1, SenderMoves DEF Makes
  <2>6. ASSUME NEW e, NEW x, Takes(c, e, x) PROVE Sender'
    BY <1>0, <2>6, SenderMoves DEF Takes, Goes
  <2>7. ASSUME NEW e, NEW ok, Answers(c, e, ok) PROVE Sender'
    BY <1>0, <2>7, SenderMoves DEF Answers, Goes
  <2> QED BY <1>9, <2>1, <2>2, <2>3, <2>4, <2>5, <2>6, <2>7 DEF CallMoves
<1> QED BY <1>3, <1>8, <1>9 DEF ComposeStep
-----------------------------------------------------------------------------
(* A draft that the panel has not been told of is nobody else's.           *)

Fresh ==
  \A p \in calls : p.kind = "create" /\ p.draft # None /\ p.no = panel.no =>
    /\ panel.draft # p.draft /\ timer.draft # p.draft
    /\ \A c \in calls : c.click > 0 => c.draft # p.draft
    /\ \A q \in calls : q.kind = "create" /\ q.draft = p.draft => q = p

LEMMA FreshFewer ==
  ASSUME Fresh, calls' \subseteq calls, panel'.no = panel.no, panel'.draft = panel.draft,
         timer'.draft \in {None, timer.draft, panel.draft}
  PROVE  Fresh'
BY DEF Fresh

LEMMA FreshMore ==
  ASSUME Fresh, NEW e, calls' = calls \cup {e}, e.kind = "create" => e.draft = None,
         e.click > 0 => e.draft \in {None, panel.draft}, panel'.no = panel.no, panel'.draft = panel.draft,
         timer'.draft \in {None, timer.draft}
  PROVE  Fresh'
BY DEF Fresh

LEMMA FreshMoves ==
  ASSUME Fresh, NEW c \in calls, NEW e, calls' = (calls \ {c}) \cup {e}, e.draft = c.draft, e.click = c.click, e.no = c.no,
         e.kind = "create" <=> c.kind = "create", UNCHANGED <<panel, timer>>
  PROVE  Fresh'
BY DEF Fresh

LEMMA FreshStep ==
  ASSUME ComposeWell, OneCall, Fresh, ComposeStep
  PROVE  Fresh'
<1>0. NoTimer.draft = None /\ \A c \in calls : c.no \in Nat /\ c.click \in Nat
  BY ComposeRecords, CallNumbers
<1>1. CASE NothingMoves \/ PadLooks \/ BoxGoes
  BY <1>1, FreshFewer DEF NothingMoves, PadLooks, BoxGoes
<1>2. CASE PanelStep
  <2>1. CASE Opened
    <3>1. calls' = calls /\ panel'.no = panel.no + 1 /\ \A c \in calls : c.no <= panel.no => c.no # panel'.no
      BY <1>0, <1>2, <2>1, ComposeFields DEF PanelStep, Opened
    <3> QED BY <3>1 DEF Fresh, OneCall
  <2>2. CASE Edited \/ Shut
    BY <1>0, <1>2, <2>2, FreshFewer DEF PanelStep, Edited, Shut
  <2> QED BY <1>2, <2>1, <2>2 DEF PanelStep, Looks
<1>3. CASE PanelCalls
  <2>1. ASSUME NEW e, Saves(e) PROVE Fresh'
    BY <1>0, <2>1, FreshMore DEF Saves
  <2>2. ASSUME NEW e, Wants(e), e.kind \in {"delete", "prefill"} PROVE Fresh'
    BY <2>2, FreshMore DEF Wants
  <2>3. ASSUME NEW e, NEW k, Sends(e, k) PROVE Fresh'
    BY <2>3, FreshMore DEF Sends, Clicked
  <2>4. ASSUME NEW e, NEW k, Posts(e, k) PROVE Fresh'
    BY <2>4, FreshMore DEF Posts, Clicked
  <2> QED BY <1>3, <2>1, <2>2, <2>3, <2>4 DEF PanelCalls, Fetches
<1>4. ASSUME NEW c \in calls, CallMoves(c) PROVE Fresh'
  <2>1. CASE Hears(c)
    <3>1. calls' = calls \ {c} /\ panel'.no = panel.no
      BY <2>1 DEF Hears
    <3>2. CASE panel'.draft = panel.draft /\ timer'.draft \in {None, timer.draft}
      BY <3>1, <3>2, FreshFewer
    <3>3. CASE c.kind = "create" /\ c.ok /\ c.no = panel.no /\ panel'.draft = c.draft /\ timer' = timer
      <4>1. c.draft # None
        BY <3>3 DEF ComposeWell, CallsWell, CallWell
      <4>2. ASSUME NEW p \in calls', p.kind = "create", p.draft # None, p.no = panel'.no
            PROVE  /\ panel'.draft # p.draft /\ timer'.draft # p.draft
                   /\ \A k \in calls' : k.click > 0 => k.draft # p.draft
                   /\ \A q \in calls' : q.kind = "create" /\ q.draft = p.draft => q = p
        BY <3>1, <3>3, <4>1, <4>2 DEF Fresh
      <4> QED BY <4>2 DEF Fresh
    <3> QED BY <1>0, <2>1, <3>2, <3>3 DEF Hears
  <2>2. CASE PadHears(c)
    BY <2>2, FreshFewer DEF PadHears
  <2>3. CASE Writes(c)
    <3>1. CASE calls' = calls \ {c}
      BY <2>3, <3>1, FreshFewer DEF Writes
    <3>2. ASSUME NEW e, NEW ok, Goes(c, e, "down", ok) PROVE Fresh'
      BY <2>3, <3>2, FreshMoves DEF Writes, Goes
    <3> QED BY <2>3, <3>1, <3>2 DEF Writes
  <2>4. ASSUME NEW e, GoesOn(c, e) \/ Reads(c, e) PROVE Fresh'
    <3>1. /\ calls' = (calls \ {c}) \cup {e} /\ e.draft = c.draft /\ e.click = c.click /\ e.no = c.no
          /\ e.kind # "create" /\ c.kind # "create" /\ UNCHANGED <<panel, timer>>
      BY <2>4 DEF GoesOn, Reads
    <3> QED BY <3>1, FreshMoves
  <2>5. ASSUME NEW e, Makes(c, e) PROVE Fresh'
    <3>1. made \in Nat /\ made + 1 \notin 1 .. made /\ None # made + 1
      BY <2>5, ComposeFields, ComposeConstants
    <3>2. Known(panel.draft, made) /\ Known(timer.draft, made) /\ \A k \in calls : Known(k.draft, made)
      BY DEF ComposeWell, PanelWell, CallsWell, CallWell
    <3>3. panel.draft # e.draft /\ timer.draft # e.draft /\ \A k \in calls : k.draft # e.draft
      BY <2>5, <3>1, <3>2 DEF Known, Makes
    <3>4. e.click = 0
      BY <2>5, CallNumbers DEF Makes, IsSending
    <3>5. calls' = (calls \ {c}) \cup {e} /\ UNCHANGED <<panel, timer>>
      BY <2>5 DEF Makes
    <3> QED BY <3>3, <3>4, <3>5 DEF Fresh
  <2>6. ASSUME NEW e, NEW x, Takes(c, e, x) PROVE Fresh'
    BY <2>6, FreshMoves DEF Takes, Goes
  <2>7. ASSUME NEW e, NEW ok, Answers(c, e, ok) PROVE Fresh'
    BY <2>7, FreshMoves DEF Answers, Goes
  <2> QED BY <1>4, <2>1, <2>2, <2>3, <2>4, <2>5, <2>6, <2>7 DEF CallMoves
<1> QED BY <1>1, <1>2, <1>3, <1>4 DEF ComposeStep
-----------------------------------------------------------------------------
(* A draft that is being sent is in no other panel, unless it was reopened. *)

\* Only the panel that sends the draft has it, and only call c sends it.
OnlyHere(c) ==
  /\ panel.open /\ panel.draft = c.draft => panel.no = c.no
  /\ \A e \in calls : IsSending(e) /\ e.draft = c.draft => e = c

Apart == reopened \/ \A c \in calls : IsSending(c) /\ c.draft # None => OnlyHere(c)

LEMMA ApartFewer ==
  ASSUME Apart, reopened => reopened', calls' \subseteq calls, panel'.no = panel.no,
         panel'.open => panel.open /\ panel'.draft = panel.draft
  PROVE  Apart'
BY DEF Apart, OnlyHere, IsSending

LEMMA ApartMore ==
  ASSUME Apart, reopened => reopened', NEW e, calls' = calls \cup {e}, ~IsSending(e), panel' = panel
  PROVE  Apart'
BY DEF Apart, OnlyHere, IsSending

LEMMA ApartMoves ==
  ASSUME Apart, reopened => reopened', NEW c \in calls, NEW e, calls' = (calls \ {c}) \cup {e}, e.no = c.no,
         IsSending(e) <=> IsSending(c), IsSending(c) => e.draft = c.draft, panel' = panel
  PROVE  Apart'
BY DEF Apart, OnlyHere, IsSending

LEMMA ApartStep ==
  ASSUME ComposeWell, OneCall, Fresh, Apart, ComposeStep
  PROVE  Apart'
<1>0. (reopened => reopened') /\ \A c \in calls : IsSending(c) => c.click > 0
  BY GoesOnward, CallNumbers DEF Onward
<1>1. CASE NothingMoves \/ PadLooks \/ BoxGoes
  BY <1>0, <1>1, ApartFewer DEF NothingMoves, PadLooks, BoxGoes
<1>2. CASE PanelStep
  <2>1. CASE Opened
    <3>1. calls' = calls /\ (panel'.draft # None /\ ~reopened' => \A c \in calls : c.click > 0 => c.draft # panel'.draft)
      BY <1>2, <2>1 DEF PanelStep, Opened
    <3>2. SUFFICES ASSUME ~reopened', NEW c \in calls, IsSending(c), c.draft # None
                   PROVE  OnlyHere(c)'
      BY <3>1 DEF Apart, IsSending
    <3>3. panel'.draft # c.draft
      BY <1>0, <3>1, <3>2
    <3> QED BY <1>0, <3>1, <3>2, <3>3 DEF Apart, OnlyHere, IsSending
  <2>2. CASE Edited \/ Shut
    BY <1>0, <1>2, <2>2, ApartFewer DEF PanelStep, Edited, Shut
  <2> QED BY <1>2, <2>1, <2>2 DEF PanelStep, Looks
<1>3. CASE PanelCalls
  <2>1. ASSUME NEW e, Saves(e) PROVE Apart'
    BY <1>0, <2>1, ApartMore DEF Saves, IsSending
  <2>2. ASSUME NEW e, Wants(e), e.kind \in {"delete", "prefill"} PROVE Apart'
    BY <1>0, <2>2, ApartMore DEF Wants, IsSending
  <2>3. ASSUME NEW e, NEW k, Posts(e, k) PROVE Apart'
    BY <1>0, <2>3, ApartMore DEF Posts, Clicked, IsSending
  <2>4. ASSUME NEW e, NEW k, Sends(e, k) PROVE Apart'
    <3>1. /\ panel.open /\ ~panel.busy /\ panel'.open /\ panel'.no = panel.no /\ panel'.draft = panel.draft
          /\ calls' = calls \cup {e} /\ e.no = panel.no /\ e.draft = panel.draft
      BY <2>4 DEF Sends, Clicked
    <3>2. SUFFICES ASSUME ~reopened', NEW c \in calls', IsSending(c), c.draft # None
                   PROVE  OnlyHere(c)'
      BY DEF Apart, IsSending
    <3>3. ~reopened
      BY <1>0, <3>2
    <3>4. \A k2 \in calls : IsSending(k2) /\ k2.draft # None => k2.draft # panel.draft /\ OnlyHere(k2)
      BY <3>1, <3>3 DEF Apart, OnlyHere, OneCall
    <3>5. CASE c = e
      BY <3>1, <3>2, <3>4, <3>5 DEF OnlyHere, IsSending
    <3>6. CASE c \in calls /\ c # e
      BY <3>1, <3>2, <3>4, <3>6 DEF OnlyHere, IsSending
    <3> QED BY <3>1, <3>5, <3>6
  <2> QED BY <1>3, <2>1, <2>2, <2>3, <2>4 DEF PanelCalls, Fetches
<1>4. ASSUME NEW c \in calls, CallMoves(c) PROVE Apart'
  <2>1. CASE Hears(c)
    <3>1. calls' = calls \ {c} /\ panel'.no = panel.no
      BY <2>1 DEF Hears
    <3>2. CASE panel'.open => panel.open /\ panel'.draft = panel.draft
      BY <1>0, <3>1, <3>2, ApartFewer
    <3>3. CASE c.kind = "create" /\ c.ok /\ c.no = panel.no /\ panel'.draft = c.draft
      <4>1. c.draft # None
        BY <3>3 DEF ComposeWell, CallsWell, CallWell
      <4>2. \A k \in calls : IsSending(k) => k.draft # c.draft
        BY <1>0, <3>3, <4>1 DEF Fresh
      <4> QED BY <1>0, <3>1, <3>3, <4>2 DEF Apart, OnlyHere, IsSending
    <3> QED BY <2>1, <3>2, <3>3 DEF Hears
  <2>2. CASE PadHears(c)
    BY <1>0, <2>2, ApartFewer DEF PadHears
  <2>3. CASE Writes(c)
    <3>1. CASE calls' = calls \ {c}
      BY <1>0, <2>3, <3>1, ApartFewer DEF Writes
    <3>2. ASSUME NEW e, NEW ok, Goes(c, e, "down", ok) PROVE Apart'
      BY <1>0, <2>3, <3>2, ApartMoves DEF Writes, Goes, IsSending
    <3> QED BY <2>3, <3>1, <3>2 DEF Writes
  <2>4. ASSUME NEW e, GoesOn(c, e) PROVE Apart'
    BY <1>0, <2>4, ApartMoves DEF GoesOn, IsSending
  <2>5. ASSUME NEW e, Reads(c, e) PROVE Apart'
    BY <1>0, <2>5, ApartMoves DEF Reads, IsSending
  <2>6. ASSUME NEW e, Makes(c, e) PROVE Apart'
    BY <1>0, <2>6, ApartMoves DEF Makes, IsSending
  <2>7. ASSUME NEW e, NEW x, Takes(c, e, x) PROVE Apart'
    BY <1>0, <2>7, ApartMoves DEF Takes, Goes, IsSending
  <2>8. ASSUME NEW e, NEW ok, Answers(c, e, ok) PROVE Apart'
    BY <1>0, <2>8, ApartMoves DEF Answers, Goes, IsSending
  <2> QED BY <1>4, <2>1, <2>2, <2>3, <2>4, <2>5, <2>6, <2>7, <2>8 DEF CallMoves
<1> QED BY <1>1, <1>2, <1>3, <1>4 DEF ComposeStep
-----------------------------------------------------------------------------
(* The text of a message.                                                  *)

\* What is written or still will be written to the draft of call c, and what c carries, is t.
CalmText(c, t, ds, cs, tm) ==
  /\ c.kind = "final" => c.text = t
  /\ c.at \in {"relay", "taken"} => c.text = t
  /\ c.kind = "send" \/ (c.at = "down" /\ c.ok) => (ds[c.draft] # None => ds[c.draft].text = t)
  /\ \A p \in cs : p.kind = "patch" /\ p.draft = c.draft => p.text = t
  /\ tm # NoTimer /\ tm.draft = c.draft => tm.text = t

CalmTexts ==
  reopened \/ \A c \in calls : IsSending(c) /\ c.draft # None /\ clicks[c.click].calm =>
                                 CalmText(c, clicks[c.click].text, drafts, calls, timer)

\* Without a draft the call carries the text.
PlainTexts == \A c \in calls : c.click > 0 /\ c.draft = None => c.text = clicks[c.click].text

LEMMA PlainTextsStep ==
  ASSUME ComposeWell, PlainTexts, ComposeStep
  PROVE  PlainTexts'
<1>0. /\ Onward /\ \A c \in calls : c.click > 0 => c.click \in 1 .. Len(clicks)
  BY GoesOnward, CallNumbers
<1>1. \A c \in calls : c.click > 0 => clicks'[c.click] = clicks[c.click]
  BY <1>0 DEF Onward
<1>2. ASSUME calls' \subseteq calls PROVE PlainTexts'
  BY <1>1, <1>2 DEF PlainTexts
<1>3. ASSUME NEW e, calls' = calls \cup {e}, e.click > 0 => e.text = clicks'[e.click].text PROVE PlainTexts'
  BY <1>1, <1>3 DEF PlainTexts
<1>4. ASSUME NEW c \in calls, NEW e, calls' = (calls \ {c}) \cup {e}, e.click = c.click,
             e.click > 0 => e.draft = c.draft /\ (c.draft = None => e.text = c.text)
      PROVE  PlainTexts'
  BY <1>1, <1>4 DEF PlainTexts
<1>5. CASE NothingMoves \/ PanelStep \/ PadLooks \/ BoxGoes
  BY <1>2, <1>5 DEF NothingMoves, PanelStep, PadLooks, BoxGoes
<1>6. CASE PanelCalls
  <2>1. ASSUME NEW e, NEW k, Clicked(e, k), e.text = k.text PROVE PlainTexts'
    BY <1>3, <2>1 DEF Clicked
  <2>2. ASSUME NEW e, Saves(e) \/ Wants(e) PROVE PlainTexts'
    BY <1>3, <2>2 DEF Saves, Wants
  <2> QED BY <1>6, <2>1, <2>2 DEF PanelCalls, Fetches, Sends, Posts
<1>7. ASSUME NEW c \in calls, CallMoves(c) PROVE PlainTexts'
  <2>1. CASE Hears(c) \/ PadHears(c)
    BY <1>2, <2>1 DEF Hears, PadHears
  <2>2. CASE Writes(c)
    BY <1>2, <1>4, <2>2 DEF Writes, Goes
  <2>3. ASSUME NEW e, GoesOn(c, e) \/ Reads(c, e) PROVE PlainTexts'
    BY <1>4, <2>3 DEF GoesOn, Reads
  <2>4. ASSUME NEW e, Makes(c, e) PROVE PlainTexts'
    <3>1. c.click = 0
      BY <2>4, CallNumbers DEF Makes, IsSending
    <3> QED BY <1>4, <2>4, <3>1 DEF Makes
  <2>5. ASSUME NEW e, NEW x, Takes(c, e, x) PROVE PlainTexts'
    BY <1>4, <2>5 DEF Takes, Goes
  <2>6. ASSUME NEW e, NEW ok, Answers(c, e, ok) PROVE PlainTexts'
    BY <1>4, <2>6 DEF Answers, Goes
  <2> QED BY <1>7, <2>1, <2>2, <2>3, <2>4, <2>5, <2>6 DEF CallMoves
<1> QED BY <1>5, <1>6, <1>7 DEF ComposeStep

\* A draft is written or deleted only by a call for it, or goes with its mailbox.
RowsKeepText == \A d \in 1 .. made : drafts'[d] # None => drafts[d] # None /\ drafts'[d] = drafts[d]

\* The calls that are there stay; the new ones are none that write or send a draft.
LEMMA CalmTextsStay ==
  ASSUME ComposeWell, CalmTexts, Onward, RowsKeepText, timer' \in {timer, NoTimer},
         \A e \in calls' : e \in calls \/ (~IsSending(e) /\ (e.kind = "patch" => timer # NoTimer /\ e.draft = timer.draft /\ e.text = timer.text))
  PROVE  CalmTexts'
<1>1. SUFFICES ASSUME ~reopened', NEW c \in calls', IsSending(c), c.draft # None, clicks'[c.click].calm
               PROVE  CalmText(c, clicks'[c.click].text, drafts', calls', timer')
  BY DEF CalmTexts, IsSending
<1>2. c \in calls /\ ~reopened
  BY <1>1 DEF Onward
<1>3. c.click \in 1 .. Len(clicks) /\ c.draft \in 1 .. made
  BY <1>1, <1>2, CallNumbers DEF ComposeWell, CallsWell, CallWell, Known
<1>4. clicks'[c.click] = clicks[c.click]
  BY <1>3 DEF Onward
<1>5. CalmText(c, clicks[c.click].text, drafts, calls, timer)
  BY <1>1, <1>2, <1>4 DEF CalmTexts
<1>6. drafts'[c.draft] # None => drafts[c.draft] # None /\ drafts'[c.draft] = drafts[c.draft]
  BY <1>3 DEF RowsKeepText
<1>7. \A p \in calls' : p.kind = "patch" /\ p.draft = c.draft => p.text = clicks[c.click].text
  BY <1>5 DEF CalmText
<1> QED BY <1>4, <1>5, <1>6, <1>7 DEF CalmText

\* A call goes on, without a change of what it carries, but for what it reads of its draft.
LEMMA CalmTextsMoves ==
  ASSUME ComposeWell, CalmTexts, Onward, RowsKeepText, NEW c \in calls, NEW e, calls' = (calls \ {c}) \cup {e},
         e.click = c.click, IsSending(e) <=> IsSending(c), e.kind = "patch" => c.kind = "patch",
         e.kind \in {"patch", "final", "send"} => e.draft = c.draft,
         \/ e.text = c.text
         \/ c.kind = "send" /\ e.kind = "send" /\ (c.draft # None => drafts[c.draft] # None /\ e.text = drafts[c.draft].text),
         e.kind = "final" => c.kind = "final" /\ ~e.ok,
         e.kind = "send" => c.kind = "send" \/ (c.at = "down" /\ c.ok),
         e.at \in {"relay", "taken"} =>
           \/ c.at = "relay" /\ e.text = c.text
           \/ c.draft # None => c.kind = "send" /\ drafts[c.draft] # None /\ e.text = drafts[c.draft].text,
         timer' = timer
  PROVE  CalmTexts'
<1>1. SUFFICES ASSUME ~reopened', NEW k \in calls', IsSending(k), k.draft # None, clicks'[k.click].calm
               PROVE  CalmText(k, clicks'[k.click].text, drafts', calls', timer')
  BY DEF CalmTexts, IsSending
<1>2. ~reopened
  BY <1>1 DEF Onward
<1>3. ASSUME NEW x \in calls, IsSending(x), x.draft # None, clicks'[x.click].calm
      PROVE  /\ clicks'[x.click] = clicks[x.click] /\ CalmText(x, clicks[x.click].text, drafts, calls, timer)
             /\ drafts'[x.draft] # None => drafts[x.draft] # None /\ drafts'[x.draft] = drafts[x.draft]
  <2>1. x.click \in 1 .. Len(clicks) /\ x.draft \in 1 .. made
    BY <1>3, CallNumbers DEF ComposeWell, CallsWell, CallWell, Known
  <2>2. clicks'[x.click] = clicks[x.click]
    BY <2>1 DEF Onward
  <2> QED BY <1>2, <1>3, <2>1, <2>2 DEF CalmTexts, RowsKeepText
<1>4. \A p \in calls' : p.kind = "patch" => \E q \in calls : q.kind = "patch" /\ q.draft = p.draft /\ q.text = p.text
  OBVIOUS
<1>5. CASE k \in calls
  <2>1. /\ clicks'[k.click] = clicks[k.click] /\ CalmText(k, clicks[k.click].text, drafts, calls, timer)
        /\ drafts'[k.draft] # None => drafts[k.draft] # None /\ drafts'[k.draft] = drafts[k.draft]
    BY <1>1, <1>3, <1>5
  <2>2. \A p \in calls' : p.kind = "patch" /\ p.draft = k.draft => p.text = clicks[k.click].text
    BY <1>4, <2>1 DEF CalmText
  <2> QED BY <2>1, <2>2 DEF CalmText
<1>6. CASE k = e
  <2>1. IsSending(c) /\ e.draft = c.draft /\ c.draft # None /\ clicks'[c.click].calm
    BY <1>1, <1>6 DEF IsSending
  <2>2. /\ clicks'[c.click] = clicks[c.click] /\ CalmText(c, clicks[c.click].text, drafts, calls, timer)
        /\ drafts'[c.draft] # None => drafts[c.draft] # None /\ drafts'[c.draft] = drafts[c.draft]
    BY <1>3, <2>1
  <2>3. \A p \in calls' : p.kind = "patch" /\ p.draft = e.draft => p.text = clicks[c.click].text
    BY <1>4, <2>1, <2>2 DEF CalmText
  <2> DEFINE t == clicks[c.click].text
  <2>4. e.kind = "final" => e.text = t
    BY <2>2 DEF CalmText
  <2>5. c.kind = "send" /\ drafts[c.draft] # None => drafts[c.draft].text = t
    BY <2>2 DEF CalmText
  <2>6. e.at \in {"relay", "taken"} => e.text = t
    BY <2>1, <2>2, <2>5 DEF CalmText
  <2>7. e.kind = "send" \/ (e.at = "down" /\ e.ok) => (drafts'[e.draft] # None => drafts'[e.draft].text = t)
    BY <1>1, <1>6, <2>1, <2>2 DEF CalmText, IsSending
  <2>8. timer' # NoTimer /\ timer'.draft = e.draft => timer'.text = t
    BY <2>1, <2>2 DEF CalmText
  <2>9. clicks'[e.click].text = t
    BY <2>2
  <2> HIDE DEF t
  <2> QED BY <1>6, <2>3, <2>4, <2>6, <2>7, <2>8, <2>9 DEF CalmText, t
<1> QED BY <1>1, <1>5, <1>6
LEMMA RowsTextKept ==
  ASSUME ComposeWell, UNCHANGED drafts \/ RowsGo \/ \E c, e : Makes(c, e)
  PROVE  RowsKeepText
<1>0. \A d \in 1 .. made : d \in DraftIds /\ d # made + 1
  BY ComposeFields
<1>1. CASE UNCHANGED drafts \/ RowsGo
  BY <1>0, <1>1 DEF RowsGo, RowsKeepText
<1>2. ASSUME NEW c, NEW e, Makes(c, e) PROVE RowsKeepText
  BY <1>0, <1>2 DEF Makes, RowsKeepText
<1> QED BY <1>1, <1>2

\* An edit sets no timer for a draft that is being sent.
LEMMA CalmTextsEdited ==
  ASSUME ComposeWell, OneCall, Apart, CalmTexts, Onward, PanelStep, Edited
  PROVE  CalmTexts'
<1>1. /\ panel.open /\ (panel.busy => timer' = NoTimer) /\ timer'.draft \in {None, panel.draft}
      /\ UNCHANGED <<drafts, calls, clicks, reopened>>
  BY DEF PanelStep, Edited
<1>2. SUFFICES ASSUME ~reopened, NEW c \in calls, IsSending(c), c.draft # None, clicks[c.click].calm
               PROVE  CalmText(c, clicks[c.click].text, drafts, calls, timer')
  BY <1>1 DEF CalmTexts
<1>3. CalmText(c, clicks[c.click].text, drafts, calls, timer)
  BY <1>2 DEF CalmTexts
<1>4. ASSUME timer'.draft = c.draft PROVE timer' = NoTimer
  <2>1. panel.draft = c.draft
    BY <1>1, <1>2, <1>4
  <2>2. panel.no = c.no
    BY <1>1, <1>2, <2>1 DEF Apart, OnlyHere
  <2> QED BY <1>1, <1>2, <2>2 DEF OneCall
<1> QED BY <1>3, <1>4 DEF CalmText

\* What the panel shows at a calm click is all that will be written.
LEMMA CalmTextsSends ==
  ASSUME ComposeWell, CalmTexts, Onward, NEW e, NEW k, Sends(e, k)
  PROVE  CalmTexts'
<1>1. /\ calls' = calls \cup {e} /\ e.click = Len(clicks) + 1 /\ clicks'[e.click] = k /\ e.at = "up"
      /\ UNCHANGED <<drafts, timer, reopened>> /\ e.draft = panel.draft /\ e.text = panel.text /\ k.text = panel.text
      /\ (k.calm => Calm(panel.draft)) /\ e.kind = IF panel.draft = None THEN "send" ELSE "final"
  BY DEF Sends, Clicked
<1>2. SUFFICES ASSUME ~reopened, NEW c \in calls', IsSending(c), c.draft # None, clicks'[c.click].calm
               PROVE  CalmText(c, clicks'[c.click].text, drafts, calls', timer)
  BY <1>1 DEF CalmTexts, IsSending
<1>3. \A p \in calls' : p.kind = "patch" => p \in calls
  BY <1>1
<1>4. CASE c = e
  <2>1. \A p \in calls' : p.kind = "patch" => p.draft # e.draft
    BY <1>1, <1>2, <1>3, <1>4 DEF Calm
  <2>2. timer # NoTimer => timer.text = panel.text
    BY DEF ComposeWell, PanelWell
  <2> QED BY <1>1, <1>2, <1>4, <2>1, <2>2 DEF CalmText
<1>5. CASE c \in calls
  <2>1. clicks'[c.click] = clicks[c.click]
    BY <1>2, <1>5, CallNumbers DEF Onward
  <2>2. CalmText(c, clicks[c.click].text, drafts, calls, timer)
    BY <1>2, <1>5, <2>1 DEF CalmTexts
  <2> QED BY <1>3, <2>1, <2>2 DEF CalmText
<1> QED BY <1>1, <1>4, <1>5

\* What is written to the draft of a calm click is what was shown.
LEMMA CalmTextsWrites ==
  ASSUME ComposeWell, Apart, CalmTexts, NEW c \in calls, Writes(c)
  PROVE  CalmTexts'
<1>1. /\ c.kind \in {"patch", "final"} /\ c.draft \in DraftIds /\ c.draft # None /\ UNCHANGED <<timer, clicks, reopened>>
      /\ \A d \in DraftIds : drafts'[d] = IF d = c.draft /\ drafts[d] # None THEN [box |-> drafts[d].box, text |-> c.text] ELSE drafts[d]
  BY ComposeConstants DEF Writes
<1>2. \A x \in calls' : \/ x \in calls /\ (c.kind = "final" => x # c)
                        \/ c.kind = "final" /\ x.kind = "final" /\ x.click = c.click /\ x.draft = c.draft /\ x.text = c.text
                           /\ x.at = "down"
  BY DEF Writes, Goes
<1>3. SUFFICES ASSUME ~reopened, NEW x \in calls', IsSending(x), x.draft # None, clicks[x.click].calm
               PROVE  CalmText(x, clicks[x.click].text, drafts', calls', timer)
  BY <1>1 DEF CalmTexts, IsSending
<1> DEFINE t == clicks[x.click].text
<1>4. PICK y \in calls : /\ IsSending(y) /\ y.click = x.click /\ y.draft = x.draft /\ y.kind = x.kind /\ y.text = x.text
                         /\ (x = y /\ (c.kind = "final" => x # c)) \/ (y = c /\ c.kind = "final" /\ x.at = "down")
  BY <1>2, <1>3 DEF IsSending
<1>5. CalmText(y, t, drafts, calls, timer)
  BY <1>3, <1>4 DEF CalmTexts
<1>6. \A p \in calls' : p.kind = "patch" => p \in calls
  BY <1>2
<1>7. x.draft \in DraftIds
  BY <1>3, <1>4 DEF ComposeWell, CallsWell, CallWell, CallType
<1>8. x.kind = "send" \/ (x.at = "down" /\ x.ok) => (drafts'[x.draft] # None => drafts'[x.draft].text = t)
  <2>1. CASE x.draft = c.draft
    <3>1. c.text = t
      <4>1. CASE c.kind = "patch"
        BY <1>5, <1>4, <2>1, <4>1 DEF CalmText
      <4>2. CASE c.kind = "final"
        <5>1. y = c
          BY <1>1, <1>3, <1>4, <2>1, <4>2 DEF Apart, OnlyHere, IsSending
        <5> QED BY <1>5, <4>2, <5>1 DEF CalmText
      <4> QED BY <1>1, <4>1, <4>2
    <3>2. drafts[x.draft] # None => drafts'[x.draft] = [box |-> drafts[x.draft].box, text |-> c.text]
      BY <1>1, <1>7, <2>1
    <3>3. drafts[x.draft] = None => drafts'[x.draft] = None
      BY <1>1, <1>7, <2>1
    <3> HIDE DEF t
    <3> QED BY <3>1, <3>2, <3>3
  <2>2. CASE x.draft # c.draft
    <3>1. drafts'[x.draft] = drafts[x.draft]
      BY <1>1, <1>7, <2>2
    <3>2. x = y
      BY <1>4, <2>2
    <3> QED BY <1>5, <3>1, <3>2 DEF CalmText
  <2> QED BY <2>1, <2>2
<1>9. /\ x.kind = "final" => x.text = t
      /\ x.at \in {"relay", "taken"} => x.text = t
      /\ timer # NoTimer /\ timer.draft = x.draft => timer.text = t
  BY <1>4, <1>5 DEF CalmText
<1>10. \A p \in calls' : p.kind = "patch" /\ p.draft = x.draft => p.text = t
  BY <1>4, <1>5, <1>6 DEF CalmText
<1> HIDE DEF t
<1> QED BY <1>8, <1>9, <1>10 DEF CalmText, t

LEMMA CalmTextsStep ==
  ASSUME ComposeWell, OneCall, Apart, CalmTexts, ComposeStep
  PROVE  CalmTexts'
<1>0. Onward
  BY GoesOnward
<1>1. ASSUME NothingMoves \/ PadLooks \/ BoxGoes PROVE CalmTexts'
  <2>1. RowsKeepText /\ timer' = timer /\ calls' = calls
    BY <1>1, RowsTextKept DEF NothingMoves, PadLooks, BoxGoes
  <2> QED BY <1>0, <2>1, CalmTextsStay
<1>2. CASE PanelStep
  <2>1. CASE Edited
    BY <1>0, <1>2, <2>1, CalmTextsEdited
  <2>2. CASE Opened \/ Shut
    <3>1. RowsKeepText /\ timer' = NoTimer /\ calls' = calls
      BY <1>2, <2>2, RowsTextKept DEF PanelStep, Opened, Shut
    <3> QED BY <1>0, <3>1, CalmTextsStay
  <2> QED BY <1>2, <2>1, <2>2 DEF PanelStep, Looks
<1>3. CASE PanelCalls
  <2>1. ASSUME NEW e, Saves(e) PROVE CalmTexts'
    <3>1. RowsKeepText /\ timer' = NoTimer /\ calls' = calls \cup {e} /\ ~IsSending(e)
          /\ (e.kind = "patch" => timer # NoTimer /\ e.draft = timer.draft /\ e.text = timer.text)
      BY <2>1, RowsTextKept DEF Saves, IsSending
    <3> QED BY <1>0, <3>1, CalmTextsStay
  <2>2. ASSUME NEW e, Wants(e), e.kind \in {"delete", "prefill"} PROVE CalmTexts'
    <3>1. RowsKeepText /\ timer' = timer /\ calls' = calls \cup {e} /\ ~IsSending(e) /\ e.kind # "patch"
      BY <2>2, RowsTextKept DEF Wants, IsSending
    <3> QED BY <1>0, <3>1, CalmTextsStay
  <2>3. ASSUME NEW e, NEW k, Posts(e, k) PROVE CalmTexts'
    <3>1. RowsKeepText /\ timer' = timer /\ calls' = calls \cup {e} /\ ~IsSending(e) /\ e.kind # "patch"
      BY <2>3, RowsTextKept DEF Posts, Clicked, IsSending
    <3> QED BY <1>0, <3>1, CalmTextsStay
  <2>4. ASSUME NEW e, NEW k, Sends(e, k) PROVE CalmTexts'
    BY <1>0, <2>4, CalmTextsSends
  <2> QED BY <1>3, <2>1, <2>2, <2>3, <2>4 DEF PanelCalls, Fetches
<1>4. ASSUME NEW c \in calls, CallMoves(c) PROVE CalmTexts'
  <2>1. CASE Hears(c) \/ PadHears(c)
    <3>1. RowsKeepText /\ timer' \in {timer, NoTimer} /\ calls' = calls \ {c}
      BY <2>1, RowsTextKept DEF Hears, PadHears
    <3> QED BY <1>0, <3>1, CalmTextsStay
  <2>2. CASE Writes(c)
    BY <2>2, CalmTextsWrites
  <2>3. ASSUME NEW e, GoesOn(c, e) PROVE CalmTexts'
    <3>1. RowsKeepText
      BY <2>3, RowsTextKept DEF GoesOn
    <3> QED BY <1>0, <2>3, <3>1, CalmTextsMoves DEF GoesOn, IsSending
  <2>4. ASSUME NEW e, Reads(c, e) PROVE CalmTexts'
    <3>1. RowsKeepText
      BY <2>4, RowsTextKept DEF Reads
    <3>2. c.kind = "post" => c.draft = None
      BY DEF ComposeWell, CallsWell, CallWell
    <3>3. /\ calls' = (calls \ {c}) \cup {e} /\ e.click = c.click /\ e.kind = c.kind /\ c.kind \in {"send", "post"} /\ e.draft = c.draft
          /\ (c.draft = None => e.text = c.text) /\ (c.draft # None => drafts[c.draft] # None /\ e.text = drafts[c.draft].text)
          /\ timer' = timer
      BY <2>4 DEF Reads
    <3>4. e.text = c.text \/ (c.kind = "send" /\ e.kind = "send" /\ (c.draft # None => drafts[c.draft] # None /\ e.text = drafts[c.draft].text))
      BY <3>2, <3>3
    <3>5. c.draft # None => c.kind = "send" /\ drafts[c.draft] # None /\ e.text = drafts[c.draft].text
      BY <3>2, <3>3
    <3> QED BY <1>0, <3>1, <3>3, <3>4, <3>5, CalmTextsMoves DEF IsSending
  <2>5. ASSUME NEW e, Makes(c, e) PROVE CalmTexts'
    <3>1. RowsKeepText
      BY <2>5, RowsTextKept
    <3>2. \A x \in calls' : x \in calls \/ (~IsSending(x) /\ x.kind # "patch")
      BY <2>5 DEF Makes, IsSending
    <3>3. timer' = timer
      BY <2>5 DEF Makes
    <3> QED BY <1>0, <3>1, <3>2, <3>3, CalmTextsStay
  <2>6. ASSUME NEW e, NEW x, Takes(c, e, x) PROVE CalmTexts'
    <3>1. RowsKeepText
      BY <2>6, RowsTextKept DEF Takes
    <3>2. c.kind \in {"send", "post"}
      BY <2>6 DEF Takes, ComposeWell, CallsWell, CallWell
    <3> QED BY <1>0, <2>6, <3>1, <3>2, CalmTextsMoves DEF Takes, Goes, IsSending
  <2>7. ASSUME NEW e, NEW ok, Answers(c, e, ok) PROVE CalmTexts'
    <3>1. RowsKeepText
      BY <2>7, RowsTextKept DEF Answers
    <3> QED BY <1>0, <2>7, <3>1, CalmTextsMoves DEF Answers, Goes, IsSending
  <2> QED BY <1>4, <2>1, <2>2, <2>3, <2>4, <2>5, <2>6, <2>7 DEF CallMoves
<1> QED BY <1>1, <1>2, <1>3, <1>4 DEF ComposeStep
-----------------------------------------------------------------------------
(* The theorems.                                                           *)

LEMMA ExactStep ==
  ASSUME ComposeWell, Sender, PlainTexts, CalmTexts, CalmSendIsExact, ComposeStep
  PROVE  CalmSendIsExact'
<1>0. Onward
  BY GoesOnward
<1>1. ASSUME NEW x \in mails
      PROVE  /\ clicks'[x.click].calm => x.text = clicks'[x.click].text \/ reopened'
             /\ clicks'[x.click].kept => x.from = clicks'[x.click].from
  <2>1. clicks'[x.click] = clicks[x.click] /\ (reopened => reopened')
    BY <1>0, MailClicks DEF Onward
  <2> QED BY <2>1 DEF CalmSendIsExact
<1>2. CASE mails' = mails
  BY <1>1, <1>2 DEF CalmSendIsExact
<1>3. ASSUME NEW c \in calls, NEW e, NEW y, Takes(c, e, y) PROVE CalmSendIsExact'
  <2>1. /\ c.at = "relay" /\ mails' = mails \cup {y} /\ y.click = c.click /\ y.from = c.from /\ y.text = c.text
        /\ UNCHANGED <<clicks, reopened>>
    BY <1>3 DEF Takes
  <2>2. /\ c.click > 0 /\ c.kind \in {"send", "post"} /\ (c.kind = "post" => c.draft = None)
    BY <2>1 DEF ComposeWell, CallsWell, CallWell
  <2>3. clicks[c.click].calm => c.text = clicks[c.click].text \/ reopened
    <3>1. CASE c.draft = None
      BY <2>2, <3>1 DEF PlainTexts
    <3>2. CASE c.draft # None
      BY <2>1, <2>2, <3>2 DEF CalmTexts, CalmText, IsSending
    <3> QED BY <3>1, <3>2
  <2>4. clicks[c.click].kept => c.from = clicks[c.click].from
    BY <2>1, <2>2 DEF Sender, SentFrom
  <2> QED BY <1>1, <2>1, <2>3, <2>4 DEF CalmSendIsExact
<1> QED BY <1>0, <1>2, <1>3 DEF Onward

\* What is said of a click is said when its call comes back.
LEMMA ToldStep ==
  ASSUME ComposeWell, ComposeStep
  PROVE  \/ told' = told
         \/ /\ UNCHANGED <<boxes, mails, broken>>
            /\ \E c \in calls : /\ c.at = "down" /\ c.click \in Clicks
                                /\ told' = [told EXCEPT ![c.click] = IF c.ok THEN "sent" ELSE "failed"]
<1>1. CASE NothingMoves \/ PanelStep \/ PadLooks \/ BoxGoes
  BY <1>1 DEF NothingMoves, PanelStep, PadLooks, BoxGoes
<1>2. CASE PanelCalls
  BY <1>2 DEF PanelCalls, Saves, Fetches, Wants, Sends, Posts, Clicked
<1>3. ASSUME NEW c \in calls, CallMoves(c)
      PROVE  \/ told' = told
             \/ /\ UNCHANGED <<boxes, mails, broken>> /\ c.at = "down" /\ c.click \in Clicks
                /\ told' = [told EXCEPT ![c.click] = IF c.ok THEN "sent" ELSE "failed"]
  <2>1. IsSending(c) \/ c.kind = "post" => c.click \in Clicks
    BY CallNumbers, ComposeFields
  <2>2. CASE Hears(c) \/ PadHears(c)
    BY <2>1, <2>2 DEF Hears, PadHears, IsSending
  <2>3. CASE Writes(c) \/ \E e : \/ GoesOn(c, e) \/ Makes(c, e) \/ Reads(c, e)
                                 \/ \E x : Takes(c, e, x)
                                 \/ \E ok : Answers(c, e, ok)
    BY <2>3 DEF Writes, GoesOn, Makes, Reads, Takes, Answers
  <2> QED BY <1>3, <2>2, <2>3 DEF CallMoves
<1> QED BY <1>1, <1>2, <1>3 DEF ComposeStep

LEMMA FailureStep ==
  ASSUME ComposeWell, Mailed, FailureIsTrue, ComposeStep
  PROVE  FailureIsTrue'
<1>0. Onward /\ told \in [Clicks -> {"nothing", "sent", "failed"}]
  BY GoesOnward DEF ComposeWell, PastWell
<1>1. CASE told' = told /\ mails' = mails
  BY <1>0, <1>1 DEF Onward, FailureIsTrue
<1>2. ASSUME NEW c \in calls, NEW e, NEW x, Takes(c, e, x) PROVE FailureIsTrue'
  <2>1. c.click > 0
    BY <1>2 DEF Takes, ComposeWell, CallsWell, CallWell
  <2>2. told[x.click] = "nothing" /\ mails' = mails \cup {x} /\ UNCHANGED <<told, boxes, broken>>
    BY <1>2, <2>1 DEF Takes, Mailed
  <2> QED BY <2>2 DEF FailureIsTrue
<1>3. ASSUME NEW c \in calls, c.at = "down", c.click \in Clicks, UNCHANGED <<boxes, mails, broken>>,
             told' = [told EXCEPT ![c.click] = IF c.ok THEN "sent" ELSE "failed"]
      PROVE  FailureIsTrue'
  <2>1. ASSUME NEW x \in mails, told'[x.click] = "failed", ~broken PROVE x.from \notin boxes
    <3>1. CASE x.click = c.click
      <4>1. ~c.ok
        BY <1>0, <1>3, <2>1, <3>1
      <4> QED BY <1>3, <2>1, <3>1, <4>1 DEF Mailed
    <3>2. CASE x.click # c.click
      <4>1. told'[x.click] = told[x.click]
        <5>1. x.click \in Clicks
          BY DEF ComposeWell, PastWell, MailType
        <5> QED BY <1>0, <1>3, <3>2, <5>1
      <4> QED BY <2>1, <4>1 DEF FailureIsTrue
    <3> QED BY <3>1, <3>2
  <2> QED BY <1>3, <2>1 DEF FailureIsTrue
<1>4. (told' = told /\ mails' = mails) \/ (\E c \in calls : \E e, x : Takes(c, e, x)) \/ told' # told
  BY <1>0 DEF Onward
<1> QED BY <1>1, <1>2, <1>3, <1>4, ToldStep

\* The inductive invariant.
ComposeInv ==
  /\ ComposeWell /\ OneCall /\ Mailed /\ PadFrom /\ Sender
  /\ Fresh /\ Apart /\ PlainTexts /\ CalmTexts /\ CalmSendIsExact /\ FailureIsTrue

\* In every state the rows, the panel, the screen and the calls are as their types say; one call
\* per click; the call, its draft and its timer agree with the click; what went out and what was
\* said of it are true.
THEOREM ComposeInvariant == Spec => []ComposeInv
<1>1. Init => ComposeInv
  <2> SUFFICES ASSUME Init PROVE ComposeInv
    OBVIOUS
  <2>1. /\ calls = {} /\ mails = {} /\ pad = NoPad /\ ComposeWell
        /\ \A k \in Clicks : told[k] = "nothing"
    BY ComposeWellInit DEF Init
  <2>2. OneCall /\ Mailed /\ PadFrom /\ Sender
    BY <2>1, ComposeRecords DEF OneCall, Mailed, PadFrom, Sender
  <2>3. Fresh /\ Apart /\ PlainTexts /\ CalmTexts /\ CalmSendIsExact /\ FailureIsTrue
    BY <2>1 DEF Fresh, Apart, PlainTexts, CalmTexts, CalmSendIsExact, FailureIsTrue
  <2> QED BY <2>1, <2>2, <2>3 DEF ComposeInv
<1>2. ComposeInv /\ [Next]_vars => ComposeInv'
  <2> SUFFICES ASSUME ComposeInv, [Next]_vars PROVE ComposeInv'
    OBVIOUS
  <2>1. ComposeWell' /\ ComposeStep
    BY ComposeSteps DEF ComposeInv
  <2>2. OneCall' /\ Mailed' /\ PadFrom' /\ Sender'
    BY <2>1, OneCallStep, MailedStep, PadFromStep, SenderStep DEF ComposeInv
  <2>3. Fresh' /\ Apart' /\ PlainTexts' /\ CalmTexts'
    BY <2>1, FreshStep, ApartStep, PlainTextsStep, CalmTextsStep DEF ComposeInv
  <2>4. CalmSendIsExact' /\ FailureIsTrue'
    BY <2>1, ExactStep, FailureStep DEF ComposeInv
  <2> QED BY <2>1, <2>2, <2>3, <2>4 DEF ComposeInv
<1> QED BY <1>1, <1>2, PTL DEF Spec

\* What goes out is what the panel showed at the click: the text when no autosave was under way, the
\* sender when From had not been changed after the draft was made (doSend).
THEOREM SendIsExact == Spec => []CalmSendIsExact
<1>1. ComposeInv => CalmSendIsExact
  BY DEF ComposeInv
<1> QED BY <1>1, ComposeInvariant, PTL

\* When the panel says that a send failed nothing was sent, unless something broke down or the
\* mailbox is gone (sendMessage).
THEOREM FailedIsNotSent == Spec => []FailureIsTrue
<1>1. ComposeInv => FailureIsTrue
  BY DEF ComposeInv
<1> QED BY <1>1, ComposeInvariant, PTL

\* The draft that a send deletes is never newer than what was sent (the panel does not save while it
\* sends).
THEOREM DropsNothingNewer == Spec => NothingNewerDropped
<1>1. ASSUME ComposeInv, [Next]_vars, NEW d \in DraftIds, drafts[d] # None, drafts'[d] = None
      PROVE  \/ reopened \/ drafts[d].box \notin boxes'
             \/ \E c \in calls : c.kind = "delete" /\ c.draft = d
             \/ \E x \in mails : x.draft = d /\ (clicks[x.click].calm => x.text >= drafts[d].text)
  <2>1. ComposeWell /\ drafts \in [DraftIds -> DraftRow \cup {None}] /\ drafts[d] \in DraftRow
    BY <1>1 DEF ComposeInv, ComposeWell, ServerWell
  <2>2. drafts' # drafts
    BY <1>1
  <2>3. ASSUME NEW b \in Boxes, DeleteMailbox(b) PROVE drafts[d].box \notin boxes'
    BY <1>1, <2>1, <2>3, DeleteMailboxDoes DEF BoxGoes
  <2>4. ASSUME NEW c \in calls, Delete(c) PROVE c.kind = "delete" /\ c.draft = d
    BY <1>1, <2>1, <2>4 DEF Delete
  <2>5. ASSUME NEW c \in calls, Create(c) PROVE FALSE
    <3>1. d \in 1 .. made /\ d # made + 1
      BY <1>1, <2>1, ComposeFields DEF ComposeWell, ServerWell
    <3> QED BY <1>1, <2>1, <2>5, <3>1 DEF Create
  <2>6. ASSUME NEW c \in calls, Patch(c) PROVE FALSE
    <3>1. Writes(c) /\ c.text \in Versions
      BY <2>1, <2>6, PatchDoes DEF ComposeWell, CallsWell, CallWell, CallType
    <3>2. CASE d = c.draft
      <4>1. drafts'[d] = [box |-> drafts[d].box, text |-> c.text] /\ drafts[d].box \in Boxes
        BY <1>1, <2>1, <3>1, <3>2 DEF Writes, DraftRow
      <4>2. drafts'[d] \in DraftRow
        BY <3>1, <4>1 DEF DraftRow
      <4> QED BY <1>1, <4>2, ComposeConstants
    <3>3. CASE d # c.draft
      BY <1>1, <3>1, <3>3 DEF Writes
    <3> QED BY <3>2, <3>3
  <2>7. ASSUME NEW c \in calls, File(c), ~reopened
        PROVE  \E x \in mails : x.draft = d /\ (clicks[x.click].calm => x.text >= drafts[d].text)
    <3>1. c.at = "taken" /\ c.draft = d
      BY <1>1, <2>1, <2>7, FileDoes
    <3>2. d # None
      BY ComposeConstants
    <3>3. IsSending(c) /\ c.kind = "send"
      BY <2>1, <3>1, <3>2 DEF ComposeWell, CallsWell, CallWell, IsSending
    <3>4. PICK x \in mails : x.click = c.click
      BY <1>1, <3>1 DEF ComposeInv, Mailed
    <3>5. x.draft = d /\ x.text = c.text
      BY <1>1, <3>1, <3>4 DEF ComposeInv, Mailed
    <3>6. clicks[c.click].calm => c.text = clicks[c.click].text /\ drafts[d].text = clicks[c.click].text
      BY <1>1, <2>7, <3>1, <3>2, <3>3 DEF ComposeInv, CalmTexts, CalmText
    <3>7. x.text \in Nat
      BY <2>1, ComposeConstants DEF ComposeWell, PastWell, MailType
    <3>8. clicks[x.click].calm => x.text >= drafts[d].text
      BY <3>4, <3>5, <3>6, <3>7
    <3> QED BY <3>5, <3>8
  <2>8. CASE Owner
    BY <2>2, <2>3, <2>8 DEF Owner, OpenNew, Edit, OpenDraft, Close, Discard, ClickSend, PadPicks, PadOpens, PadEdits, PadSends,
       PadLeaves, server
  <2>9. CASE Client
    BY <2>2, <2>9 DEF Client, ClosesItself, Autosave, Returns, PadReturns, Lost, server
  <2>10. CASE Server
    BY <2>2, <2>4, <2>5, <2>6, <2>7, <2>10 DEF Server, Prefill, Send, RelayTakes, RelayRefuses, server
  <2>11. ~UNCHANGED vars
    BY <2>2 DEF vars, server
  <2> QED BY <1>1, <2>8, <2>9, <2>10, <2>11 DEF Next
<1>2. ComposeInv /\ [Next]_vars =>
        [\A d \in DraftIds : (drafts[d] # None /\ drafts'[d] = None) =>
           \/ reopened \/ drafts[d].box \notin boxes'
           \/ \E c \in calls : c.kind = "delete" /\ c.draft = d
           \/ \E x \in mails : x.draft = d /\ (clicks[x.click].calm => x.text >= drafts[d].text)]_vars
  BY <1>1
<1> QED BY <1>2, ComposeInvariant, PTL DEF Spec, NothingNewerDropped
-----------------------------------------------------------------------------

TargetRow == [email : Emails, ok : BOOLEAN, token : {Nil} \cup Nat, row : Nat]
AliasRow == [shelf : Shelves, mode : Modes, target : {Nil} \cup TargetIds, abused : BOOLEAN]

Typed ==
  /\ targets \in [TargetIds -> TargetRow \cup {Nil}]
  /\ rows \in [RowIds -> AliasRow \cup {Nil}]
  /\ born \in 0 .. MaxLinks

\* A number is given to a row, and to a token, only once it has been counted.
Counted ==
  /\ \A t \in Live(targets) : t <= born /\ targets[t].token \in {Nil} \cup 1 .. born
  /\ \A l \in links : l.token \in 1 .. born

Linked ==
  \A l \in links, t \in Live(targets) :
    targets[t].token = l.token => targets[t].email = l.email /\ targets[t].row = l.row

Entitled(r) == r.email \in Logins \/ [email |-> r.email, row |-> r.row] \in confirmed
VerifiedEntitled == \A t \in Live(targets) : targets[t].ok => Entitled(targets[t])

Target(t) == t \in Live(targets) /\ targets[t].ok
Forwards(r) == r # Nil /\ r.mode = "forward" /\ r.target # Nil
Pointing == \A a \in RowIds : Forwards(rows[a]) => Target(rows[a].target)

BookOK == Typed /\ Counted /\ Linked /\ VerifiedEntitled /\ Pointing

\* A call of the panel is a record of Ask with what its operation needs.
CallOK(c) ==
  /\ c.op = "create" => c.shelf \in Shelves /\ c.mode \in Modes
  /\ c.op = "patch" => c.mode \in Modes \cup {Same}
  /\ c.op = "add" => c.email \in Emails
Fields == {"op", "at", "ok", "id", "shelf", "pick", "mode", "target", "email", "got"}
IsAsk(c) == Fields \subseteq DOMAIN c
PanelOK ==
  /\ {"shelf", "shown", "offered", "pick"} \subseteq DOMAIN manager /\ manager.shelf \in Shelves
  /\ \A c \in asks : IsAsk(c) /\ CallOK(c)

LEMMA ConstantsTyped ==
  /\ MaxLinks \in Nat /\ MaxAsked \in Nat /\ Nil \notin Nat /\ Logins \subseteq Emails
  /\ TargetIds \subseteq Nat /\ Nil \notin TargetRow
  BY AliasesConstantsOK DEF TargetIds, TargetRow

LEMMA LiveTargets ==
  ASSUME Typed
  PROVE  \A t : t \in Live(targets) <=> t \in TargetIds /\ targets[t] # Nil
  BY DEF Typed, Live
LEMMA LiveRows ==
  ASSUME Typed
  PROVE  \A a : a \in Live(rows) <=> a \in RowIds /\ rows[a] # Nil
  BY DEF Typed, Live
-----------------------------------------------------------------------------
(* The number of a new row.                                                *)

\* A non-empty set of numbers has a smallest one.
LEMMA Smallest ==
  ASSUME NEW S \in SUBSET Nat, S # {}
  PROVE  \E i \in S : \A j \in S : i <= j
<1>1. PICK i \in S : \A j \in S : ~(<<j, i>> \in OpToRel(<, Nat))
  BY NatLessThanWellFounded, WFMin
<1>2. \A j \in S : ~(j < i)
  BY <1>1 DEF OpToRel
<1> QED BY <1>2

\* SQLite finds a number for a new target, and no row has it.
LEMMA FreshId ==
  ASSUME Typed, Counted, born < MaxLinks
  PROVE  /\ NextId(targets) \in TargetIds /\ NextId(targets) \notin Live(targets)
         /\ NextId(targets) <= born + 1
<1> DEFINE Above == {i \in 1 .. born + 1 : \A j \in Live(targets) : j < i}
           Next1(i) == (\A j \in Live(targets) : j < i) /\ (i - 1) \in {0} \cup Live(targets)
<1>1. born \in Nat /\ MaxLinks \in Nat /\ \A j \in Live(targets) : j \in Nat /\ j <= born
  <2>1. born \in Nat /\ MaxLinks \in Nat
    BY ConstantsTyped DEF Typed
  <2>2. \A j \in Live(targets) : j \in TargetIds /\ j <= born
    BY LiveTargets DEF Counted
  <2> QED BY <2>1, <2>2, ConstantsTyped
<1>2. Above \in SUBSET Nat /\ born + 1 \in Above
  BY <1>1
<1>3. PICK i \in Above : \A j \in Above : i <= j
  BY <1>2, Smallest
<1>5. Next1(i)
  <2>1. \A j \in Live(targets) : j < i
    BY <1>3
  <2>2. CASE i = 1
    BY <2>1, <2>2
  <2>3. CASE i # 1
    <3>1. i - 1 \in 1 .. born + 1 /\ i - 1 \notin Above
      BY <1>1, <1>3, <2>3
    <3>2. PICK j \in Live(targets) : ~(j < i - 1)
      BY <3>1
    <3>3. j = i - 1
      BY <1>1, <1>3, <2>1, <3>2
    <3> QED BY <2>1, <3>2, <3>3
  <2> QED BY <2>2, <2>3
<1>6. i \in DOMAIN targets
  BY <1>1, <1>3 DEF Typed, TargetIds
<1>7. NextId(targets) \in DOMAIN targets /\ Next1(NextId(targets))
  BY <1>5, <1>6 DEF NextId
<1>8. NextId(targets) \in TargetIds
  BY <1>7 DEF Typed
<1>9. NextId(targets) \in Nat
  BY <1>8, ConstantsTyped
<1> QED BY <1>1, <1>7, <1>8, <1>9
-----------------------------------------------------------------------------
(* The routes.                                                             *)

\* A step that changes the aliases only, each of which still points where it may.
LEMMA RowsMove ==
  ASSUME BookOK, rows' \in [RowIds -> AliasRow \cup {Nil}],
         \A a \in RowIds : Forwards(rows'[a]) => Target(rows'[a].target),
         UNCHANGED <<targets, links, born, confirmed>>
  PROVE  BookOK'
<1>1. targets' = targets /\ links' = links /\ born' = born /\ confirmed' = confirmed
  OBVIOUS
<1>2. Typed' /\ Counted' /\ Linked' /\ VerifiedEntitled'
  BY <1>1 DEF BookOK, Typed, Counted, Linked, VerifiedEntitled, Entitled, Live
<1>3. Pointing'
  BY <1>1 DEF Pointing, Forwards, Target, Live
<1> QED BY <1>2, <1>3 DEF BookOK

\* checkForwardConfig refuses a target that is not there or not verified.
LEMMA ForwardOkTarget ==
  ASSUME Typed, NEW m \in Modes, NEW t, ForwardOk(m, t)
  PROVE  t \in {Nil} \cup TargetIds /\ (m = "forward" /\ t # Nil => Target(t))
  BY LiveTargets DEF ForwardOk, Target, Modes

LEMMA PostAliasKeeps ==
  ASSUME BookOK, NEW c, CallOK(c), NEW ok, PostAlias(c, ok), UNCHANGED confirmed
  PROVE  BookOK'
<1>1. Typed /\ c.shelf \in Shelves /\ c.mode \in Modes /\ Pointing
  BY DEF PostAlias, CallOK, BookOK
<1>2. CASE CanCreate(c.mode, c.target)
  <2> DEFINE new == [shelf |-> c.shelf, mode |-> c.mode, target |-> c.target, abused |-> FALSE]
  <2>1. c.target \in {Nil} \cup TargetIds /\ (c.mode = "forward" /\ c.target # Nil => Target(c.target))
    BY <1>1, <1>2, ForwardOkTarget DEF CanCreate
  <2>2. new \in AliasRow /\ new.mode = c.mode /\ new.target = c.target
    BY <1>1, <2>1 DEF AliasRow
  <2>3. rows' = [rows EXCEPT ![NextId(rows)] = new]
    BY <1>2 DEF PostAlias, Created
  <2> HIDE DEF new
  <2>4. rows' \in [RowIds -> AliasRow \cup {Nil}] /\ \A a \in RowIds : rows'[a] \in {rows[a], new}
    BY <1>1, <2>2, <2>3 DEF Typed
  <2>5. \A a \in RowIds : Forwards(rows'[a]) => Target(rows'[a].target)
    BY <1>1, <2>1, <2>2, <2>4 DEF Forwards, Pointing
  <2> QED BY <2>4, <2>5, RowsMove DEF PostAlias
<1>3. CASE ~CanCreate(c.mode, c.target)
  BY <1>1, <1>3, RowsMove DEF PostAlias, Pointing, Typed
<1> QED BY <1>2, <1>3

LEMMA PatchAliasKeeps ==
  ASSUME BookOK, NEW c, CallOK(c), NEW ok, PatchAlias(c, ok), UNCHANGED confirmed
  PROVE  BookOK'
<1>1. Typed /\ c.mode \in Modes \cup {Same} /\ Pointing
  BY DEF PatchAlias, CallOK, BookOK
<1>2. CASE CanPatch(c.id, c.mode, c.target)
  <2> DEFINE new == Patch2(c.id, c.mode, c.target)
  <2>1. c.id \in RowIds /\ rows[c.id] \in AliasRow /\ ForwardOk(new.mode, new.target)
    BY <1>1, <1>2, LiveRows DEF CanPatch, Typed
  <2>2. /\ new = [rows[c.id] EXCEPT !.mode = new.mode, !.target = new.target]
        /\ new.mode \in Modes
    BY <1>1, <2>1 DEF Patch2, AliasRow
  <2>3. new.target \in {Nil} \cup TargetIds /\ (new.mode = "forward" /\ new.target # Nil => Target(new.target))
    BY <1>1, <2>1, <2>2, ForwardOkTarget
  <2>4. rows' = [rows EXCEPT ![c.id] = new]
    BY <1>2 DEF PatchAlias, Patched
  <2> HIDE DEF new
  <2>5. new \in AliasRow
    BY <2>1, <2>2, <2>3 DEF AliasRow
  <2>6. rows' \in [RowIds -> AliasRow \cup {Nil}] /\ \A a \in RowIds : rows'[a] \in {rows[a], new}
    BY <1>1, <2>4, <2>5 DEF Typed
  <2>7. \A a \in RowIds : Forwards(rows'[a]) => Target(rows'[a].target)
    BY <1>1, <2>3, <2>6 DEF Forwards, Pointing
  <2> QED BY <2>6, <2>7, RowsMove DEF PatchAlias
<1>3. CASE ~CanPatch(c.id, c.mode, c.target)
  BY <1>1, <1>3, RowsMove DEF PatchAlias, Pointing, Typed
<1> QED BY <1>2, <1>3

LEMMA MarkAliasKeeps ==
  ASSUME BookOK, NEW c, NEW ok, AbuseAlias(c, ok) \/ DropAlias(c, ok), UNCHANGED confirmed
  PROVE  BookOK'
<1>1. Typed /\ Pointing
  BY DEF BookOK
<1>2. CASE AbuseAlias(c, ok)
  <2>1. CASE ok
    <3>1. c.id \in RowIds /\ rows[c.id] \in AliasRow /\ rows' = [rows EXCEPT ![c.id].abused = c.op = "abuse"]
      BY <1>1, <1>2, <2>1, LiveRows DEF AbuseAlias, Typed
    <3> DEFINE new == [rows[c.id] EXCEPT !.abused = c.op = "abuse"]
    <3>2. new \in AliasRow /\ new.mode = rows[c.id].mode /\ new.target = rows[c.id].target
      BY <3>1 DEF AliasRow
    <3>3. rows' = [rows EXCEPT ![c.id] = new]
      BY <3>1
    <3> HIDE DEF new
    <3>4. rows' \in [RowIds -> AliasRow \cup {Nil}] /\ rows[c.id] # Nil
      BY <1>1, <1>2, <2>1, <3>1, <3>2, <3>3, LiveRows DEF Typed, AbuseAlias
    <3>5. \A a \in RowIds : Forwards(rows'[a]) => Target(rows'[a].target)
      BY <1>1, <3>2, <3>3, <3>4 DEF Forwards, Pointing, Typed
    <3> QED BY <1>2, <3>4, <3>5, RowsMove DEF AbuseAlias
  <2>2. CASE ~ok
    BY <1>1, <1>2, <2>2, RowsMove DEF AbuseAlias, Pointing, Typed
  <2> QED BY <2>1, <2>2
<1>3. CASE DropAlias(c, ok)
  <2>1. rows' = [rows EXCEPT ![c.id] = Nil] \/ rows' = rows
    BY <1>3 DEF DropAlias
  <2>2. rows' \in [RowIds -> AliasRow \cup {Nil}] /\ \A a \in RowIds : rows'[a] \in {rows[a], Nil}
    BY <1>1, <2>1 DEF Typed
  <2>3. \A a \in RowIds : Forwards(rows'[a]) => Target(rows'[a].target)
    BY <1>1, <2>2 DEF Forwards, Pointing
  <2> QED BY <1>3, <2>2, <2>3, RowsMove DEF DropAlias
<1> QED BY <1>2, <1>3

\* A row that gets a new token, with a link for it or without: no other row has that token,
\* and no older link.
LEMMA TokenMove ==
  ASSUME BookOK, NEW t \in TargetIds, NEW r \in TargetRow, born < MaxLinks, born' = born + 1,
         targets' = [targets EXCEPT ![t] = r], t <= born + 1, r.token \in {Nil, born + 1},
         r.ok => r.email \in Logins, ~Target(t),
         \/ links' = links
         \/ links' = links \cup {[email |-> r.email, token |-> r.token, row |-> r.row]} /\ r.token # Nil,
         UNCHANGED <<rows, confirmed>>
  PROVE  BookOK'
<1>1. Typed /\ Counted /\ Linked /\ VerifiedEntitled /\ Pointing /\ born \in Nat /\ MaxLinks \in Nat
  BY ConstantsTyped DEF BookOK, Typed
<1>2. Typed'
  BY <1>1 DEF Typed
<1>3. \A u \in TargetIds : u # t => targets'[u] = targets[u]
  BY <1>1 DEF Typed
<1>4. targets'[t] = r
  BY <1>1 DEF Typed
<1>5. \A u \in TargetIds : u # t /\ targets'[u] # Nil => u \in Live(targets)
  BY <1>1, <1>3, LiveTargets
<1>6. \A l \in links' : l \in links \/ (l = [email |-> r.email, token |-> r.token, row |-> r.row] /\ r.token = born + 1)
  OBVIOUS
<1>7. Counted'
  <2>1. ASSUME NEW u \in TargetIds, targets'[u] # Nil
        PROVE  u <= born + 1 /\ targets'[u].token \in {Nil} \cup 1 .. born + 1
    <3>1. CASE u = t
      BY <1>1, <1>4, <3>1
    <3>2. CASE u # t
      <4>1. u \in Nat /\ u <= born /\ targets[u].token \in {Nil} \cup 1 .. born
        BY <1>1, <1>5, <2>1, <3>2, ConstantsTyped DEF Counted
      <4> QED BY <1>1, <1>3, <3>2, <4>1
    <3> QED BY <3>1, <3>2
  <2>2. ASSUME NEW l \in links' PROVE l.token \in 1 .. born + 1
    BY <1>1, <1>6, <2>2 DEF Counted
  <2> QED BY <1>2, <2>1, <2>2 DEF Counted, Live, Typed
<1>8. Linked'
  <2>1. SUFFICES ASSUME NEW l \in links', NEW u \in TargetIds, targets'[u] # Nil, targets'[u].token = l.token
                 PROVE  targets'[u].email = l.email /\ targets'[u].row = l.row
    BY <1>2 DEF Linked, Live, Typed
  <2>2. CASE l \in links /\ u # t
    BY <1>1, <1>3, <1>5, <2>1, <2>2 DEF Linked
  <2>3. CASE l \in links /\ u = t
    <3>1. l.token \in 1 .. born /\ l.token = r.token
      BY <1>1, <1>4, <2>1, <2>3 DEF Counted
    <3>2. l.token # Nil
      BY <1>1, <3>1, ConstantsTyped
    <3> QED BY <1>1, <3>1, <3>2
  <2>4. CASE l \notin links /\ u = t
    BY <1>4, <1>6, <2>4
  <2>5. CASE l \notin links /\ u # t
    <3>1. l.token = born + 1 /\ targets[u].token \in {Nil} \cup 1 .. born /\ targets'[u] = targets[u]
      BY <1>1, <1>3, <1>5, <1>6, <2>1, <2>5 DEF Counted
    <3>2. l.token # Nil
      BY <1>1, <3>1, ConstantsTyped
    <3> QED BY <1>1, <2>1, <3>1, <3>2
  <2> QED BY <2>2, <2>3, <2>4, <2>5
<1>9. VerifiedEntitled'
  <2>1. ASSUME NEW u \in TargetIds, targets'[u] # Nil, targets'[u].ok PROVE Entitled(targets[u])'
    <3>1. CASE u = t
      BY <1>4, <2>1, <3>1 DEF Entitled
    <3>2. CASE u # t
      BY <1>1, <1>3, <1>5, <2>1, <3>2 DEF VerifiedEntitled, Entitled
    <3> QED BY <3>1, <3>2
  <2> QED BY <1>2, <2>1 DEF VerifiedEntitled, Live, Typed
<1>10. Pointing'
  <2>1. ASSUME NEW a \in RowIds, Forwards(rows[a]) PROVE Target(rows[a].target)'
    <3>1. Target(rows[a].target) /\ rows[a].target \in TargetIds /\ rows[a].target # t
      BY <1>1, <2>1, LiveTargets DEF Pointing, Target
    <3>2. targets'[rows[a].target] = targets[rows[a].target]
      BY <1>3, <3>1
    <3> QED BY <1>2, <3>1, <3>2 DEF Target, Live, Typed
  <2> QED BY <2>1 DEF Pointing, Forwards
<1> QED BY <1>2, <1>7, <1>8, <1>9, <1>10 DEF BookOK

LEMMA PostTargetKeeps ==
  ASSUME BookOK, NEW c, CallOK(c), NEW ok, PostTarget(c, ok), UNCHANGED confirmed
  PROVE  BookOK'
<1>1. Typed /\ Counted /\ c.email \in Emails
  BY DEF BookOK, PostTarget, CallOK
<1>2. CASE ok
  <2> DEFINE t == NextId(targets)
             r == [email |-> c.email, ok |-> c.email \in Logins,
                   token |-> IF c.email \in Logins THEN Nil ELSE born + 1, row |-> born + 1]
  <2>1. born < MaxLinks /\ born' = born + 1 /\ targets' = [targets EXCEPT ![t] = r]
    BY <1>2 DEF PostTarget, Added
  <2>2. t \in TargetIds /\ t \notin Live(targets) /\ t <= born + 1
    BY <1>1, <2>1, FreshId
  <2>3. born + 1 \in Nat
    BY <1>1, ConstantsTyped DEF Typed
  <2>4. r \in TargetRow /\ r.token \in {Nil, born + 1} /\ (r.ok => r.email \in Logins)
    <3>1. CASE c.email \in Logins
      <4>1. r = [email |-> c.email, ok |-> TRUE, token |-> Nil, row |-> born + 1]
        BY <3>1
      <4>2. r.email = c.email /\ r.ok = TRUE /\ r.token = Nil
        BY <4>1
      <4>3. [email |-> c.email, ok |-> TRUE, token |-> Nil, row |-> born + 1] \in TargetRow
        BY <1>1, <2>3 DEF TargetRow
      <4> HIDE DEF r
      <4> QED BY <3>1, <4>1, <4>2, <4>3
    <3>2. CASE c.email \notin Logins
      <4>0. (c.email \in Logins) = FALSE
        BY <3>2
      <4>1. r = [email |-> c.email, ok |-> FALSE, token |-> born + 1, row |-> born + 1]
        BY <3>2, <4>0
      <4>2. r.token = born + 1 /\ r.ok = FALSE
        BY <4>1
      <4>3. [email |-> c.email, ok |-> FALSE, token |-> born + 1, row |-> born + 1] \in TargetRow
        BY <1>1, <2>3 DEF TargetRow
      <4> HIDE DEF r
      <4> QED BY <4>1, <4>2, <4>3
    <3> QED BY <3>1, <3>2
  <2> HIDE DEF r, t
  <2>5. targets'[t] = r
    BY <1>1, <2>1, <2>2 DEF Typed
  <2>6. PICK sent \in BOOLEAN : Mails(t, sent)
    BY <1>2 DEF PostTarget, t
  <2>7. \/ links' = links
        \/ links' = links \cup {[email |-> r.email, token |-> r.token, row |-> r.row]} /\ r.token # Nil
    BY <2>5, <2>6 DEF Mails
  <2>8. ~Target(t) /\ UNCHANGED <<rows, confirmed>>
    BY <2>2 DEF Target, PostTarget
  <2> QED BY <2>1, <2>2, <2>4, <2>7, <2>8, TokenMove
<1>3. CASE ~ok
  BY <1>1, <1>3, RowsMove DEF PostTarget, BookOK, Pointing, Typed
<1> QED BY <1>2, <1>3

LEMMA ResendTargetKeeps ==
  ASSUME BookOK, NEW c, NEW ok, ResendTarget(c, ok), UNCHANGED confirmed
  PROVE  BookOK'
<1>1. Typed /\ Counted /\ born \in Nat
  BY ConstantsTyped DEF BookOK, Typed
<1>2. CASE CanReissue(c.id)
  <2> DEFINE r == [targets[c.id] EXCEPT !.token = born + 1]
  <2>1. /\ c.id \in Live(targets) /\ c.id \in TargetIds /\ targets[c.id] \in TargetRow /\ ~targets[c.id].ok
    BY <1>1, <1>2, LiveTargets DEF CanReissue, Typed
  <2>2. born < MaxLinks /\ born' = born + 1 /\ targets' = [targets EXCEPT ![c.id] = r] /\ Mails(c.id, ok)
    BY <1>2 DEF ResendTarget, Reissued
  <2>3. r \in TargetRow /\ r.token = born + 1 /\ ~r.ok
    BY <1>1, <2>1 DEF TargetRow
  <2> HIDE DEF r
  <2>4. c.id <= born /\ c.id \in Nat
    BY <1>1, <2>1, ConstantsTyped DEF Counted
  <2>5. targets'[c.id] = r
    BY <1>1, <2>1, <2>2 DEF Typed
  <2>6. \/ links' = links
        \/ links' = links \cup {[email |-> r.email, token |-> r.token, row |-> r.row]} /\ r.token # Nil
    BY <2>2, <2>5 DEF Mails
  <2>7. c.id <= born + 1 /\ r.token \in {Nil, born + 1}
    BY <1>1, <2>3, <2>4
  <2>8. ~Target(c.id) /\ UNCHANGED <<rows, confirmed>>
    BY <2>1 DEF Target, ResendTarget
  <2> QED BY <2>1, <2>2, <2>3, <2>6, <2>7, <2>8, TokenMove
<1>3. CASE ~CanReissue(c.id)
  BY <1>1, <1>3, RowsMove DEF ResendTarget, BookOK, Pointing, Typed
<1> QED BY <1>2, <1>3

\* A removed target leaves no alias that points at its number.
LEMMA DropTargetKeeps ==
  ASSUME BookOK, NEW c, NEW ok, DropTarget(c, ok), UNCHANGED confirmed
  PROVE  BookOK'
<1>1. Typed /\ Counted /\ Linked /\ VerifiedEntitled /\ Pointing
  BY DEF BookOK
<1>2. CASE ok
  <2>1. /\ targets' = [targets EXCEPT ![c.id] = Nil] /\ rows' = Released(c.id)
        /\ links' = links /\ born' = born /\ confirmed' = confirmed
        /\ c.id \in TargetIds
    BY <1>1, <1>2, LiveTargets DEF DropTarget
  <2>2. /\ targets' \in [TargetIds -> TargetRow \cup {Nil}]
        /\ \A t \in TargetIds : targets'[t] # Nil => targets[t] # Nil /\ targets'[t] = targets[t]
        /\ \A t \in TargetIds : t # c.id => targets'[t] = targets[t]
    BY <1>1, <2>1 DEF Typed
  <2>3. ASSUME NEW a \in RowIds
        PROVE  /\ rows'[a] \in AliasRow \cup {Nil}
               /\ Forwards(rows'[a]) => rows'[a] = rows[a] /\ rows[a].target # c.id
    <3>1. CASE a \in Live(rows) /\ rows[a].target = c.id
      <4>1. rows'[a] = [rows[a] EXCEPT !.target = Nil] /\ rows[a] \in AliasRow
        BY <1>1, <2>1, <2>3, <3>1, LiveRows DEF Released, Typed
      <4> QED BY <4>1 DEF AliasRow, Forwards
    <3>2. CASE ~(a \in Live(rows) /\ rows[a].target = c.id)
      <4>1. rows'[a] = rows[a] /\ rows[a] \in AliasRow \cup {Nil}
        BY <1>1, <2>1, <2>3, <3>2 DEF Released, Typed
      <4> QED BY <1>1, <2>3, <3>2, <4>1, LiveRows DEF Forwards
    <3> QED BY <3>1, <3>2
  <2>4. rows' \in [RowIds -> AliasRow \cup {Nil}]
    BY <2>1, <2>3 DEF Released
  <2>5. Typed'
    BY <1>1, <2>1, <2>2, <2>4 DEF Typed
  <2>6. Counted'
    BY <1>1, <2>1, <2>2 DEF Typed, Counted, Live
  <2>7. Linked'
    BY <1>1, <2>1, <2>2 DEF Typed, Linked, Live
  <2>8. VerifiedEntitled'
    BY <1>1, <2>1, <2>2 DEF Typed, VerifiedEntitled, Live, Entitled
  <2>9. Pointing'
    <3>1. ASSUME NEW a \in RowIds, Forwards(rows'[a]) PROVE Target(rows[a].target)'
      <4>1. rows'[a] = rows[a] /\ Target(rows[a].target) /\ rows[a].target # c.id
        BY <1>1, <2>3, <3>1 DEF Pointing
      <4>2. rows[a].target \in TargetIds /\ targets[rows[a].target] # Nil /\ targets[rows[a].target].ok
        BY <1>1, <4>1, LiveTargets DEF Target
      <4> QED BY <2>2, <4>1, <4>2 DEF Target, Live
    <3> QED BY <2>3, <3>1 DEF Pointing, Forwards
  <2> QED BY <2>5, <2>6, <2>7, <2>8, <2>9 DEF BookOK
<1>3. CASE ~ok
  BY <1>1, <1>3, RowsMove DEF DropTarget, book, Pointing, Typed
<1> QED BY <1>2, <1>3

LEMMA ServeKeeps ==
  ASSUME BookOK, NEW c, CallOK(c), NEW ok, Serve(c, ok), UNCHANGED confirmed
  PROVE  BookOK'
  BY PostAliasKeeps, PatchAliasKeeps, MarkAliasKeeps, PostTargetKeeps, ResendTargetKeeps, DropTargetKeeps DEF Serve

\* An opened link verifies the row it was mailed for, if that row still has its token.
LEMMA OpenLinkKeeps ==
  ASSUME BookOK, NEW l, OpenLink(l)
  PROVE  BookOK'
<1>1. Typed /\ Counted /\ Linked /\ VerifiedEntitled /\ Pointing
  BY DEF BookOK
<1>2. /\ l \in links /\ confirmed' = confirmed \cup {[email |-> l.email, row |-> l.row]}
      /\ rows' = rows /\ links' = links /\ born' = born
  BY DEF OpenLink
<1>3. ASSUME NEW t \in TargetIds
      PROVE  \/ t \in Live(targets) /\ targets[t].token = l.token
                /\ targets'[t] = [targets[t] EXCEPT !.ok = TRUE, !.token = Nil]
             \/ targets'[t] = targets[t]
  BY <1>3 DEF OpenLink
<1>4. ASSUME NEW t \in TargetIds
      PROVE  /\ targets'[t] \in TargetRow \cup {Nil}
             /\ targets'[t] # Nil => targets[t] # Nil /\ targets[t] \in TargetRow
             /\ targets'[t] # Nil => /\ targets'[t].email = targets[t].email /\ targets'[t].row = targets[t].row
                                     /\ targets'[t].token \in {Nil, targets[t].token}
                                     /\ \/ targets'[t].ok = targets[t].ok
                                        \/ [email |-> targets[t].email, row |-> targets[t].row] \in confirmed'
  <2>1. CASE targets'[t] = targets[t]
    BY <1>1, <1>4, <2>1 DEF Typed, TargetRow
  <2>2. CASE t \in Live(targets) /\ targets[t].token = l.token
             /\ targets'[t] = [targets[t] EXCEPT !.ok = TRUE, !.token = Nil]
    <3>1. targets[t] \in TargetRow /\ targets[t] # Nil
      BY <1>1, <2>2, LiveTargets DEF Typed
    <3>2. targets[t].email = l.email /\ targets[t].row = l.row
      BY <1>1, <1>2, <2>2 DEF Linked
    <3>3. [email |-> targets[t].email, row |-> targets[t].row] \in confirmed'
      BY <1>2, <3>2
    <3> QED BY <2>2, <3>1, <3>3 DEF TargetRow
  <2> QED BY <1>3, <2>1, <2>2
<1>5. ASSUME NEW t \in TargetIds, targets[t] # Nil
      PROVE  targets'[t] # Nil /\ (targets[t].ok => targets'[t].ok)
  <2>1. targets[t] \in TargetRow
    BY <1>1, <1>5 DEF Typed
  <2>2. CASE targets'[t] = targets[t]
    BY <1>5, <2>2
  <2>3. CASE targets'[t] = [targets[t] EXCEPT !.ok = TRUE, !.token = Nil]
    <3>1. [targets[t] EXCEPT !.ok = TRUE, !.token = Nil] \in TargetRow
      BY <2>1 DEF TargetRow
    <3>2. targets'[t].ok = TRUE
      BY <2>1, <2>3 DEF TargetRow
    <3> QED BY <2>3, <3>1, <3>2, ConstantsTyped
  <2> QED BY <1>3, <2>2, <2>3
<1>6. Typed'
  BY <1>1, <1>2, <1>4 DEF Typed, OpenLink
<1>7. Counted'
  <2>1. ASSUME NEW t \in TargetIds, targets'[t] # Nil
        PROVE  t <= born /\ targets'[t].token \in {Nil} \cup 1 .. born
    BY <1>1, <1>4, <2>1, LiveTargets DEF Counted
  <2> QED BY <1>1, <1>2, <1>6, <2>1 DEF Typed, Counted, Live
<1>8. Linked'
  <2>1. ASSUME NEW k \in links, NEW t \in TargetIds, targets'[t] # Nil, targets'[t].token = k.token
        PROVE  targets'[t].email = k.email /\ targets'[t].row = k.row
    <3>1. k.token \in 1 .. born
      BY <1>1 DEF Counted
    <3>2. k.token # Nil
      BY <1>1, <3>1, ConstantsTyped DEF Typed
    <3>3. targets[t].token = k.token /\ t \in Live(targets)
      BY <1>1, <1>4, <2>1, <3>2, LiveTargets
    <3> QED BY <1>1, <1>4, <2>1, <3>3 DEF Linked
  <2> QED BY <1>2, <1>6, <2>1 DEF Typed, Linked, Live
<1>9. VerifiedEntitled'
  <2>1. ASSUME NEW t \in TargetIds, targets'[t] # Nil, targets'[t].ok
        PROVE  \/ targets'[t].email \in Logins
               \/ [email |-> targets'[t].email, row |-> targets'[t].row] \in confirmed'
    BY <1>1, <1>2, <1>4, <2>1, LiveTargets DEF VerifiedEntitled, Entitled
  <2> QED BY <1>6, <2>1 DEF Typed, VerifiedEntitled, Live, Entitled
<1>10. Pointing'
  <2>1. ASSUME NEW a \in RowIds, Forwards(rows[a]) PROVE Target(rows[a].target)'
    <3>1. Target(rows[a].target)
      BY <1>1, <2>1 DEF Pointing
    <3>2. rows[a].target \in TargetIds /\ targets[rows[a].target] # Nil /\ targets[rows[a].target].ok
      BY <1>1, <3>1, LiveTargets DEF Target
    <3> QED BY <1>2, <1>5, <1>6, <3>2 DEF Target, Live, Typed
  <2> QED BY <1>2, <2>1 DEF Pointing, Forwards
<1> QED BY <1>6, <1>7, <1>8, <1>9, <1>10 DEF BookOK

LEMMA ExpiresKeeps ==
  ASSUME BookOK, NEW t \in TargetIds, Expires(t)
  PROVE  BookOK'
<1>1. Typed /\ Counted /\ Linked /\ VerifiedEntitled /\ Pointing
  BY DEF BookOK
<1> DEFINE r == [targets[t] EXCEPT !.token = Nil]
<1>2. /\ targets' = [targets EXCEPT ![t] = r] /\ targets[t] # Nil /\ targets[t] \in TargetRow
      /\ rows' = rows /\ links' = links /\ born' = born /\ confirmed' = confirmed
  BY <1>1, LiveTargets DEF Expires, Typed
<1>3. /\ r \in TargetRow /\ r.token = Nil /\ r.email = targets[t].email /\ r.row = targets[t].row
      /\ r.ok = targets[t].ok
  BY <1>2 DEF TargetRow
<1> HIDE DEF r
<1>4. Typed'
  BY <1>1, <1>2, <1>3 DEF Typed
<1>5. \A u \in TargetIds : u # t => targets'[u] = targets[u]
  BY <1>1, <1>2 DEF Typed
<1>6. targets'[t] = r
  BY <1>1, <1>2 DEF Typed
<1>7. ASSUME NEW u \in TargetIds
      PROVE  /\ targets'[u] # Nil <=> targets[u] # Nil
             /\ targets'[u] # Nil => /\ targets'[u].email = targets[u].email
                                     /\ targets'[u].row = targets[u].row /\ targets'[u].ok = targets[u].ok
                                     /\ targets'[u].token \in {Nil, targets[u].token}
  <2>1. CASE u = t
    BY <1>2, <1>3, <1>6, <2>1, ConstantsTyped
  <2>2. CASE u # t
    BY <1>5, <2>2
  <2> QED BY <2>1, <2>2
<1>8. Counted'
  <2>1. ASSUME NEW u \in TargetIds, targets'[u] # Nil
        PROVE  u <= born /\ targets'[u].token \in {Nil} \cup 1 .. born
    BY <1>1, <1>7, <2>1, LiveTargets DEF Counted
  <2> QED BY <1>1, <1>2, <1>4, <2>1 DEF Typed, Counted, Live
<1>9. Linked'
  <2>1. ASSUME NEW k \in links, NEW u \in TargetIds, targets'[u] # Nil, targets'[u].token = k.token
        PROVE  targets'[u].email = k.email /\ targets'[u].row = k.row
    <3>1. k.token \in 1 .. born
      BY <1>1 DEF Counted
    <3>2. k.token # Nil
      BY <1>1, <3>1, ConstantsTyped DEF Typed
    <3>3. targets[u].token = k.token /\ u \in Live(targets)
      BY <1>1, <1>7, <2>1, <3>2, LiveTargets
    <3> QED BY <1>1, <1>7, <2>1, <3>3 DEF Linked
  <2> QED BY <1>2, <1>4, <2>1 DEF Typed, Linked, Live
<1>10. VerifiedEntitled'
  <2>1. ASSUME NEW u \in TargetIds, targets'[u] # Nil, targets'[u].ok
        PROVE  \/ targets'[u].email \in Logins
               \/ [email |-> targets'[u].email, row |-> targets'[u].row] \in confirmed'
    BY <1>1, <1>2, <1>7, <2>1, LiveTargets DEF VerifiedEntitled, Entitled
  <2> QED BY <1>4, <2>1 DEF Typed, VerifiedEntitled, Live, Entitled
<1>11. Pointing'
  <2>1. ASSUME NEW a \in RowIds, Forwards(rows[a]) PROVE Target(rows[a].target)'
    <3>1. Target(rows[a].target)
      BY <1>1, <2>1 DEF Pointing
    <3>2. rows[a].target \in TargetIds /\ targets[rows[a].target] # Nil /\ targets[rows[a].target].ok
      BY <1>1, <3>1, LiveTargets DEF Target
    <3>3. targets'[rows[a].target] # Nil /\ targets'[rows[a].target].ok
      BY <1>7, <3>2
    <3> QED BY <1>2, <1>4, <3>2, <3>3 DEF Target, Live, Typed
  <2> QED BY <1>2, <2>1 DEF Pointing, Forwards
<1> QED BY <1>4, <1>8, <1>9, <1>10, <1>11 DEF BookOK
-----------------------------------------------------------------------------
(* The clients.                                                            *)

\* What the panel keeps as it is.
LEMMA BookStays ==
  ASSUME BookOK, UNCHANGED <<book, links, born, confirmed>>
  PROVE  BookOK'
<1>1. targets' = targets /\ rows' = rows /\ links' = links /\ born' = born /\ confirmed' = confirmed
  BY DEF book
<1> QED BY <1>1 DEF BookOK, Typed, Counted, Linked, VerifiedEntitled, Entitled, Pointing, Forwards, Target, Live

\* The app sends what the server's routes take.
LEMMA PhoneKeeps ==
  ASSUME BookOK, NEW c \in NewAliasCalls \cup AliasCalls \cup TargetCalls, Phone(c)
  PROVE  BookOK'
<1>1. CASE c \in NewAliasCalls
  <2>1. PICK b \in Shelves, m \in Modes, t \in {Nil} \cup TargetIds :
          c = [op |-> "create", shelf |-> b, mode |-> m, target |-> t]
    BY <1>1 DEF NewAliasCalls
  <2>2. CallOK(c)
    BY <2>1 DEF CallOK
  <2> QED BY <2>2, ServeKeeps DEF Phone
<1>2. CASE c \in AliasCalls
  <2>1. CASE \E a \in RowIds, m \in Modes, t \in {Nil} \cup TargetIds :
               c = [op |-> "patch", id |-> a, mode |-> m, target |-> t]
    <3>1. c.op = "patch" /\ c.mode \in Modes
      BY <2>1
    <3>2. CallOK(c)
      BY <3>1 DEF CallOK
    <3> QED BY <3>2, ServeKeeps DEF Phone
  <2>2. CASE \E o \in {"abuse", "restore", "delete"}, a \in RowIds : c = [op |-> o, id |-> a]
    <3>1. CallOK(c)
      BY <2>2 DEF CallOK
    <3> QED BY <3>1, ServeKeeps DEF Phone
  <2> DEFINE Patches(a, m) == {[op |-> "patch", id |-> a, mode |-> m, target |-> t] : t \in Chosen(m)}
             Patched2 == UNION {Patches(a, m) : a \in RowIds, m \in Modes}
             Marks == {[op |-> o, id |-> a] : o \in {"abuse", "restore", "delete"}, a \in RowIds}
  <2>0. AliasCalls = Marks \cup Patched2
    BY DEF AliasCalls
  <2> HIDE DEF Patches, Patched2, Marks
  <2>3. CASE c \in Marks
    BY <2>2, <2>3 DEF Marks
  <2>4. CASE c \in Patched2
    <3>0. c \in UNION {Patches(a, m) : a \in RowIds, m \in Modes}
      BY <2>4 DEF Patched2
    <3>1. PICK a \in RowIds, m \in Modes : c \in Patches(a, m)
      BY <3>0
    <3>2. PICK t \in Chosen(m) : c = [op |-> "patch", id |-> a, mode |-> m, target |-> t]
      BY <3>1 DEF Patches
    <3>3. t \in {Nil} \cup TargetIds
      BY DEF Chosen
    <3> QED BY <2>1, <3>2, <3>3
  <2> QED BY <1>2, <2>0, <2>3, <2>4
<1>3. CASE c \in TargetCalls
  <2>1. CallOK(c)
    BY <1>3 DEF TargetCalls, CallOK
  <2> QED BY <2>1, ServeKeeps DEF Phone
<1> QED BY <1>1, <1>2, <1>3

\* What the calls of the panel carry.
LEMMA CallsTyped ==
  ASSUME PanelOK
  PROVE  /\ \A b : IsAsk(Load(b)) /\ CallOK(Load(b)) /\ IsAsk(LoadTargets) /\ CallOK(LoadTargets)
         /\ \A m \in Modes : IsAsk(CreateCall(m)) /\ CallOK(CreateCall(m))
         /\ \A m \in Modes : \A a : IsAsk(ModeCall(a, m)) /\ CallOK(ModeCall(a, m))
         /\ \A a, t : IsAsk(TargetCall(a, t)) /\ CallOK(TargetCall(a, t))
         /\ \A e \in Emails : IsAsk(AddCall(e)) /\ CallOK(AddCall(e))
         /\ \A op \in {"abuse", "restore", "delete", "resend", "remove"} : \A i :
              IsAsk(RowCall(op, i)) /\ CallOK(RowCall(op, i))
<1>1. \A b : IsAsk(Load(b)) /\ CallOK(Load(b)) /\ IsAsk(LoadTargets) /\ CallOK(LoadTargets)
  BY DEF Load, LoadTargets, Ask, IsAsk, CallOK, Fields
<1>2. \A m \in Modes : IsAsk(CreateCall(m)) /\ CallOK(CreateCall(m))
  BY DEF CreateCall, Ask, IsAsk, CallOK, PanelOK, Fields
<1>3. \A m \in Modes : \A a : IsAsk(ModeCall(a, m)) /\ CallOK(ModeCall(a, m))
  BY DEF ModeCall, Ask, IsAsk, CallOK, Fields
<1>4. \A a, t : IsAsk(TargetCall(a, t)) /\ CallOK(TargetCall(a, t))
  BY DEF TargetCall, Ask, IsAsk, CallOK, Fields
<1>5. \A e \in Emails : IsAsk(AddCall(e)) /\ CallOK(AddCall(e))
  BY DEF AddCall, Ask, IsAsk, CallOK, Fields
<1>6. \A op \in {"abuse", "restore", "delete", "resend", "remove"} : \A i :
        IsAsk(RowCall(op, i)) /\ CallOK(RowCall(op, i))
  BY DEF RowCall, Ask, IsAsk, CallOK, Fields
<1> QED BY <1>1, <1>2, <1>3, <1>4, <1>5, <1>6

LEMMA OwnerAsksKeeps ==
  ASSUME BookOK, PanelOK, NEW c, IsAsk(c), CallOK(c), OwnerAsks(c)
  PROVE  (BookOK /\ PanelOK)'
<1>1. BookOK'
  BY BookStays DEF OwnerAsks
<1> QED BY <1>1 DEF OwnerAsks, PanelOK, IsAsk, CallOK

\* A call that is answered, by the server or by nobody, is the call it was.
LEMMA AnswerTyped ==
  ASSUME NEW c, IsAsk(c), CallOK(c), NEW ok, NEW got
  PROVE  LET d == [c EXCEPT !.at = "down", !.ok = ok, !.got = got]
             e == [c EXCEPT !.at = "down", !.ok = ok]
         IN  IsAsk(d) /\ CallOK(d) /\ IsAsk(e) /\ CallOK(e)
<1> DEFINE d == [c EXCEPT !.at = "down", !.ok = ok, !.got = got]
           e == [c EXCEPT !.at = "down", !.ok = ok]
<1>1. IsAsk(d) /\ CallOK(d)
  BY DEF IsAsk, Fields, CallOK
<1>2. IsAsk(e) /\ CallOK(e)
  BY DEF IsAsk, Fields, CallOK
<1> QED BY <1>1, <1>2

\* A call of the panel arrives.
LEMMA ServedKeeps ==
  ASSUME BookOK, PanelOK, NEW c, Served(c)
  PROVE  (BookOK /\ PanelOK)'
<1>1. c \in asks /\ IsAsk(c) /\ CallOK(c) /\ manager' = manager /\ confirmed' = confirmed
  BY DEF Served, PanelOK
<1>2. ASSUME NEW d, IsAsk(d), CallOK(d), asks' = (asks \ {c}) \cup {d} PROVE PanelOK'
  BY <1>1, <1>2 DEF PanelOK, IsAsk, CallOK
<1>3. CASE \E got : /\ asks' = (asks \ {c}) \cup {[c EXCEPT !.at = "down", !.ok = TRUE, !.got = got]}
                    /\ UNCHANGED <<book, links, born>>
  <2>1. PICK got : /\ asks' = (asks \ {c}) \cup {[c EXCEPT !.at = "down", !.ok = TRUE, !.got = got]}
                   /\ UNCHANGED <<book, links, born>>
    BY <1>3
  <2> DEFINE d == [c EXCEPT !.at = "down", !.ok = TRUE, !.got = got]
  <2>2. IsAsk(d) /\ CallOK(d)
    BY <1>1, AnswerTyped
  <2> HIDE DEF d
  <2>3. PanelOK'
    BY <1>2, <2>1, <2>2 DEF d
  <2> QED BY <1>1, <2>1, <2>3, BookStays
<1>4. CASE \E ok \in BOOLEAN : /\ Serve(c, ok)
                               /\ asks' = (asks \ {c}) \cup {[c EXCEPT !.at = "down", !.ok = ok]}
  <2>1. PICK ok \in BOOLEAN : /\ Serve(c, ok)
                              /\ asks' = (asks \ {c}) \cup {[c EXCEPT !.at = "down", !.ok = ok]}
    BY <1>4
  <2> DEFINE d == [c EXCEPT !.at = "down", !.ok = ok]
  <2>2. IsAsk(d) /\ CallOK(d)
    BY <1>1, AnswerTyped
  <2> HIDE DEF d
  <2>3. PanelOK'
    BY <1>2, <2>1, <2>2 DEF d
  <2> QED BY <1>1, <2>1, <2>3, ServeKeeps
<1> QED BY <1>3, <1>4 DEF Served

LEMMA NoAnswerKeeps ==
  ASSUME BookOK, PanelOK, NEW c, NoAnswer(c)
  PROVE  (BookOK /\ PanelOK)'
<1>1. c \in asks /\ IsAsk(c) /\ CallOK(c)
  BY DEF NoAnswer, PanelOK
<1> DEFINE d == [c EXCEPT !.at = "down", !.ok = FALSE, !.got = {}]
<1>2. IsAsk(d) /\ CallOK(d)
  BY <1>1, AnswerTyped
<1>3. asks' = (asks \ {c}) \cup {d} /\ manager' = manager /\ UNCHANGED <<book, links, born, confirmed>>
  BY DEF NoAnswer
<1> HIDE DEF d
<1>4. PanelOK'
  BY <1>2, <1>3 DEF PanelOK, IsAsk, CallOK
<1> QED BY <1>3, <1>4, BookStays

\* What a step of the panel leaves of its form still has the mailbox.
LEMMA EndsKeeps ==
  ASSUME BookOK, PanelOK, NEW c \in asks, Ends(c)
  PROVE  (BookOK /\ PanelOK)'
<1>1. BookOK'
  BY BookStays DEF Ends
<1>2. manager' = manager \/ \E x, y, z : manager' \in {[manager EXCEPT !.shown = x], [manager EXCEPT !.offered = y],
        [manager EXCEPT !.pick = z], [[manager EXCEPT !.offered = y] EXCEPT !.pick = z],
        [[manager EXCEPT !.pick = y] EXCEPT !.pick = z]}
  <2>1. CASE c.op = "list"
    BY <2>1 DEF Ends
  <2>2. CASE c.op = "targets"
    BY <2>2 DEF Ends, Settled
  <2>3. CASE c.op = "remove"
    BY <2>3 DEF Ends, Settled
  <2>4. CASE c.op \notin {"list", "targets", "remove"}
    BY <2>4 DEF Ends
  <2> QED BY <2>1, <2>2, <2>3, <2>4
<1>3. {"shelf", "shown", "offered", "pick"} \subseteq DOMAIN manager' /\ manager'.shelf = manager.shelf
  BY <1>2 DEF PanelOK
<1>4. \A d \in asks' : d \in asks \/ d = LoadTargets \/ d = Load(c.shelf)
  BY DEF Ends
<1>5. \A d \in asks' : IsAsk(d) /\ CallOK(d)
  BY <1>4, CallsTyped DEF PanelOK
<1> QED BY <1>1, <1>3, <1>5 DEF PanelOK, IsAsk, CallOK

LEMMA PanelKeeps ==
  ASSUME BookOK, PanelOK, Panel
  PROVE  (BookOK /\ PanelOK)'
<1>1. ASSUME NEW b \in Shelves, PickShelf(b) PROVE (BookOK /\ PanelOK)'
  <2>1. IsAsk(Load(b)) /\ CallOK(Load(b)) /\ asks' = asks \cup {Load(b)}
    BY <1>1, CallsTyped DEF PickShelf
  <2>2. BookOK'
    BY <1>1, BookStays DEF PickShelf, book
  <2>3. {"shelf", "shown", "offered", "pick"} \subseteq DOMAIN manager' /\ manager'.shelf \in Shelves
    BY <1>1 DEF PickShelf, PanelOK
  <2> QED BY <2>1, <2>2, <2>3 DEF PanelOK, IsAsk, CallOK
<1>2. ASSUME NEW t, PickTarget(t) PROVE (BookOK /\ PanelOK)'
  <2>1. BookOK'
    BY <1>2, BookStays DEF PickTarget, book
  <2>2. {"shelf", "shown", "offered", "pick"} \subseteq DOMAIN manager' /\ manager'.shelf \in Shelves
    BY <1>2 DEF PickTarget, PanelOK
  <2>3. asks' = asks
    BY <1>2 DEF PickTarget
  <2> QED BY <2>1, <2>2, <2>3 DEF PanelOK, IsAsk, CallOK
<1>3. ASSUME NEW m \in Modes, ClickCreate(m) \/ \E a \in manager.shown : ClickMode(a, m)
      PROVE  (BookOK /\ PanelOK)'
  <2>1. CASE ClickCreate(m)
    BY <2>1, CallsTyped, OwnerAsksKeeps DEF ClickCreate
  <2>2. ASSUME NEW a \in manager.shown, ClickMode(a, m) PROVE (BookOK /\ PanelOK)'
    <3>1. IsAsk(ModeCall(a, m)) /\ CallOK(ModeCall(a, m)) /\ OwnerAsks(ModeCall(a, m))
      BY <2>2, CallsTyped DEF ClickMode
    <3> QED BY <3>1, OwnerAsksKeeps
  <2> QED BY <1>3, <2>1, <2>2
<1>4. ASSUME NEW a \in manager.shown,
             \/ \E t \in TargetIds : ClickTarget(a, t)
             \/ \E op \in {"abuse", "restore", "delete"} : ClickAlias(a, op)
      PROVE  (BookOK /\ PanelOK)'
  BY <1>4, CallsTyped, OwnerAsksKeeps DEF ClickTarget, ClickAlias
<1>5. ASSUME NEW e \in Emails, ClickAdd(e) PROVE (BookOK /\ PanelOK)'
  BY <1>5, CallsTyped, OwnerAsksKeeps DEF ClickAdd
<1>6. ASSUME NEW t, NEW op \in {"resend", "remove"}, ClickOffered(t, op) PROVE (BookOK /\ PanelOK)'
  BY <1>6, CallsTyped, OwnerAsksKeeps DEF ClickOffered
<1>7. ASSUME NEW c \in asks, Served(c) \/ NoAnswer(c) \/ Ends(c) PROVE (BookOK /\ PanelOK)'
  BY <1>7, ServedKeeps, NoAnswerKeeps, EndsKeeps
<1> QED BY <1>1, <1>2, <1>3, <1>4, <1>5, <1>6, <1>7 DEF Panel
-----------------------------------------------------------------------------
(* The invariant holds from the start, and says what is asked of it.       *)

LEMMA InitOK ==
  ASSUME AliasesInit
  PROVE  BookOK /\ PanelOK
<1>1. Typed /\ Live(targets) = {} /\ Live(rows) = {}
  BY ConstantsTyped DEF AliasesInit, Typed, Live
<1>2. Counted /\ Linked /\ VerifiedEntitled
  BY <1>1 DEF AliasesInit, Counted, Linked, VerifiedEntitled
<1>3. Pointing
  BY DEF AliasesInit, Pointing, Forwards
<1>4. PanelOK
  BY DEF AliasesInit, PanelOK
<1> QED BY <1>1, <1>2, <1>3, <1>4 DEF BookOK

LEMMA NextOK ==
  ASSUME BookOK, PanelOK, [AliasesNext]_aliasVars
  PROVE  (BookOK /\ PanelOK)'
<1>1. CASE Panel
  BY <1>1, PanelKeeps
<1>2. ASSUME NEW c \in NewAliasCalls \cup AliasCalls \cup TargetCalls, Phone(c) PROVE (BookOK /\ PanelOK)'
  <2>1. BookOK'
    BY <1>2, PhoneKeeps
  <2> QED BY <1>2, <2>1 DEF Phone, PanelOK, IsAsk, CallOK
<1>3. ASSUME NEW l, OpenLink(l) PROVE (BookOK /\ PanelOK)'
  <2>1. BookOK'
    BY <1>3, OpenLinkKeeps
  <2> QED BY <1>3, <2>1 DEF OpenLink, PanelOK, IsAsk, CallOK
<1>4. ASSUME NEW t \in TargetIds, Expires(t) PROVE (BookOK /\ PanelOK)'
  <2>1. BookOK'
    BY <1>4, ExpiresKeeps
  <2> QED BY <1>4, <2>1 DEF Expires, PanelOK, IsAsk, CallOK
<1>5. CASE UNCHANGED aliasVars
  <2>1. BookOK'
    BY <1>5, BookStays DEF aliasVars
  <2> QED BY <1>5, <2>1 DEF aliasVars, PanelOK, IsAsk, CallOK
<1> QED BY <1>1, <1>2, <1>3, <1>4, <1>5 DEF AliasesNext

LEMMA BookOKForwards ==
  ASSUME BookOK
  PROVE  ForwardsToConfirmed
<1>1. SUFFICES ASSUME NEW a \in Live(rows), rows[a].mode = "forward", rows[a].target # Nil
               PROVE  Target(rows[a].target) /\ Entitled(targets[rows[a].target])
  BY DEF ForwardsToConfirmed, Target, Entitled
<1>2. a \in RowIds /\ rows[a] # Nil
  BY LiveRows DEF BookOK
<1>3. Target(rows[a].target)
  BY <1>1, <1>2 DEF BookOK, Pointing, Forwards
<1> QED BY <1>3 DEF BookOK, VerifiedEntitled, Target

\* Mail of an alias goes only to an address that is the account's own login, or
\* to which a link was mailed that was opened for the very row the alias points
\* at, whatever the two clients send and in whatever order it arrives
\* (checkForwardConfig, consumeVerifyToken, ON DELETE SET NULL).
THEOREM ForwardsOnlyToConfirmed == AliasesSpec => []ForwardsToConfirmed
<1>1. AliasesInit => BookOK /\ PanelOK
  BY InitOK
<1>2. (BookOK /\ PanelOK) /\ [AliasesNext]_aliasVars => (BookOK /\ PanelOK)'
  BY NextOK
<1>3. BookOK /\ PanelOK => ForwardsToConfirmed
  BY BookOKForwards
<1> QED BY <1>1, <1>2, <1>3, PTL DEF AliasesSpec
=============================================================================
