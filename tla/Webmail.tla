------------------------------ MODULE Webmail ------------------------------
(***************************************************************************)
(* The lists of the web client (App.tsx, MessageList.tsx, ReadingPane.tsx, *)
(* Screener.tsx, ProbationaryWall.tsx) against the message API and the     *)
(* stream of live events (api.ts, routes/screener.ts, events.ts).          *)
(*                                                                         *)
(* The client keeps a place (mailbox, folder, search text) and what it     *)
(* last heard of it. Every change of place closes the event stream, opens  *)
(* another and fetches again; every event of the mailbox fetches again.    *)
(* Calls are served and answered in any order, and the callbacks that wait *)
(* for an answer still hold the place of the click that began them.        *)
(*                                                                         *)
(* Each message has a sender of its own. Starring goes the way of reading  *)
(* and is left out, with the fetch of a message starred in the pane; so    *)
(* are the counts of the sidebar, the drafts and the folder of sent mail.  *)
(***************************************************************************)
EXTENDS Integers, FiniteSets, SequencesExt

CONSTANTS
  Msgs,      \* messages, the later ones greater
  Boxes,     \* mailboxes of the user
  BoxOf,     \* the mailbox of a message
  Matching,  \* messages the search text finds
  NONE,
  MaxOps,    \* bound: changes made by the owner, here or elsewhere, and new mail
  MaxFaults, \* bound: calls and streams that break
  MaxCalls   \* bound: calls under way

MailFolders == {"inbox", "quarantine", "trash"}

ASSUME WebmailConstantsOK ==
  /\ Msgs \subseteq Nat /\ Matching \subseteq Msgs
  /\ BoxOf \in [Msgs -> Boxes] /\ IsFiniteSet(Msgs) /\ IsFiniteSet(Boxes)
  /\ {MaxOps, MaxFaults, MaxCalls} \subseteq Nat

VARIABLES
  mail,     \* server: messages rows
  decided,  \* server: senders with a whitelist rule or a mute
  stream,   \* the EventSource: "opening" until the server listens, then "up"
  events,   \* events on their way to the client, by mailbox
  place,    \* App: activeMailboxId, folder and whether there is a searchQuery
  messages, \* App: messages
  results,  \* App: searchResults
  picked,   \* App: selectedIds
  pane,     \* ReadingPane: the message it shows, or NONE
  timer,    \* App: the debounce timer of the search runs
  card,     \* Screener: queue, idx, busy and loaded
  calls,    \* requests under way, in the order they were sent
  version,  \* history: changes of the server's mail
  seen,     \* history: version of the answer shown
  stale,    \* history: the client was not told of a change, or was told late
  ops,      \* history: operations done
  faults    \* history: calls and streams broken

server == <<mail, decided, version>>
wire == <<stream, events>>
shown == <<messages, results, seen, stale>>
counters == <<ops, faults>>
webmailVars == <<server, wire, place, shown, picked, pane, timer, card, calls, counters>>

Places == [box : Boxes, folder : MailFolders \cup {"screener"}, query : BOOLEAN]
Live == {m \in Msgs : mail[m].folder \in MailFolders}
SummaryType == [id : Msgs, folder : MailFolders, read : BOOLEAN]

ASSUME NoneIsNoList == NONE \notin Boxes /\ \A rows \in SUBSET SummaryType : rows # NONE

Summary(m) == [id |-> m, folder |-> mail[m].folder, read |-> mail[m].read]

\* GET /api/messages and GET /api/search, which looks in every folder.
Listing(b, f) == {Summary(m) : m \in {n \in Live : BoxOf[n] = b /\ mail[n].folder = f}}
Found(b) == {Summary(m) : m \in {n \in Live : BoxOf[n] = b /\ n \in Matching}}
Truth(p) == IF p.query THEN Found(p.box) ELSE Listing(p.box, p.folder)

\* GET /api/screener: the senders nobody has decided on, the latest first.
LatestFirst(senders) ==
  CHOOSE queue \in [1 .. Cardinality(senders) -> senders] :
    \A i, j \in DOMAIN queue : i < j => queue[i] > queue[j]
Waiting(b) == LatestFirst({r.id : r \in Listing(b, "quarantine")} \ decided)

Visible == IF results # NONE THEN results ELSE messages

NoCard == [box |-> NONE, mount |-> 0, queue |-> <<>>, idx |-> 1, busy |-> FALSE,
           loaded |-> FALSE, hurried |-> FALSE]

-----------------------------------------------------------------------------
(* Requests *)

Call(kind, p, with) == [kind |-> kind, place |-> p, with |-> with, state |-> "sent",
                        ver |-> 0, answer |-> NONE]
Room(n) == Len(calls) + n <= MaxCalls

\* refresh of a callback made when the place was p.
Fetch(p) == Call(IF p.query THEN "search" ELSE "list", p, NONE)
RefreshedFrom(cs, p) == IF p.folder = "screener" THEN cs ELSE Append(cs, Fetch(p))
ResultsFrom(p) == IF p.query /\ p.folder # "screener" THEN results ELSE NONE

\* setMessages, setSearchResults of an answer; the histories note whether what is
\* shown is now true, or may have become older.
Shows(c, rows) ==
  /\ IF c.kind = "list"
       THEN messages' = rows /\ UNCHANGED results
       ELSE results' = rows /\ UNCHANGED messages
  /\ seen' = IF c.place = place THEN c.ver ELSE seen
  /\ stale' = IF c.place # place \/ c.ver < seen THEN TRUE
              ELSE IF c.ver = version /\ (c.kind = "list" => results = NONE) THEN FALSE ELSE stale

-----------------------------------------------------------------------------
(* Where the client is *)

\* The effects that follow a new place: fetch, restart the timer, subscribe again.
Goto(p) ==
  /\ p # place /\ ops < MaxOps /\ Room(1)
  /\ place' = p
  /\ calls' = RefreshedFrom(calls, p)
  /\ results' = ResultsFrom(p)
  /\ timer' = (p.query /\ p.folder # "screener")
  /\ stream' = "opening" /\ events' = <<>>
  /\ seen' = 0 /\ ops' = ops + 1
  /\ UNCHANGED <<server, messages, stale, faults>>

\* Screener.tsx loads its queue when it is mounted and when the mailbox changes.
Mounted(p, again) ==
  IF p.folder # "screener" THEN [NoCard EXCEPT !.mount = card.mount]
  ELSE IF again THEN [card EXCEPT !.box = p.box, !.loaded = FALSE,
                                  !.hurried = @ \/ card.busy]
  ELSE [NoCard EXCEPT !.box = p.box, !.mount = card.mount + 1]
Opens(p) ==
  card' = IF p.folder = place.folder /\ p.box = place.box THEN card
          ELSE Mounted(p, place.folder = "screener")

OnFolder(f) ==
  LET p == [place EXCEPT !.folder = f, !.query = FALSE]
  IN /\ Goto(p) /\ Opens(p)
     /\ picked' = {} /\ pane' = NONE

\* The menu of mailboxes leaves the selection and the search text alone.
OnMailbox(b) ==
  LET p == [place EXCEPT !.box = b]
  IN Goto(p) /\ Opens(p) /\ UNCHANGED <<picked, pane>>

OnSearchChange ==
  LET p == [place EXCEPT !.query = ~@]
  IN /\ place.folder # "screener"
     /\ Goto(p) /\ UNCHANGED <<card, picked, pane>>

OnDoneForNow ==
  LET p == [place EXCEPT !.folder = "inbox"]
  IN /\ place.folder = "screener"
     /\ Goto(p) /\ Opens(p) /\ UNCHANGED <<picked, pane>>

Debounced ==
  /\ timer /\ Room(1)
  /\ timer' = FALSE
  /\ calls' = Append(calls, Call("typed", place, NONE))
  /\ UNCHANGED <<server, wire, place, shown, picked, pane, card, counters>>

\* Screener.tsx asks for its queue; an answer for an earlier mailbox is dropped.
AskQueue ==
  /\ card.box # NONE /\ ~card.loaded /\ Room(1)
  /\ \A i \in DOMAIN calls :
       ~(calls[i].kind = "queue" /\ calls[i].with = <<card.mount, card.box>>)
  /\ calls' = Append(calls, Call("queue", place, <<card.mount, card.box>>))
  /\ UNCHANGED <<server, wire, place, shown, picked, pane, timer, card, counters>>

-----------------------------------------------------------------------------
(* What the owner does *)

\* The buttons of the bulk bar, of the reading pane and of the wall of probation,
\* and the keys, which act on what the row on the screen says.
BulkActions(f) ==
  {"read", "unread"} \cup (IF f = "quarantine" THEN {"trust"} ELSE {})
  \cup (IF f # "inbox" THEN {"inbox"} ELSE {})
  \cup (IF f # "trash" THEN {"trash"} ELSE {"delete"})
PaneActions(f) ==
  (IF f = "quarantine" THEN {"trust"} ELSE {})
  \cup (IF f # "inbox" THEN {"inbox"} ELSE {})
  \cup (IF f # "trash" THEN {"trash"} ELSE {"delete"})
KeyActions(row) ==
  {"trust", IF row.read THEN "unread" ELSE "read",
   IF row.folder = "trash" THEN "delete" ELSE "trash"}
WallActions == {"trust", "delete"}

Act(ids, a, bulk) ==
  /\ ops < MaxOps /\ Room(1)
  /\ calls' = Append(calls, Call("act", place, [ids |-> ids, do |-> a, bulk |-> bulk]))
  /\ ops' = ops + 1
  /\ UNCHANGED <<server, wire, place, shown, timer, card, faults>>

\* A click on a row: the pane fetches the message, and an unread one is marked.
OpenRow(row) ==
  /\ ops < MaxOps /\ Room(2) /\ place.folder # "screener"
  /\ calls' = Append(calls, Call("get", place, row.id))
              \o (IF row.read THEN <<>>
                  ELSE <<Call("act", place, [ids |-> {row.id}, do |-> "read", bulk |-> FALSE])>>)
  /\ ops' = ops + 1
  /\ UNCHANGED <<server, wire, place, shown, picked, pane, timer, card, faults>>

\* The box of a row.
Toggled(r) == (picked \cup {r.id}) \ (picked \cap {r.id})

Pick(S) ==
  /\ place.folder # "screener" /\ picked # S
  /\ \/ S = {r.id : r \in Visible}
     \/ S = {}
     \/ \E r \in Visible : S = Toggled(r)
  /\ picked' = S
  /\ UNCHANGED <<server, wire, place, shown, pane, timer, card, calls, counters>>

HandleBulk ==
  /\ picked # {} /\ place.folder # "screener"
  /\ \E a \in BulkActions(place.folder) : Act(picked, a, TRUE)
  /\ UNCHANGED <<picked, pane>>

OnRow ==
  /\ place.folder # "screener"
  /\ \E r \in Visible :
       \E a \in KeyActions(r) \cup (IF place.folder = "quarantine" THEN WallActions ELSE {}) :
         Act({r.id}, a, FALSE)
  /\ UNCHANGED <<picked, pane>>

OnPane ==
  /\ pane # NONE /\ place.folder # "screener"
  /\ \E a \in PaneActions(pane.folder) : Act({pane.id}, a, FALSE)
  /\ UNCHANGED <<picked, pane>>

OnPurge == Act({}, "purge", TRUE) /\ UNCHANGED <<picked, pane>>

\* Mutant of MayDecide: a second click does not wait for the answer to the first.
MayDecideTwice == card.loaded /\ card.idx <= Len(card.queue)
\* decide: a sender is shown, and no decision is under way.
MayDecide == card.loaded /\ ~card.busy /\ card.idx <= Len(card.queue)

Decide ==
  /\ MayDecide
  /\ ops < MaxOps /\ Room(1)
  /\ card' = [card EXCEPT !.busy = TRUE]
  /\ \E a \in {"trust", "reject"} :
       calls' = Append(calls, Call("decide", place,
                  [ids |-> {card.queue[card.idx]}, do |-> a, mount |-> card.mount]))
  /\ ops' = ops + 1
  /\ UNCHANGED <<server, wire, place, shown, picked, pane, timer, faults>>

-----------------------------------------------------------------------------
(* The server *)

\* The rows a call names; the Screener only moves those that are still quarantined.
Targets(c) ==
  LET held == {r.id : r \in Listing(c.place.box, "quarantine")}
  IN CASE c.kind = "decide" -> c.with.ids \cap held
       [] c.with.do = "purge" -> held
       [] OTHER -> c.with.ids \cap Live

\* One UPDATE or DELETE, and an event for every row it named; several of one mailbox
\* make the same refresh, so there is one for each mailbox.
Changed(ids, a) ==
  [m \in Msgs |->
     IF m \notin ids THEN mail[m]
     ELSE CASE a = "read" -> [mail[m] EXCEPT !.read = TRUE]
            [] a = "unread" -> [mail[m] EXCEPT !.read = FALSE]
            [] a \in {"inbox", "trust"} -> [mail[m] EXCEPT !.folder = "inbox"]
            [] a \in {"trash", "reject"} -> [mail[m] EXCEPT !.folder = "trash"]
            [] OTHER -> [mail[m] EXCEPT !.folder = "gone"]]

\* Mutant of Published: the route that marks a message as read does not publish.
PublishedMoves(ids, a) == IF a = "read" THEN {} ELSE {BoxOf[m] : m \in ids}
Published(ids, a) == {BoxOf[m] : m \in ids}

\* The client hears of the mailboxes bs if its stream is up, otherwise not at all.
Heard(bs) ==
  /\ events' = IF stream = "up" THEN events \o SetToSeq(bs) ELSE events
  /\ stale' = (stale \/ (stream # "up" /\ place.box \in bs))
  /\ UNCHANGED <<stream, messages, results, seen>>

Ruled(ids, a) == IF a \in {"trust", "reject"} THEN decided \cup ids ELSE decided

Change(ids, a) ==
  /\ mail' = Changed(ids, a)
  /\ version' = version + 1
  /\ Heard(Published(ids, a))

Answered(i, v, rows) == [calls EXCEPT ![i].state = "back", ![i].ver = v, ![i].answer = rows]

ServeFetch(i) ==
  LET c == calls[i]
  IN /\ c.state = "sent" /\ c.kind \in {"list", "search", "typed", "get", "queue"}
     /\ calls' = Answered(i, version, CASE c.kind = "list" -> Listing(c.place.box, c.place.folder)
                               [] c.kind \in {"search", "typed"} -> Found(c.place.box)
                               [] c.kind = "queue" -> Waiting(c.with[2])
                               [] OTHER -> {Summary(m) : m \in {c.with} \cap Live})
     /\ UNCHANGED <<server, wire, place, shown, picked, pane, timer, card, counters>>

\* A call about one message that is gone is answered 404.
ServeAct(i) ==
  LET c == calls[i]
      ids == Targets(c)
  IN /\ c.state = "sent" /\ c.kind \in {"act", "decide"}
     /\ IF c.kind = "act" /\ ~c.with.bulk /\ ids = {}
          THEN /\ calls' = [calls EXCEPT ![i].state = "failed"]
               /\ UNCHANGED <<server, wire, shown>>
          ELSE /\ Change(ids, c.with.do)
               /\ decided' = Ruled(c.with.ids, c.with.do)
               /\ calls' = Answered(i, version + 1, {})
     /\ UNCHANGED <<place, picked, pane, timer, card, counters>>

\* New mail, the sweeper, and the same routes called from another client.
Elsewhere ==
  /\ ops < MaxOps
  /\ \/ \E m \in Msgs, f \in {"inbox", "quarantine"} :
          /\ mail[m].folder = "coming"
          /\ mail' = [mail EXCEPT ![m].folder = f]
          /\ version' = version + 1 /\ UNCHANGED decided
          /\ Heard({BoxOf[m]})
     \/ \E m \in Live, a \in {"read", "trash", "trust"} :
          Change({m}, a) /\ decided' = Ruled({m}, a)
     \/ \E m \in Live :
          /\ mail[m].folder = "quarantine"
          /\ Change({m}, "delete") /\ UNCHANGED decided
  /\ ops' = ops + 1
  /\ UNCHANGED <<place, picked, pane, timer, card, calls, faults>>

-----------------------------------------------------------------------------
(* What comes back *)

Listen ==
  /\ stream = "opening"
  /\ stream' = "up"
  /\ UNCHANGED <<server, events, place, shown, picked, pane, timer, card, calls, counters>>

\* An event of another mailbox is ignored.
Event ==
  /\ events # <<>> /\ Room(1)
  /\ events' = Tail(events)
  /\ IF Head(events) = place.box
       THEN /\ calls' = RefreshedFrom(calls, place)
            /\ results' = ResultsFrom(place)
       ELSE UNCHANGED <<calls, results>>
  /\ UNCHANGED <<server, stream, place, messages, seen, stale, picked, pane, timer,
                 card, counters>>

TakeFetch(i) ==
  LET c == calls[i]
  IN /\ c.state = "back" /\ c.kind \in {"list", "search", "typed"}
     /\ Shows(c, c.answer)
     /\ calls' = RemoveAt(calls, i)
     /\ UNCHANGED <<server, wire, place, picked, pane, timer, card, counters>>

\* Nothing tells the pane which message it asked for last.
TakeMessage(i) ==
  LET c == calls[i]
  IN /\ c.state = "back" /\ c.kind = "get"
     /\ pane' = IF c.answer = {} THEN NONE
                ELSE LET r == CHOOSE r \in c.answer : TRUE
                     IN [id |-> r.id, folder |-> r.folder]
     /\ calls' = RemoveAt(calls, i)
     /\ UNCHANGED <<server, wire, place, shown, picked, timer, card, counters>>

TakeQueue(i) ==
  LET c == calls[i]
  IN /\ c.state = "back" /\ c.kind = "queue"
     /\ card' = IF c.with = <<card.mount, card.box>>
                  THEN [card EXCEPT !.queue = c.answer, !.idx = 1, !.loaded = TRUE]
                  ELSE card
     /\ calls' = RemoveAt(calls, i)
     /\ UNCHANGED <<server, wire, place, shown, picked, pane, timer, counters>>

\* The rest of a handler after its call: the refresh is that of the click.
Refreshed(i, p) ==
  /\ calls' = RefreshedFrom(RemoveAt(calls, i), p)
  /\ results' = ResultsFrom(p)
  /\ stale' = (stale \/ p # place)
  /\ UNCHANGED <<messages, seen>>

TakeAct(i) ==
  LET c == calls[i]
  IN /\ c.state = "back" /\ c.kind = "act"
     /\ picked' = IF c.with.bulk /\ c.with.do # "purge" THEN {} ELSE picked
     /\ Refreshed(i, c.place)
     /\ UNCHANGED <<server, wire, place, pane, timer, card, counters>>

\* setIdx and setBusy of a Screener that is gone do nothing.
Decided(c) == [card EXCEPT !.idx = @ + 1, !.busy = FALSE]
Undecided(c) == [card EXCEPT !.busy = FALSE]

TakeDecide(i) ==
  LET c == calls[i]
  IN /\ c.state = "back" /\ c.kind = "decide"
     /\ card' = IF c.with.mount = card.mount /\ card.box # NONE THEN Decided(c) ELSE card
     /\ Refreshed(i, c.place)
     /\ UNCHANGED <<server, wire, place, picked, pane, timer, counters>>

\* A rejected fetch leaves the screen as it is, but for the search behind the timer,
\* which finds nothing then; a handler that throws does not refresh.
Failure(i) ==
  LET c == calls[i]
  IN /\ c.state = "failed"
     /\ calls' = RemoveAt(calls, i)
     /\ results' = IF c.kind = "typed" THEN {} ELSE results
     /\ pane' = IF c.kind = "get" THEN NONE ELSE pane
     /\ card' = IF c.kind = "decide" /\ c.with.mount = card.mount /\ card.box # NONE
                  THEN Undecided(c) ELSE card
     /\ stale' = (stale \/ c.kind \in {"list", "search", "typed"})
     /\ UNCHANGED <<server, wire, place, messages, seen, picked, timer, counters>>

Lost(i) ==
  /\ calls[i].state \in {"sent", "back"} /\ faults < MaxFaults
  /\ calls' = [calls EXCEPT ![i].state = "failed"]
  /\ faults' = faults + 1
  /\ UNCHANGED <<server, wire, place, shown, picked, pane, timer, card, ops>>

\* The stream breaks with what was on it; the browser opens it again by itself.
StreamBreaks ==
  /\ stream = "up" /\ faults < MaxFaults
  /\ stream' = "opening" /\ events' = <<>>
  /\ stale' = (stale \/ \E i \in DOMAIN events : events[i] = place.box)
  /\ faults' = faults + 1
  /\ UNCHANGED <<server, place, messages, results, seen, picked, pane, timer, card,
                 calls, ops>>

-----------------------------------------------------------------------------
(* App.tsx once the mailboxes have come: the inbox of one is being fetched. *)
WebmailInit ==
  /\ mail \in [Msgs -> [folder : {"inbox", "quarantine", "coming"}, read : {FALSE}]]
  /\ decided = {}
  /\ stream = "opening" /\ events = <<>>
  /\ \E b \in Boxes : place = [box |-> b, folder |-> "inbox", query |-> FALSE]
  /\ messages = {} /\ results = NONE
  /\ picked = {} /\ pane = NONE /\ timer = FALSE /\ card = NoCard
  /\ calls = <<Fetch(place)>>
  /\ version = 0 /\ seen = 0 /\ stale = FALSE /\ ops = 0 /\ faults = 0

WebmailNext ==
  \/ \E f \in MailFolders \cup {"screener"} : OnFolder(f)
  \/ \E b \in Boxes : OnMailbox(b)
  \/ OnSearchChange \/ OnDoneForNow \/ Debounced \/ AskQueue
  \/ \E r \in Visible : OpenRow(r)
  \/ \E S \in SUBSET Msgs : Pick(S)
  \/ HandleBulk \/ OnRow \/ OnPane \/ OnPurge \/ Decide
  \/ Elsewhere \/ Listen \/ Event \/ StreamBreaks
  \/ \E i \in DOMAIN calls :
       \/ ServeFetch(i) \/ ServeAct(i) \/ Lost(i)
       \/ TakeFetch(i) \/ TakeMessage(i) \/ TakeQueue(i) \/ TakeAct(i) \/ TakeDecide(i)
       \/ Failure(i)

WebmailSpec == WebmailInit /\ [][WebmailNext]_webmailVars

-----------------------------------------------------------------------------
(* Properties *)

Kinds == {"list", "search", "typed", "get", "queue", "act", "decide"}
States == {"sent", "back", "failed"}
CardType ==
  [box : Boxes \cup {NONE}, mount : Nat, queue : Seq(Msgs), idx : Nat \ {0}, busy : BOOLEAN,
   loaded : BOOLEAN, hurried : BOOLEAN]

WebmailTypeOK ==
  /\ mail \in [Msgs -> [folder : MailFolders \cup {"coming", "gone"}, read : BOOLEAN]]
  /\ decided \subseteq Msgs /\ picked \subseteq Msgs
  /\ stream \in {"opening", "up"} /\ events \in Seq(Boxes)
  /\ place \in Places /\ card \in CardType
  /\ messages \subseteq SummaryType /\ (results = NONE \/ results \subseteq SummaryType)
  /\ pane = NONE \/ pane \in [id : Msgs, folder : MailFolders]
  /\ timer \in BOOLEAN /\ stale \in BOOLEAN /\ version \in Nat /\ seen \in Nat
  /\ \A i \in DOMAIN calls :
       /\ calls[i].kind \in Kinds /\ calls[i].place \in Places
       /\ calls[i].state \in States /\ calls[i].ver \in Nat

Quiet ==
  /\ \A i \in DOMAIN calls : calls[i].kind \in {"get", "queue"}
  /\ \A i \in DOMAIN events : events[i] # place.box

\* When nothing is under way the list on the screen is the server's, whatever the
\* owner, another client, new mail and the sweeper did: every handler that changes
\* a message publishes it, and the client listens for all of them. Excepted is what
\* no client could know: a change while the stream was down, a fetch that failed,
\* and answers that overtook each other or came for another place (stale), until
\* the next good one.
ListIsTrue ==
  Quiet /\ ~stale /\ place.folder # "screener" => Visible = Truth(place)

\* The Screener shows one sender after another: those it has passed were decided on,
\* by this client or another one. A decision that failed leaves its card in place.
\* Excepted is a change of mailbox while a decision is under way, which passes over
\* the first sender of the other mailbox.
NobodySkipped ==
  card.loaded /\ ~card.hurried =>
    \A i \in 1 .. card.idx - 1 : i \in DOMAIN card.queue => card.queue[i] \in decided
=============================================================================
