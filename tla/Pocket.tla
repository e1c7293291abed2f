------------------------------- MODULE Pocket -------------------------------
(***************************************************************************)
(* What the mobile app shows: its cached queries and the changes the user  *)
(* makes (hooks/useApi.ts, hooks/useAliases.ts), the screens that mount    *)
(* them, the Screener's cards, and signing out. A change is a mutation: it *)
(* is called, carried out, answered, and its onSuccess invalidates queries. *)
(* Query data is abstracted to the set of this person's changes the server *)
(* had carried out when it read; the Screener's to the senders decided.    *)
(*                                                                         *)
(* The cache is that of react-query (external). An invalidation makes an   *)
(* entry stale; if a screen shows it, it is fetched again in place of the  *)
(* fetch under way, but a first fetch is not replaced. An answer makes the *)
(* entry fresh, whenever it was asked for.                                 *)
(***************************************************************************)
EXTENDS Integers, FiniteSets

CONSTANTS
  Keys,        \* query keys <<kind, mailbox>>, the mailbox ALL for those of the account
  Boxes,       \* mailboxes
  ALL,         \* no mailbox in the key
  Senders,     \* unknown senders, waiting in every mailbox
  Ops,         \* hooks the user calls
  NONE,        \* no entry in the cache
  MaxPersons,  \* bound: people who sign in on this phone
  MaxOps,      \* bound: changes
  MaxFaults    \* bound: calls that fail or whose answer is lost

MailKinds == {"messages", "search", "counts"}
Kinds == MailKinds \cup {"screener", "aliases", "aliasUsage", "forwardTargets"}
Decisions == {"allow", "reject"}
Hooks == Decisions \cup {"change", "allowDomain", "alias", "addTarget", "deleteTarget"}

ASSUME PocketConstantsOK ==
  /\ Keys \subseteq Kinds \X (Boxes \cup {ALL}) /\ ALL \notin Boxes /\ IsFiniteSet(Keys)
  /\ Ops \subseteq Hooks /\ NONE \notin Senders
  /\ {MaxPersons, MaxOps, MaxFaults} \subseteq Nat

VARIABLES
  person,    \* who is signed in, 0 for nobody
  persons,   \* how many have been
  active,    \* activeMailboxId
  shown,     \* keys of the mounted screens
  cache,     \* key -> entry
  done,      \* the server: key -> this person's changes of what the key asks for
  net,       \* mutations under way
  ops,       \* their number so far
  hidden,    \* senders whose card is hidden
  latest,    \* hook -> the mutation its callbacks belong to
  faults,    \* how many calls have failed
  answered,  \* history: key -> the changes whose answer has come
  overtaken  \* history: senders whose decision lost its callbacks to a later one

mail == <<done, net, ops, faults, answered>>
cards == <<hidden, latest, overtaken>>
pocketVars == <<person, persons, active, shown, cache, mail, cards>>

Screener(b) == <<"screener", b>>
KeysOf(kinds) == {k \in Keys : k[1] \in kinds}
-----------------------------------------------------------------------------
(* react-query.                                                            *)

\* has: there are data; late: the data are older than an answered change and count as
\* fresh, over: those under way will be; more: the fetch is for the next page.
EntryType == [who : 0 .. MaxPersons, has : BOOLEAN, data : SUBSET (Senders \cup 1 .. MaxOps),
              stale : BOOLEAN, late : BOOLEAN, fetch : {"none", "sent", "read"},
              got : SUBSET (Senders \cup 1 .. MaxOps), over : BOOLEAN, more : BOOLEAN]

ASSUME NoneIsNoEntry == NONE \notin EntryType

NewEntry ==
  [who |-> person, has |-> FALSE, data |-> {}, stale |-> FALSE, late |-> FALSE,
   fetch |-> "none", got |-> {}, over |-> FALSE, more |-> FALSE]

Fetching(e) == [e EXCEPT !.fetch = "sent", !.got = {}, !.over = FALSE, !.more = FALSE]
Fetched(e) == IF e.fetch = "none" THEN Fetching(e) ELSE e

\* A screen that shows the key is mounted; old: its data are older than staleTime.
Mounted(e, old) ==
  IF e = NONE THEN Fetching(NewEntry)
  ELSE IF ~e.has \/ e.stale \/ old THEN Fetched(e) ELSE e

Refetched(e) ==
  IF e.has \/ e.fetch = "none" THEN Fetching(e) ELSE [e EXCEPT !.over = TRUE]

Invalidated(e, isShown) ==
  IF e = NONE THEN NONE
  ELSE LET s == [e EXCEPT !.stale = e.has, !.late = FALSE]
       IN IF isShown THEN Refetched(s) ELSE [s EXCEPT !.over = s.fetch # "none"]

Invalidate(keys) ==
  cache' = [k \in Keys |-> IF k \in keys THEN Invalidated(cache[k], k \in shown) ELSE cache[k]]

Mount(new) ==
  \E old \in SUBSET new :
    cache' = [k \in Keys |-> IF k \in new THEN Mounted(cache[k], k \in old) ELSE cache[k]]

\* The server reads. The next page leaves the pages before it as they are.
Read(k) ==
  /\ cache[k] # NONE /\ cache[k].fetch = "sent"
  /\ cache' = [cache EXCEPT ![k].fetch = "read",
                            ![k].got = IF cache[k].more THEN cache[k].data ELSE done[k]]
  /\ UNCHANGED <<person, persons, active, shown, mail, cards>>

Arrives(k) ==
  /\ cache[k] # NONE /\ cache[k].fetch = "read"
  /\ cache' = [cache EXCEPT ![k].fetch = "none", ![k].has = TRUE, ![k].data = cache[k].got,
                            ![k].stale = FALSE, ![k].late = cache[k].over, ![k].got = {},
                            ![k].over = FALSE, ![k].more = FALSE]
  /\ UNCHANGED <<person, persons, active, shown, mail, cards>>

\* After its retries.
FetchFails(k) ==
  /\ faults < MaxFaults /\ cache[k] # NONE /\ cache[k].fetch # "none"
  /\ faults' = faults + 1
  /\ cache' = [cache EXCEPT ![k].fetch = "none", ![k].got = {}, ![k].over = FALSE, ![k].more = FALSE]
  /\ UNCHANGED <<person, persons, active, shown, done, net, ops, answered, cards>>

\* gcTime: an entry nobody shows is dropped.
Collected(k) ==
  /\ cache[k] # NONE /\ k \notin shown /\ cache[k].fetch = "none"
  /\ cache' = [cache EXCEPT ![k] = NONE]
  /\ UNCHANGED <<person, persons, active, shown, mail, cards>>
-----------------------------------------------------------------------------
(* The screens.                                                            *)

Open(k) ==
  /\ person # 0 /\ k \notin shown /\ k[2] \in {active, ALL}
  /\ shown' = shown \cup {k} /\ Mount({k})
  /\ UNCHANGED <<person, persons, active, mail, cards>>

\* The tab of the Screener stays mounted.
Close(k) ==
  /\ k \in shown /\ k[1] # "screener"
  /\ shown' = shown \ {k}
  /\ UNCHANGED <<person, persons, active, cache, mail, cards>>

SetActiveMailboxId(b) ==
  /\ person # 0 /\ b # active
  /\ active' = b
  /\ shown' = {k \in shown : k[2] = ALL} \cup {k \in Keys : k[2] = b /\ <<k[1], active>> \in shown}
  /\ Mount(shown' \ shown)
  /\ UNCHANGED <<person, persons, mail, cards>>

\* Pull to refresh.
OnRefresh(k) ==
  /\ k \in shown /\ cache[k].has
  /\ cache' = [cache EXCEPT ![k] = Refetched(@)]
  /\ hidden' = IF k[1] = "screener" THEN {} ELSE hidden
  /\ UNCHANGED <<person, persons, active, shown, mail, latest, overtaken>>

\* The end of the list is reached: fetchNextPage replaces the fetch under way.
OnEndReached(k) ==
  /\ k \in shown /\ k[1] = "messages"
  /\ cache[k].has /\ ~cache[k].more
  /\ cache' = [cache EXCEPT ![k].fetch = "sent", ![k].more = TRUE, ![k].got = {},
                            ![k].over = cache[k].stale \/ cache[k].late]
  /\ UNCHANGED <<person, persons, active, shown, mail, cards>>

\* A 402 answer puts TrialEndedScreen in place of every screen.
Locked ==
  /\ shown # {}
  /\ shown' = {} /\ hidden' = {}
  /\ UNCHANGED <<person, persons, active, cache, mail, latest, overtaken>>

\* Mutant of Cleared: the cache is kept.
ClearedNot == cache
Cleared == [k \in Keys |-> NONE]

\* Signed out, or a 401 answer.
LoggedOut ==
  /\ person # 0
  /\ person' = 0 /\ shown' = {} /\ hidden' = {} /\ cache' = Cleared
  /\ UNCHANGED <<persons, active, mail, latest, overtaken>>

SignedIn ==
  /\ person = 0 /\ persons < MaxPersons
  /\ persons' = persons + 1 /\ person' = persons + 1
  /\ done' = [k \in Keys |-> {}] /\ answered' = [k \in Keys |-> {}]
  /\ UNCHANGED <<active, shown, cache, net, ops, faults, cards>>
-----------------------------------------------------------------------------
(* Changes. change: useSetRead, useSetStar, useMove, useDeleteForever,     *)
(* useTrustSender, usePurgeQuarantine, useSend; alias: useCreateAlias,     *)
(* usePatchAlias, useSetAliasBlocked, useDeleteAlias.                      *)

\* What the server's answers depend on; what a change does to the Screener or to an
\* opened message is left out.
Affected(op, b) ==
  IF op = "change" THEN MailKinds \X {b}
  ELSE IF op \in Decisions \cup {"allowDomain"} THEN (MailKinds \cup {"screener"}) \X {b}
  ELSE IF op = "alias" THEN {<<"aliases", b>>, <<"aliasUsage", ALL>>}
  ELSE IF op = "addTarget" THEN {<<"forwardTargets", ALL>>}
  ELSE KeysOf({"aliases"}) \cup {<<"forwardTargets", ALL>>}

\* Mutant of InvalidateMail: the lists are left to their staleTime.
InvalidateMailCounts(b) == KeysOf({"counts"})
InvalidateMail(b) == KeysOf({"messages", "search"}) \cup ({<<"counts", b>>} \cap Keys)

RefreshAliases == KeysOf({"aliases", "aliasUsage"})

OnSuccess(op, b) ==
  IF op = "change" THEN InvalidateMail(b)
  ELSE IF op \in Decisions \cup {"allowDomain"} THEN InvalidateMail(b) \cup ({Screener(b)} \cap Keys)
  ELSE IF op = "alias" THEN RefreshAliases
  ELSE KeysOf({"forwardTargets"}) \cup (IF op = "deleteTarget" THEN RefreshAliases ELSE {})

Mutation(op, s) ==
  /\ person # 0 /\ ops < MaxOps
  /\ ops' = ops + 1
  /\ net' = net \cup {[no |-> ops + 1, op |-> op, box |-> active, sender |-> s, who |-> person,
                       state |-> "sent"]}
  /\ UNCHANGED <<person, persons, active, shown, cache, done, faults, answered>>

Mutate(op) == op \in Ops \ Decisions /\ Mutation(op, NONE) /\ UNCHANGED cards

Visible ==
  IF Screener(active) \in shown /\ cache[Screener(active)].has
  THEN Senders \ (cache[Screener(active)].data \cup hidden) ELSE {}

\* A card's button: the card is hidden, and the hook's callbacks are now this call's.
Decide(op, s) ==
  /\ op \in Ops \cap Decisions /\ s \in Visible
  /\ Mutation(op, s)
  /\ hidden' = hidden \cup {s}
  /\ latest' = [latest EXCEPT ![op] = ops + 1]
  /\ overtaken' = (overtaken \cup {c.sender : c \in {d \in net : d.op = op}}) \ {s}

\* The server carries a call out, or answers with an error; or its answer is lost.
Served(c) ==
  /\ c.state = "sent"
  /\ net' = (net \ {c}) \cup {[c EXCEPT !.state = "done"]}
  /\ done' = [k \in Keys |->
                IF c.who # person \/ k \notin Affected(c.op, c.box) THEN done[k]
                ELSE IF k[1] # "screener" THEN done[k] \cup {c.no}
                ELSE IF c.op = "allowDomain" THEN Senders ELSE done[k] \cup {c.sender}]
  /\ UNCHANGED <<person, persons, active, shown, cache, ops, faults, answered, cards>>

Broken(c) ==
  /\ c.state # "failed" /\ faults < MaxFaults
  /\ faults' = faults + 1
  /\ net' = (net \ {c}) \cup {[c EXCEPT !.state = "failed"]}
  /\ UNCHANGED <<person, persons, active, shown, cache, done, ops, answered, cards>>

Succeeds(c) ==
  /\ c.state = "done"
  /\ net' = net \ {c}
  /\ Invalidate(OnSuccess(c.op, c.box))
  /\ answered' = [k \in Keys |-> IF c.who = person /\ k \in Affected(c.op, c.box)
                                 THEN answered[k] \cup {c.no} ELSE answered[k]]
  /\ UNCHANGED <<person, persons, active, shown, done, ops, faults, cards>>

\* Mutant of ShownAgain: the card comes back when the list is fetched next.
ShownNever(c) == hidden
ShownAgain(c) ==
  IF c.op \in Decisions /\ latest[c.op] = c.no THEN hidden \ {c.sender} ELSE hidden

Fails(c) ==
  /\ c.state = "failed"
  /\ net' = net \ {c}
  /\ hidden' = ShownAgain(c)
  /\ UNCHANGED <<person, persons, active, shown, cache, done, ops, faults, answered, latest, overtaken>>
-----------------------------------------------------------------------------
PocketInit ==
  /\ person = 0 /\ persons = 0 /\ active \in Boxes /\ shown = {}
  /\ cache = [k \in Keys |-> NONE]
  /\ done = [k \in Keys |-> {}] /\ answered = [k \in Keys |-> {}]
  /\ net = {} /\ ops = 0 /\ faults = 0
  /\ hidden = {} /\ latest = [op \in Decisions |-> 0] /\ overtaken = {}

Queries == \E k \in Keys : Read(k) \/ Arrives(k) \/ FetchFails(k) \/ Collected(k)
Screens ==
  \/ \E k \in Keys : Open(k) \/ Close(k) \/ OnRefresh(k) \/ OnEndReached(k)
  \/ \E b \in Boxes : SetActiveMailboxId(b)
  \/ Locked \/ LoggedOut \/ SignedIn
Changes ==
  \/ \E op \in Hooks : Mutate(op) \/ \E s \in Senders : Decide(op, s)
  \/ \E c \in net : Served(c) \/ Broken(c) \/ Succeeds(c) \/ Fails(c)

PocketNext == Queries \/ Screens \/ Changes
PocketSpec == PocketInit /\ [][PocketNext]_pocketVars
-----------------------------------------------------------------------------
(* Properties *)

\* Types; the mounted screens have their entries and show the active mailbox.
PocketTypeOK ==
  /\ person \in {0, persons} /\ persons \in 0 .. MaxPersons /\ active \in Boxes
  /\ shown \subseteq Keys /\ (person = 0 => shown = {})
  /\ \A k \in shown : cache[k] # NONE /\ k[2] \in {active, ALL}
  /\ \A k \in Keys : cache[k] = NONE \/ cache[k] \in EntryType
  /\ ops \in 0 .. MaxOps /\ faults \in 0 .. MaxFaults
  /\ hidden \subseteq Senders /\ overtaken \subseteq Senders
  /\ \A op \in Decisions : latest[op] \in 0 .. ops

\* What a screen shows was fetched for the person who is signed in (RootNavigator.tsx:
\* "Never show one account's cached mail to the next person"), and, once its fetches are
\* done, with every change of theirs that was answered; but not if a fetch that was not
\* replaced, or a next page, came in between.
OwnMailShown ==
  \A k \in shown :
    LET e == cache[k]
    IN e.has => /\ e.who = person
                /\ (e.fetch = "none" /\ ~e.stale /\ ~e.late /\ k[1] # "screener"
                      => answered[k] \subseteq e.data)

\* A card that is hidden is of a sender whose decision is under way or was carried out in
\* some mailbox ("bring it back if the request fails", ScreenerScreen.tsx), unless another
\* decision took its callbacks.
HiddenComesBack ==
  \A s \in hidden :
    \/ \E c \in net : c.sender = s
    \/ \E k \in KeysOf({"screener"}) : s \in done[k]
    \/ s \in overtaken

\* Of the mailbox on the screen this is not so: hidden is not kept by mailbox, and a
\* sender decided in one is hidden in the other.
HiddenIsDecidedHere ==
  Screener(active) \in shown =>
    \A s \in hidden : (\E c \in net : c.sender = s) \/ s \in done[Screener(active)] \/ s \in overtaken
=============================================================================
