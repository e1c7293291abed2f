--------------------------- MODULE Connections_proofs --------------------------
(***************************************************************************)
(* Proofs about Connections, for every number of ticks, callbacks,         *)
(* messages and consents.                                                  *)
(*                                                                         *)
(* NothingSkipped speaks of the stored cursor only. A poll carries cursors *)
(* of its own across its awaits: the one its tick read, and the one it     *)
(* will store, before which there are messages that it still has to hand   *)
(* to ingest. SkipInv says what each of them stands for.                   *)
(***************************************************************************)
EXTENDS Connections, FiniteSetTheorems, TLAPS

\* What a poll knows between two awaits: once it has read the tokens it has those of a
\* grant, and it stores no cursor that the provider has not given.
PollOK(p) ==
  /\ p.next <= head
  /\ p.pc \in {"fresh", "fetch"} => p.grant # 0

Typed ==
  /\ TypeOK
  /\ nextId \in Nat
  /\ \A t \in Ticks : PollOK(poll[t])
  /\ \A r \in Requests : cb[r] # NoCallback => cb[r].grant # 0

LEMMA ConstantsTyped == /\ MaxMsgs \in Nat /\ MaxGrants \in Nat /\ MaxCrashes \in Nat
                        /\ IsFiniteSet(Ticks) /\ IsFiniteSet(Requests)
  BY ConnectionsConstantsOK

LEMMA TypedInit == Init => Typed
<1> SUFFICES ASSUME Init PROVE Typed
  OBVIOUS
<1>1. NoPoll \in PollType /\ NoPoll.id = 0 /\ NoPoll.next = 0 /\ NoPoll.pc = "idle"
  BY ConstantsTyped DEF NoPoll, PollType
<1>2. poll \in [Ticks -> PollType] /\ \A t \in Ticks : poll[t].id < nextId /\ PollOK(poll[t])
  BY <1>1 DEF Init, PollOK
<1>3. NoCallback \in [cursor : 0 .. head, grant : 0 .. granted]
  BY DEF Init, NoCallback
<1>4. /\ cb \in [Requests -> [cursor : 0 .. head, grant : 0 .. granted]] /\ handed \in [Msgs -> Nat]
      /\ nextId \in Nat
      /\ \A r \in Requests : cb[r] = NoCallback
  BY <1>3 DEF Init
<1>5. TypeOK
  <2>1. mailbox \in BOOLEAN /\ conn \in ConnType \cup {None} /\ conn = None
    BY DEF Init
  <2>2. /\ head = 0 /\ removed = {} /\ revoked = {} /\ granted = 0 /\ seed = 0 /\ stored = 0 /\ crashes = 0
    BY DEF Init
  <2> QED BY <1>2, <1>4, <2>1, <2>2, ConstantsTyped DEF TypeOK
<1> QED BY <1>2, <1>4, <1>5 DEF Typed
-----------------------------------------------------------------------------
(* Types.                                                                  *)

\* A renewed or new row is typed.
LEMMA UpsertedType ==
  ASSUME Typed, NEW r \in Requests, cb[r] # NoCallback
  PROVE  /\ Upserted(r) \in ConnType
         /\ Upserted(r).cursor <= head
         /\ Upserted(r).id < (IF conn = None THEN nextId + 1 ELSE nextId)
<1>1. cb[r].cursor \in 0 .. head /\ cb[r].grant \in 1 .. granted
  BY DEF Typed, TypeOK
<1>2. cb[r].cursor \in 0 .. MaxMsgs /\ cb[r].grant \in Grants
  BY <1>1, ConstantsTyped DEF Typed, TypeOK, Grants
<1>3. CASE conn = None
  BY <1>1, <1>2, <1>3 DEF Upserted, ConnType, Typed
<1>4. CASE conn # None
  <2>1. conn \in ConnType /\ conn.id < nextId
    BY <1>4 DEF Typed, TypeOK
  <2>2. Upserted(r) = [conn EXCEPT !.grant = cb[r].grant, !.cursor = cb[r].cursor, !.status = "active"]
    BY <1>4 DEF Upserted
  <2>3. /\ Upserted(r).id = conn.id /\ Upserted(r).cursor = cb[r].cursor
        /\ Upserted(r) = [id |-> conn.id, grant |-> cb[r].grant, cursor |-> cb[r].cursor, status |-> "active"]
    BY <2>1, <2>2 DEF ConnType
  <2> QED BY <1>1, <1>2, <1>4, <2>1, <2>3 DEF ConnType
<1> QED BY <1>3, <1>4

\* The row that a poll leaves behind.
ConnOK(c) == c \in ConnType \cup {None} /\ (c # None => mailbox /\ c.id < nextId /\ c.cursor <= head)

LEMMA NoPollType ==
  ASSUME Typed, NEW t \in Ticks
  PROVE  NoPoll \in PollType /\ PollOK(NoPoll) /\ NoPoll.id < nextId
<1>1. poll[t].id \in Nat /\ poll[t].id < nextId /\ nextId \in Nat /\ head \in Nat
  BY ConstantsTyped DEF Typed, TypeOK, PollType
<1>2. NoPoll \in PollType
  BY ConstantsTyped DEF NoPoll, PollType
<1> QED BY <1>1, <1>2 DEF NoPoll, PollOK

\* A step of a tick changes its poll, and perhaps the row and what was handed to ingest.
LEMMA TypedMove ==
  ASSUME Typed, NEW t \in Ticks, NEW p \in PollType, PollOK(p), p.id < nextId,
         poll' = [poll EXCEPT ![t] = p], ConnOK(conn'), handed' \in [Msgs -> Nat],
         UNCHANGED <<provider, mailbox, nextId, cb, seed, stored, crashes>>
  PROVE  Typed'
<1>1. poll' \in [Ticks -> PollType] /\ \A u \in Ticks : poll'[u].id < nextId /\ PollOK(poll'[u])
  BY DEF Typed, TypeOK
<1>2. /\ head' = head /\ removed' = removed /\ revoked' = revoked /\ granted' = granted
      /\ mailbox' = mailbox /\ nextId' = nextId /\ cb' = cb /\ seed' = seed /\ stored' = stored
      /\ crashes' = crashes
  BY DEF provider
<1>3. \A u \in Ticks : PollOK(poll[u])'
  BY <1>1, <1>2 DEF PollOK
<1>4. TypeOK'
  BY <1>1, <1>2 DEF Typed, TypeOK, ConnOK
<1> QED BY <1>2, <1>3, <1>4 DEF Typed

LEMMA TypedTicks ==
  ASSUME Typed, NEW t \in Ticks, TickStarts(t) \/ Step(t)
  PROVE  Typed'
<1>1. /\ poll[t] \in PollType /\ PollOK(poll[t]) /\ poll[t].id < nextId
      /\ head \in 0 .. MaxMsgs /\ MaxMsgs \in Nat /\ handed \in [Msgs -> Nat] /\ ConnOK(conn)
  BY ConstantsTyped DEF Typed, TypeOK, ConnOK
<1>2. NoPoll \in PollType /\ PollOK(NoPoll) /\ NoPoll.id < nextId
  BY NoPollType
<1>3. CASE TickStarts(t)
  <2> DEFINE p == [NoPoll EXCEPT !.pc = "due", !.id = conn.id, !.cursor = conn.cursor]
  <2>1. conn \in ConnType /\ conn.id < nextId
    BY <1>1, <1>3 DEF TickStarts, Due, ConnOK
  <2>2. p \in PollType /\ p.id = conn.id /\ PollOK(p)
    BY <1>1, <1>2, <2>1 DEF PollType, PollOK, ConnType
  <2> HIDE DEF p
  <2>3. poll' = [poll EXCEPT ![t] = p]
    BY <1>3 DEF TickStarts, p
  <2>4. UNCHANGED <<provider, mailbox, nextId, cb, conn, handed, seed, stored, crashes>>
    BY <1>3 DEF TickStarts
  <2> QED BY <1>1, <2>1, <2>2, <2>3, <2>4, TypedMove
<1>4. CASE TokensRead(t)
  <2> DEFINE p == IF mailbox /\ Mine(t) THEN [poll[t] EXCEPT !.pc = "fresh", !.grant = conn.grant] ELSE NoPoll
  <2>1. ASSUME mailbox /\ Mine(t) PROVE p \in PollType /\ PollOK(p) /\ p.id < nextId
    <3>1. conn \in ConnType
      BY <1>1, <2>1 DEF Mine, ConnOK
    <3>2. conn.grant \in 0 .. MaxGrants /\ conn.grant # 0
      BY <3>1, ConstantsTyped DEF ConnType, Grants
    <3>3. p = [poll[t] EXCEPT !.pc = "fresh", !.grant = conn.grant]
      BY <2>1
    <3> HIDE DEF p
    <3>4. p \in PollType /\ p.grant = conn.grant /\ p.id = poll[t].id /\ p.next = poll[t].next
      BY <1>1, <3>2, <3>3 DEF PollType
    <3> QED BY <1>1, <3>2, <3>4 DEF PollOK
  <2>2. ASSUME ~(mailbox /\ Mine(t)) PROVE p \in PollType /\ PollOK(p) /\ p.id < nextId
    <3>1. p = NoPoll
      BY <2>2
    <3> QED BY <1>2, <3>1
  <2>3. p \in PollType /\ PollOK(p) /\ p.id < nextId
    BY <2>1, <2>2
  <2> HIDE DEF p
  <2>4. poll' = [poll EXCEPT ![t] = p]
    BY <1>4 DEF TokensRead, p
  <2>5. UNCHANGED <<provider, mailbox, nextId, cb, conn, handed, seed, stored, crashes>>
    BY <1>4 DEF TokensRead, history
  <2> QED BY <1>1, <2>3, <2>4, <2>5, TypedMove
<1>5. CASE EnsureFresh(t, FALSE) \/ EnsureFresh(t, TRUE)
  <2> DEFINE p == [poll[t] EXCEPT !.pc = "fetch"]
  <2>1. p \in PollType /\ PollOK(p) /\ p.id < nextId
    BY <1>1, <1>5 DEF EnsureFresh, PollType, PollOK
  <2> HIDE DEF p
  <2>2. poll' = [poll EXCEPT ![t] = p]
    BY <1>5 DEF EnsureFresh, p
  <2>3. UNCHANGED <<provider, mailbox, nextId, cb, handed, seed, stored, crashes>>
    BY <1>5 DEF EnsureFresh, history
  <2>4. poll[t].grant \in Grants
    BY <1>1, <1>5, ConstantsTyped DEF EnsureFresh, PollType, PollOK, Grants
  <2>5. ConnOK(conn')
    BY <1>1, <1>5, <2>4 DEF EnsureFresh, Mine, ConnOK, ConnType
  <2> QED BY <1>1, <2>1, <2>2, <2>3, <2>5, TypedMove
<1>6. CASE Fetches(t)
  <2> DEFINE p == [poll[t] EXCEPT !.pc = "ingest", !.msgs = Listed(t), !.next = head]
  <2>1. Listed(t) \subseteq Msgs
    BY <1>1 DEF Listed, Msgs, PollType
  <2>2. p \in PollType /\ p.id = poll[t].id /\ p.next = head /\ p.pc = "ingest"
    BY <1>1, <2>1 DEF PollType
  <2> HIDE DEF p
  <2>3. poll' = [poll EXCEPT ![t] = p]
    BY <1>6 DEF Fetches, p
  <2>4. UNCHANGED <<provider, mailbox, nextId, cb, conn, handed, seed, stored, crashes>>
    BY <1>6 DEF Fetches, history
  <2>5. PollOK(p) /\ p.id < nextId
    BY <1>1, <2>2 DEF PollOK
  <2> QED BY <1>1, <2>2, <2>3, <2>4, <2>5, TypedMove
<1>7. CASE PollFails(t)
  <2>1. /\ poll' = [poll EXCEPT ![t] = NoPoll]
        /\ UNCHANGED <<provider, mailbox, nextId, cb, conn, handed, seed, stored, crashes>>
    BY <1>7 DEF PollFails, history
  <2> QED BY <1>1, <1>2, <2>1, TypedMove
<1>8. CASE Refused(t)
  <2>1. /\ poll' = [poll EXCEPT ![t] = NoPoll]
        /\ UNCHANGED <<provider, mailbox, nextId, cb, handed, seed, stored, crashes>>
    BY <1>8 DEF Refused, history
  <2>2. ConnOK(conn')
    BY <1>1, <1>8 DEF Refused, Mine, ConnOK, ConnType
  <2> QED BY <1>1, <1>2, <2>1, <2>2, TypedMove
<1>9. CASE Ingests(t)
  <2>1. PICK m \in poll[t].msgs : /\ handed' = [handed EXCEPT ![m] = @ + 1]
                                  /\ poll' = [poll EXCEPT ![t] = [poll[t] EXCEPT !.msgs = @ \ {m}]]
    BY <1>9 DEF Ingests
  <2> DEFINE p == [poll[t] EXCEPT !.msgs = @ \ {m}]
  <2>2. p \in PollType /\ PollOK(p) /\ p.id < nextId
    BY <1>1 DEF PollType, PollOK
  <2>3. handed' \in [Msgs -> Nat]
    BY <1>1, <2>1 DEF PollType
  <2> HIDE DEF p
  <2>4. poll' = [poll EXCEPT ![t] = p]
    BY <2>1 DEF p
  <2>5. UNCHANGED <<provider, mailbox, nextId, cb, conn, seed, stored, crashes>>
    BY <1>9 DEF Ingests
  <2> QED BY <1>1, <2>2, <2>3, <2>4, <2>5, TypedMove
<1>10. CASE Records(t)
  <2>1. /\ poll' = [poll EXCEPT ![t] = NoPoll]
        /\ UNCHANGED <<provider, mailbox, nextId, cb, handed, seed, stored, crashes>>
    BY <1>10 DEF Records, history
  <2>2. Cursor(t) \in 0 .. MaxMsgs /\ Cursor(t) <= head
    BY <1>1 DEF Cursor, PollOK, PollType
  <2>3. ConnOK(conn')
    BY <1>1, <1>10, <2>2 DEF Records, Mine, ConnOK, ConnType
  <2> QED BY <1>1, <1>2, <2>1, <2>3, TypedMove
<1> QED BY <1>3, <1>4, <1>5, <1>6, <1>7, <1>8, <1>9, <1>10 DEF Step

LEMMA TypedStep == Typed /\ [Next]_vars => Typed'
<1> SUFFICES ASSUME Typed, [Next]_vars PROVE Typed'
  OBVIOUS
<1>0. MaxMsgs \in Nat /\ MaxGrants \in Nat /\ MaxCrashes \in Nat
  BY ConstantsTyped
<1>1. CASE Arrives
  <2>1. /\ head \in Nat /\ head' = head + 1 /\ head' \in 0 .. MaxMsgs
        /\ UNCHANGED <<removed, revoked, granted, mailbox, conn, nextId, cb, poll, handed, seed, stored, crashes>>
    BY <1>0, <1>1 DEF Arrives, Typed, TypeOK, history
  <2>2. removed \subseteq 1 .. head' /\ seed \in 0 .. head' /\ (conn # None => conn.cursor <= head')
    BY <2>1 DEF Typed, TypeOK, ConnType
  <2>3. cb \in [Requests -> [cursor : 0 .. head', grant : 0 .. granted]]
    <3>1. \A r \in Requests : cb[r] \in [cursor : 0 .. head', grant : 0 .. granted]
      BY <2>1 DEF Typed, TypeOK
    <3> QED BY <3>1 DEF Typed, TypeOK
  <2>4. \A t \in Ticks : poll[t].next <= head'
    BY <2>1 DEF Typed, TypeOK, PollOK, PollType
  <2>5. TypeOK'
    BY <2>1, <2>2, <2>3 DEF Typed, TypeOK
  <2>6. \A t \in Ticks : PollOK(poll[t])'
    BY <2>1, <2>4 DEF Typed, PollOK
  <2> QED BY <2>1, <2>5, <2>6 DEF Typed
<1>2. CASE Restart
  BY <1>0, <1>2 DEF Restart, Typed, TypeOK, PollOK, PollType, NoPoll, NoCallback, Msgs, provider
<1>3. ASSUME NEW m \in Msgs, Removes(m) PROVE Typed'
  BY <1>0, <1>3 DEF Removes, Msgs, Typed, TypeOK, PollOK, history
<1>4. ASSUME NEW g \in Grants, Revokes(g) PROVE Typed'
  BY <1>0, <1>4 DEF Revokes, Grants, Typed, TypeOK, PollOK, history
<1>5. ASSUME NEW r \in Requests, CallbackIdentity(r) PROVE Typed'
  BY <1>0, <1>5 DEF CallbackIdentity, NoCallback, Typed, TypeOK, PollOK, history
<1>6. ASSUME NEW r \in Requests, CallbackCommits(r) PROVE Typed'
  <2>1. /\ conn' \in ConnType /\ conn'.cursor <= head /\ conn'.id < nextId'
        /\ nextId' \in Nat /\ nextId <= nextId' /\ mailbox'
    BY <1>6, UpsertedType DEF CallbackCommits, Typed
  <2>2. /\ cb' \in [Requests -> [cursor : 0 .. head, grant : 0 .. granted]]
        /\ \A q \in Requests : cb'[q] # NoCallback => cb'[q].grant # 0
    BY <1>6 DEF CallbackCommits, NoCallback, Typed, TypeOK
  <2>3. seed' \in 0 .. head /\ stored' \in 0 .. granted
    BY <1>6 DEF CallbackCommits, Typed, TypeOK
  <2> QED BY <1>6, <2>1, <2>2, <2>3 DEF CallbackCommits, provider, Typed, TypeOK, PollOK, PollType
<1>7. ASSUME NEW w \in BOOLEAN, Disconnect(w) PROVE Typed'
  BY <1>0, <1>7 DEF Disconnect, Typed, TypeOK, PollOK, provider, history
<1>8. ASSUME NEW t \in Ticks, TickStarts(t) \/ Step(t) PROVE Typed'
  BY <1>8, TypedTicks
<1>9. CASE UNCHANGED vars
  BY <1>9 DEF vars, provider, history, Typed, TypeOK, PollOK
<1> QED BY <1>1, <1>2, <1>3, <1>4, <1>5, <1>6, <1>7, <1>8, <1>9 DEF Next

\* The state of the poller is well typed, whatever ticks, callbacks and restarts do.
THEOREM ConnectionsTyped == Spec => []TypeOK
<1>1. Typed => TypeOK
  BY DEF Typed
<1> QED BY <1>1, TypedInit, TypedStep, PTL DEF Spec
-----------------------------------------------------------------------------
(* No message is jumped over.                                              *)

\* The message was there when the owner connected, or has come in.
Brought(m) == m <= seed \/ handed[m] > 0

SkipInv ==
  /\ NothingSkipped
  /\ \A t \in Ticks : poll[t].pc # "idle" => \A m \in 1 .. poll[t].cursor : Brought(m)
  /\ \A t \in Ticks : poll[t].pc = "ingest" => \A m \in 1 .. poll[t].next : Brought(m) \/ m \in poll[t].msgs

LEMMA CursorsInMsgs ==
  ASSUME Typed
  PROVE  /\ conn # None => 1 .. conn.cursor \subseteq Msgs
         /\ \A t \in Ticks : 1 .. poll[t].cursor \subseteq Msgs /\ 1 .. poll[t].next \subseteq Msgs
         /\ \A r \in Requests : cb[r].cursor \in Nat
         /\ 1 .. head \subseteq Msgs /\ head \in Nat /\ seed \in Nat
<1>1. conn # None => conn.cursor \in 0 .. MaxMsgs
  BY DEF Typed, TypeOK, ConnType
<1>2. \A t \in Ticks : poll[t].cursor \in 0 .. MaxMsgs /\ poll[t].next \in 0 .. MaxMsgs
  BY DEF Typed, TypeOK, PollType
<1> QED BY <1>1, <1>2, ConstantsTyped DEF Typed, TypeOK, Msgs

\* What has come in stays: the cursors that stand for it may be kept across awaits.
LEMMA BroughtStays ==
  ASSUME Typed, [Next]_vars, NEW m \in Msgs, Brought(m)
  PROVE  Brought(m)'
<1>1. m \in Nat /\ seed \in Nat /\ handed \in [Msgs -> Nat] /\ \A r \in Requests : cb[r].cursor \in Nat
  BY CursorsInMsgs DEF Typed, TypeOK, Msgs
<1>2. ASSUME NEW r \in Requests, CallbackCommits(r) PROVE Brought(m)'
  BY <1>1, <1>2 DEF CallbackCommits, Brought
<1>3. ASSUME NEW t \in Ticks, Ingests(t) PROVE Brought(m)'
  <2>1. PICK n \in poll[t].msgs : handed' = [handed EXCEPT ![n] = @ + 1]
    BY <1>3 DEF Ingests
  <2>2. seed' = seed
    BY <1>3 DEF Ingests
  <2>3. handed'[m] = handed[m] \/ handed'[m] = handed[m] + 1
    BY <1>1, <2>1
  <2> QED BY <1>1, <2>2, <2>3 DEF Brought
<1>4. CASE UNCHANGED <<seed, handed>>
  BY <1>4 DEF Brought
<1> QED
  BY <1>2, <1>3, <1>4 DEF Next, Arrives, Restart, Removes, Revokes, CallbackIdentity, Disconnect, TickStarts,
     Step, TokensRead, EnsureFresh, Fetches, PollFails, Refused, Records, history, vars

\* A poll that moves from one await to the next, with what its cursors stand for.
LEMMA SkipMove ==
  ASSUME Typed, SkipInv, [Next]_vars, NEW t \in Ticks, NEW p,
         poll' = [poll EXCEPT ![t] = p],
         p.pc # "idle" => \A m \in 1 .. p.cursor : m \in Msgs /\ Brought(m)',
         p.pc = "ingest" => \A m \in 1 .. p.next : m \in Msgs /\ (Brought(m)' \/ m \in p.msgs),
         conn' # None => \A m \in 1 .. conn'.cursor : m \in Msgs /\ Brought(m)'
  PROVE  SkipInv'
<1>1. \A u \in Ticks : u # t => poll'[u] = poll[u]
  BY DEF Typed, TypeOK
<1>2. poll'[t] = p
  BY DEF Typed, TypeOK
<1>3. \A u \in Ticks : poll'[u].pc # "idle" => \A m \in 1 .. poll'[u].cursor : Brought(m)'
  BY <1>1, <1>2, CursorsInMsgs, BroughtStays DEF SkipInv
<1>4. \A u \in Ticks : poll'[u].pc = "ingest" => \A m \in 1 .. poll'[u].next : Brought(m)' \/ m \in poll'[u].msgs
  BY <1>1, <1>2, CursorsInMsgs, BroughtStays DEF SkipInv
<1>5. NothingSkipped'
  BY DEF NothingSkipped, Brought
<1> QED BY <1>3, <1>4, <1>5 DEF SkipInv

LEMMA SkipTicks ==
  ASSUME Typed, SkipInv, [Next]_vars, NEW t \in Ticks, TickStarts(t) \/ Step(t)
  PROVE  SkipInv'
<1>0. /\ conn # None => \A m \in 1 .. conn.cursor : m \in Msgs /\ Brought(m) /\ Brought(m)'
      /\ poll[t].pc # "idle" => \A m \in 1 .. poll[t].cursor : m \in Msgs /\ Brought(m) /\ Brought(m)'
      /\ \A m \in 1 .. poll[t].next : m \in Msgs
      /\ NoPoll.pc = "idle" /\ NoPoll \in PollType
  BY CursorsInMsgs, BroughtStays, NoPollType DEF SkipInv, NothingSkipped, Brought, NoPoll
<1>1. poll[t] \in PollType
  BY DEF Typed, TypeOK
<1>2. CASE TickStarts(t)
  <2> DEFINE p == [NoPoll EXCEPT !.pc = "due", !.id = conn.id, !.cursor = conn.cursor]
  <2>1. conn # None /\ conn' = conn /\ poll' = [poll EXCEPT ![t] = p]
    BY <1>2 DEF TickStarts, Due
  <2>2. p.pc = "due" /\ p.cursor = conn.cursor
    BY <1>0 DEF PollType
  <2> HIDE DEF p
  <2> QED BY <1>0, <2>1, <2>2, SkipMove
<1>3. CASE TokensRead(t)
  <2> DEFINE p == IF mailbox /\ Mine(t) THEN [poll[t] EXCEPT !.pc = "fresh", !.grant = conn.grant] ELSE NoPoll
  <2>1. poll[t].pc # "idle" /\ conn' = conn /\ poll' = [poll EXCEPT ![t] = p]
    BY <1>3 DEF TokensRead
  <2>2. p.pc = "idle" \/ (p.pc = "fresh" /\ p.cursor = poll[t].cursor)
    <3> DEFINE q == [poll[t] EXCEPT !.pc = "fresh", !.grant = conn.grant]
    <3>1. p = NoPoll \/ p = q
      OBVIOUS
    <3>2. q.pc = "fresh" /\ q.cursor = poll[t].cursor
      BY <1>1 DEF PollType
    <3> HIDE DEF p, q
    <3> QED BY <1>0, <3>1, <3>2
  <2> HIDE DEF p
  <2> QED BY <1>0, <2>1, <2>2, SkipMove
<1>4. CASE EnsureFresh(t, FALSE) \/ EnsureFresh(t, TRUE)
  <2> DEFINE p == [poll[t] EXCEPT !.pc = "fetch"]
  <2>1. poll[t].pc # "idle" /\ poll' = [poll EXCEPT ![t] = p]
    BY <1>4 DEF EnsureFresh
  <2>2. p.pc = "fetch" /\ p.cursor = poll[t].cursor
    BY <1>1 DEF PollType
  <2>3. conn' # None => conn # None /\ conn'.cursor = conn.cursor
    BY <1>4 DEF EnsureFresh, Mine, Typed, TypeOK, ConnType
  <2> HIDE DEF p
  <2> QED BY <1>0, <2>1, <2>2, <2>3, SkipMove
<1>5. CASE Fetches(t)
  <2> DEFINE p == [poll[t] EXCEPT !.pc = "ingest", !.msgs = Listed(t), !.next = head]
  <2>1. poll[t].pc # "idle" /\ conn' = conn /\ poll' = [poll EXCEPT ![t] = p]
    BY <1>5 DEF Fetches
  <2>2. p.pc = "ingest" /\ p.cursor = poll[t].cursor /\ p.next = head /\ p.msgs = Listed(t)
    BY <1>1 DEF PollType
  <2>3. \A m \in 1 .. head : m \in 1 .. poll[t].cursor \/ m \in Listed(t)
    BY <1>1, CursorsInMsgs DEF PollType, Listed
  <2>4. \A m \in 1 .. head : m \in Msgs /\ (Brought(m)' \/ m \in Listed(t))
    BY <1>0, <2>1, <2>3, CursorsInMsgs
  <2> HIDE DEF p
  <2> QED BY <1>0, <2>1, <2>2, <2>4, SkipMove
<1>6. CASE PollFails(t)
  <2>1. conn' = conn /\ poll' = [poll EXCEPT ![t] = NoPoll]
    BY <1>6 DEF PollFails
  <2> QED BY <1>0, <2>1, SkipMove
<1>7. CASE Refused(t)
  <2>1. poll' = [poll EXCEPT ![t] = NoPoll]
    BY <1>7 DEF Refused
  <2>2. conn' # None => conn # None /\ conn'.cursor = conn.cursor
    BY <1>7 DEF Refused, Mine, Typed, TypeOK, ConnType
  <2> QED BY <1>0, <2>1, <2>2, SkipMove
<1>8. CASE Ingests(t)
  <2>1. PICK n \in poll[t].msgs : /\ handed' = [handed EXCEPT ![n] = @ + 1]
                                  /\ poll' = [poll EXCEPT ![t] = [poll[t] EXCEPT !.msgs = @ \ {n}]]
    BY <1>8 DEF Ingests
  <2> DEFINE p == [poll[t] EXCEPT !.msgs = @ \ {n}]
  <2>2. p.pc = poll[t].pc /\ p.cursor = poll[t].cursor /\ p.next = poll[t].next /\ p.msgs = poll[t].msgs \ {n}
    BY <1>1 DEF PollType
  <2>3. n \in Msgs /\ handed'[n] > 0
    BY <1>1, <2>1 DEF PollType, Typed, TypeOK
  <2>4. Brought(n)'
    BY <2>3 DEF Brought
  <2>5. conn' = conn /\ poll[t].pc = "ingest" /\ poll' = [poll EXCEPT ![t] = p]
    BY <1>8, <2>1 DEF Ingests
  <2> HIDE DEF p
  <2>6. \A m \in 1 .. poll[t].next : m \in Msgs /\ (Brought(m)' \/ m \in poll[t].msgs \ {n})
    BY <1>0, <2>4, <2>5, BroughtStays DEF SkipInv
  <2> QED BY <1>0, <2>2, <2>5, <2>6, SkipMove
<1>9. CASE Records(t)
  <2>1. poll' = [poll EXCEPT ![t] = NoPoll] /\ poll[t].pc = "ingest" /\ poll[t].msgs = {}
    BY <1>9 DEF Records
  <2>2. \A m \in 1 .. poll[t].next : m \in Msgs /\ Brought(m)'
    BY <1>0, <2>1, BroughtStays DEF SkipInv
  <2>3. conn' # None => conn # None /\ conn'.cursor \in {conn.cursor, poll[t].next}
    BY <1>9 DEF Records, Cursor, Mine, Typed, TypeOK, ConnType
  <2> QED BY <1>0, <2>1, <2>2, <2>3, SkipMove
<1> QED BY <1>2, <1>3, <1>4, <1>5, <1>6, <1>7, <1>8, <1>9 DEF Step

LEMMA SkipStep == Typed /\ SkipInv /\ [Next]_vars => SkipInv'
<1> SUFFICES ASSUME Typed, SkipInv, [Next]_vars PROVE SkipInv'
  OBVIOUS
<1>0. /\ conn # None => \A m \in 1 .. conn.cursor : Brought(m)'
      /\ \A t \in Ticks : poll[t].pc # "idle" => \A m \in 1 .. poll[t].cursor : Brought(m)'
      /\ \A t \in Ticks : poll[t].pc = "ingest" => \A m \in 1 .. poll[t].next : Brought(m)' \/ m \in poll[t].msgs
  BY CursorsInMsgs, BroughtStays DEF SkipInv, NothingSkipped, Brought
<1>1. CASE UNCHANGED <<conn, poll>>
  BY <1>0, <1>1 DEF SkipInv, NothingSkipped, Brought
<1>2. CASE Restart
  BY <1>0, <1>2 DEF Restart, NoPoll, SkipInv, NothingSkipped, Brought
<1>3. ASSUME NEW r \in Requests, CallbackCommits(r) PROVE SkipInv'
  <2>1. conn' = Upserted(r) /\ poll' = poll /\ seed' >= cb[r].cursor /\ seed' \in Nat /\ cb[r].cursor \in Nat
    BY <1>3, CursorsInMsgs DEF CallbackCommits
  <2>2. Upserted(r).cursor = cb[r].cursor
    BY DEF Upserted, Typed, TypeOK, ConnType
  <2>3. NothingSkipped'
    BY <2>1, <2>2 DEF NothingSkipped
  <2> QED BY <1>0, <2>1, <2>3 DEF SkipInv
<1>4. ASSUME NEW w \in BOOLEAN, Disconnect(w) PROVE SkipInv'
  BY <1>0, <1>4 DEF Disconnect, SkipInv, NothingSkipped, Brought
<1>5. ASSUME NEW t \in Ticks, TickStarts(t) \/ Step(t) PROVE SkipInv'
  BY <1>5, SkipTicks
<1> QED BY <1>1, <1>2, <1>3, <1>4, <1>5 DEF Next, Arrives, Removes, Revokes, CallbackIdentity, vars

\* No mail is jumped over: with overlapping ticks, reconnections during a poll, refused
\* tokens and restarts, the stored cursor stands only for messages that were handed to
\* ingest or were there when the owner connected (tick, recordPollSuccess).
THEOREM NoMailJumpedOver == Spec => []NothingSkipped
<1>1. Init => SkipInv
  BY DEF Init, SkipInv, NothingSkipped, NoPoll
<1>2. SkipInv => NothingSkipped
  BY DEF SkipInv
<1> QED BY <1>1, <1>2, TypedInit, TypedStep, SkipStep, PTL DEF Spec
-----------------------------------------------------------------------------
(* A reconnection holds.                                                   *)

\* A poll at work has the tokens of the grant that was stored last, unless the row was
\* renewed since.
GrantInv ==
  /\ ReconnectHolds
  /\ ~late => \A t \in Ticks : poll[t].pc \in {"fresh", "fetch"} => poll[t].grant = stored

LEMMA GrantStep == Typed /\ GrantInv /\ [Next]_vars => GrantInv'
<1> SUFFICES ASSUME Typed, GrantInv, [Next]_vars PROVE GrantInv'
  OBVIOUS
<1>0. poll \in [Ticks -> PollType] /\ (conn # None => conn \in ConnType)
  BY DEF Typed, TypeOK
<1>1. CASE UNCHANGED <<conn, poll, stored, late>> /\ revoked \subseteq revoked'
  BY <1>1 DEF GrantInv, ReconnectHolds
<1>2. CASE Restart
  BY <1>2 DEF Restart, provider, NoPoll, GrantInv, ReconnectHolds
<1>3. ASSUME NEW r \in Requests, CallbackCommits(r) PROVE GrantInv'
  <2>1. conn' = Upserted(r) /\ poll' = poll /\ stored' = cb[r].grant /\ (Busy => late')
    BY <1>3 DEF CallbackCommits
  <2>2. Upserted(r).grant = cb[r].grant /\ Upserted(r).status = "active"
    BY <1>0 DEF Upserted, ConnType
  <2>3. ReconnectHolds'
    BY <2>1, <2>2 DEF ReconnectHolds
  <2>4. ~late' => \A t \in Ticks : poll[t].pc = "idle"
    BY <2>1 DEF Busy
  <2> QED BY <2>1, <2>3, <2>4 DEF GrantInv
<1>4. ASSUME NEW w \in BOOLEAN, Disconnect(w) PROVE GrantInv'
  BY <1>4 DEF Disconnect, history, GrantInv, ReconnectHolds
<1>5. ASSUME NEW t \in Ticks, TickStarts(t) \/ Step(t) PROVE GrantInv'
  <2>1. UNCHANGED <<stored, late, revoked>>
    BY <1>5 DEF TickStarts, Step, TokensRead, EnsureFresh, Fetches, PollFails, Refused, Ingests, Records, provider, history
  <2>2. ASSUME NEW u \in Ticks, u # t PROVE poll'[u] = poll[u]
    <3>1. CASE Ingests(t)
      BY <1>0, <2>2, <3>1 DEF Ingests
    <3>2. CASE ~Ingests(t)
      BY <1>0, <1>5, <2>2, <3>2 DEF TickStarts, Step, TokensRead, EnsureFresh, Fetches, PollFails, Refused, Records
    <3> QED BY <3>1, <3>2
  <2>3. ASSUME ~late, conn' # None, ~Refused(t)
        PROVE  conn # None /\ conn'.grant = stored /\ conn'.status = conn.status
    BY <1>0, <1>5, <2>3 DEF TickStarts, Step, TokensRead, EnsureFresh, Fetches, PollFails, Ingests, Records, Mine,
       ConnType, GrantInv, ReconnectHolds, history
  <2>4. ASSUME ~late, conn' # None, Refused(t)
        PROVE  conn'.grant = stored /\ (conn'.status = "needs_reconnect" => stored \in revoked)
    <3>1. poll[t].grant = stored /\ poll[t].grant \in revoked
      BY <2>4 DEF Refused, Valid, GrantInv
    <3> QED BY <1>0, <2>4, <3>1 DEF Refused, Mine, ConnType, GrantInv, ReconnectHolds
  <2>5. ASSUME ~late, poll'[t].pc \in {"fresh", "fetch"} PROVE poll'[t].grant = stored
    <3>1. CASE TickStarts(t)
      BY <1>0, <2>5, <3>1, NoPollType DEF TickStarts, PollType
    <3>2. CASE TokensRead(t)
      <4>1. mailbox /\ Mine(t)
        BY <1>0, <2>5, <3>2 DEF TokensRead, NoPoll
      <4>2. poll'[t].grant = conn.grant
        BY <1>0, <3>2, <4>1 DEF TokensRead, PollType
      <4> QED BY <2>5, <4>1, <4>2 DEF Mine, GrantInv, ReconnectHolds
    <3>3. CASE EnsureFresh(t, FALSE) \/ EnsureFresh(t, TRUE)
      BY <1>0, <2>5, <3>3 DEF EnsureFresh, PollType, GrantInv
    <3>4. CASE Fetches(t)
      BY <1>0, <2>5, <3>4 DEF Fetches, PollType
    <3>5. CASE PollFails(t) \/ Refused(t) \/ Records(t)
      BY <1>0, <2>5, <3>5 DEF PollFails, Refused, Records, NoPoll
    <3>6. CASE Ingests(t)
      BY <1>0, <2>5, <3>6 DEF Ingests, PollType
    <3> QED BY <1>5, <3>1, <3>2, <3>3, <3>4, <3>5, <3>6 DEF Step
  <2>6. ReconnectHolds'
    BY <2>1, <2>3, <2>4 DEF GrantInv, ReconnectHolds
  <2>7. ASSUME ~late', NEW u \in Ticks, poll'[u].pc \in {"fresh", "fetch"} PROVE poll'[u].grant = stored'
    <3>1. ~late /\ stored' = stored
      BY <2>1, <2>7
    <3>2. CASE u = t
      BY <2>5, <2>7, <3>1, <3>2
    <3>3. CASE u # t
      BY <2>2, <2>7, <3>1, <3>3 DEF GrantInv
    <3> QED BY <3>2, <3>3
  <2> QED BY <2>6, <2>7 DEF GrantInv
<1> QED BY <1>1, <1>2, <1>3, <1>4, <1>5 DEF Next, Arrives, Removes, Revokes, CallbackIdentity, provider, history, vars

\* After the owner has connected again, no older poll puts back the tokens of an earlier
\* grant or asks for another reconnection because of it, unless the row was renewed while
\* one was at work (upsertConnection, persistTokens, markNeedsReconnect).
THEOREM ReconnectionHolds == Spec => []ReconnectHolds
<1>1. Init => GrantInv
  BY DEF Init, GrantInv, ReconnectHolds, NoPoll
<1>2. GrantInv => ReconnectHolds
  BY DEF GrantInv
<1> QED BY <1>1, <1>2, TypedInit, TypedStep, GrantStep, PTL DEF Spec
-----------------------------------------------------------------------------
(* A message comes in once per consent and per crash. While ticks do not    *)
(* overlap at most one poll is at work, and what it may still hand to       *)
(* ingest, and the row that it leaves behind, were paid for: by a consent   *)
(* when a callback set the cursor, by a crash when it lost a poll.          *)

One(b) == IF b THEN 1 ELSE 0

\* The consents that are not stored yet.
Pending == {r \in Requests : cb[r] # NoCallback}

\* A tick that starts at row c brings message m in.
Behind(c, m) == c # None /\ c.cursor < m

Own(p, c) == c # None /\ c.id = p.id

\* Poll p, whose row is gone, brings m in.
MayHand(p, m) ==
  \/ p.pc \in {"fresh", "fetch"} /\ p.cursor < m
  \/ p.pc = "ingest" /\ m \in p.msgs

\* Poll p brings m in, or leaves its row c so that the next tick does.
MayLeave(p, c, m) ==
  IF p.pc = "ingest" THEN m \in p.msgs \/ p.next < m ELSE Behind(c, m) \/ p.cursor < m

\* How often m comes in yet, if nobody consents and nothing crashes.
Chances(p, c, m) ==
  IF p.pc = "idle" THEN One(Behind(c, m))
  ELSE IF Own(p, c) THEN One(MayLeave(p, c, m))
  ELSE One(MayHand(p, m)) + One(Behind(c, m))

Room(m, k) == handed[m] + Cardinality(Pending) + k <= crashes + granted

\* No tick but t is at work.
Single(t) == \A u \in Ticks : poll[u].pc # "idle" => u = t

Ordered ==
  \A t \in Ticks : /\ poll[t].cursor <= head
                   /\ poll[t].pc = "ingest" => poll[t].msgs \subseteq 1 .. poll[t].next

AllPaid == \A m \in Msgs : Room(m, 0) /\ \A t \in Ticks : Single(t) => Room(m, Chances(poll[t], conn, m))

AtMostOne == \A t \in Ticks : poll[t].pc # "idle" => Single(t)

OnceInv == Ordered /\ (~overlap => AtMostOne /\ AllPaid)

LEMMA Numbers ==
  ASSUME Typed
  PROVE  /\ \A m \in Msgs : m \in Nat /\ handed[m] \in Nat
         /\ IsFiniteSet(Pending) /\ Cardinality(Pending) \in Nat
         /\ crashes \in Nat /\ granted \in Nat /\ head \in Nat
         /\ conn # None => conn.cursor \in Nat /\ conn.id \in Nat /\ conn.id < nextId
         /\ \A t \in Ticks : /\ poll[t] \in PollType /\ poll[t].cursor \in Nat /\ poll[t].next \in Nat
                             /\ poll[t].id < nextId /\ poll[t].id \in Nat /\ poll[t].next <= head
         /\ nextId \in Nat
<1>1. IsFiniteSet(Pending)
  BY ConstantsTyped, FS_Subset DEF Pending
<1>2. Cardinality(Pending) \in Nat
  BY <1>1, FS_CardinalityType
<1>3. \A m \in Msgs : m \in Nat /\ handed[m] \in Nat
  BY DEF Typed, TypeOK, Msgs
<1>4. crashes \in Nat /\ granted \in Nat /\ head \in Nat /\ nextId \in Nat
  BY ConstantsTyped DEF Typed, TypeOK
<1>5. conn # None => conn.cursor \in Nat /\ conn.id \in Nat /\ conn.id < nextId
  BY ConstantsTyped DEF Typed, TypeOK, ConnType
<1>6. \A t \in Ticks : /\ poll[t] \in PollType /\ poll[t].cursor \in Nat /\ poll[t].next \in Nat
                       /\ poll[t].id < nextId /\ poll[t].id \in Nat /\ poll[t].next <= head
  BY ConstantsTyped DEF Typed, TypeOK, PollType, PollOK
<1> QED BY <1>1, <1>2, <1>3, <1>4, <1>5, <1>6

LEMMA ChancesNat == \A p, c, m : Chances(p, c, m) \in 0 .. 2
  BY DEF Chances, One

LEMMA OrderedStep == Typed /\ Ordered /\ [Next]_vars => Ordered'
<1> SUFFICES ASSUME Typed, Ordered, [Next]_vars PROVE Ordered'
  OBVIOUS
<1>0. poll \in [Ticks -> PollType] /\ head \in Nat /\ \A t \in Ticks : poll[t].cursor \in Nat /\ poll[t].next <= head
  BY Numbers DEF Typed, TypeOK
<1>1. CASE UNCHANGED poll /\ (head' = head \/ head' = head + 1)
  BY <1>0, <1>1 DEF Ordered
<1>2. CASE Restart
  BY <1>0, <1>2 DEF Restart, NoPoll, Ordered, provider
<1>3. ASSUME NEW t \in Ticks, TickStarts(t) \/ Step(t) PROVE Ordered'
  <2>1. head' = head
    BY <1>3 DEF TickStarts, Step, TokensRead, EnsureFresh, Fetches, PollFails, Refused, Ingests, Records, provider
  <2>2. ASSUME NEW p \in PollType, poll' = [poll EXCEPT ![t] = p], p.cursor <= head,
               p.pc = "ingest" => p.msgs \subseteq 1 .. p.next
        PROVE  Ordered'
    BY <1>0, <2>1, <2>2 DEF Ordered
  <2>3. NoPoll \in PollType /\ NoPoll.cursor = 0 /\ NoPoll.pc = "idle"
    BY NoPollType DEF NoPoll
  <2>4. CASE PollFails(t) \/ Refused(t) \/ Records(t)
    BY <1>0, <2>2, <2>3, <2>4 DEF PollFails, Refused, Records
  <2>5. CASE TickStarts(t)
    <3> DEFINE p == [NoPoll EXCEPT !.pc = "due", !.id = conn.id, !.cursor = conn.cursor]
    <3>1. conn \in ConnType /\ conn.cursor <= head
      BY <2>5 DEF TickStarts, Due, Typed, TypeOK
    <3>2. p \in PollType /\ p.cursor = conn.cursor /\ p.pc = "due"
      BY <2>3, <3>1 DEF PollType, ConnType
    <3>3. poll' = [poll EXCEPT ![t] = p]
      BY <2>5 DEF TickStarts
    <3> HIDE DEF p
    <3> QED BY <2>2, <3>1, <3>2, <3>3
  <2>6. CASE TokensRead(t)
    <3>1. ASSUME mailbox /\ Mine(t) PROVE Ordered'
      <4> DEFINE p == [poll[t] EXCEPT !.pc = "fresh", !.grant = conn.grant]
      <4>1. conn.grant \in 0 .. MaxGrants
        BY <3>1, ConstantsTyped DEF Mine, Typed, TypeOK, ConnType, Grants
      <4>2. p \in PollType /\ p.cursor = poll[t].cursor /\ p.pc = "fresh"
        BY <1>0, <4>1 DEF PollType
      <4>3. poll' = [poll EXCEPT ![t] = p]
        BY <2>6, <3>1 DEF TokensRead
      <4> HIDE DEF p
      <4>4. p.cursor <= head
        BY <4>2 DEF Ordered
      <4> QED BY <2>2, <4>2, <4>3, <4>4
    <3>2. ASSUME ~(mailbox /\ Mine(t)) PROVE Ordered'
      <4>1. poll' = [poll EXCEPT ![t] = NoPoll]
        BY <2>6, <3>2 DEF TokensRead
      <4>2. NoPoll.cursor <= head
        BY <1>0, <2>3
      <4> QED BY <2>2, <2>3, <4>1, <4>2
    <3> QED BY <3>1, <3>2
  <2>7. CASE EnsureFresh(t, FALSE) \/ EnsureFresh(t, TRUE)
    <3> DEFINE p == [poll[t] EXCEPT !.pc = "fetch"]
    <3>1. p \in PollType /\ p.cursor = poll[t].cursor /\ p.pc = "fetch"
      BY <1>0 DEF PollType
    <3>2. poll' = [poll EXCEPT ![t] = p]
      BY <2>7 DEF EnsureFresh
    <3> HIDE DEF p
    <3>3. p.cursor <= head
      BY <3>1 DEF Ordered
    <3> QED BY <2>2, <3>1, <3>2, <3>3
  <2>8. CASE Fetches(t)
    <3> DEFINE p == [poll[t] EXCEPT !.pc = "ingest", !.msgs = Listed(t), !.next = head]
    <3>1. Listed(t) \subseteq 1 .. head /\ Listed(t) \subseteq Msgs /\ head \in 0 .. MaxMsgs
      BY <1>0, ConstantsTyped DEF Listed, Typed, TypeOK, Msgs
    <3>2. p \in PollType /\ p.cursor = poll[t].cursor /\ p.msgs = Listed(t) /\ p.next = head
      BY <1>0, <3>1 DEF PollType
    <3>3. poll' = [poll EXCEPT ![t] = p]
      BY <2>8 DEF Fetches
    <3> HIDE DEF p
    <3>4. p.cursor <= head
      BY <3>2 DEF Ordered
    <3> QED BY <2>2, <3>1, <3>2, <3>3, <3>4
  <2>9. CASE Ingests(t)
    <3>1. PICK n \in poll[t].msgs : poll' = [poll EXCEPT ![t] = [poll[t] EXCEPT !.msgs = @ \ {n}]]
      BY <2>9 DEF Ingests
    <3> DEFINE p == [poll[t] EXCEPT !.msgs = @ \ {n}]
    <3>2. p \in PollType /\ p.cursor = poll[t].cursor /\ p.pc = poll[t].pc /\ p.next = poll[t].next
          /\ p.msgs \subseteq poll[t].msgs
      BY <1>0 DEF PollType
    <3>3. poll' = [poll EXCEPT ![t] = p]
      BY <3>1
    <3> HIDE DEF p
    <3>4. p.cursor <= head /\ (p.pc = "ingest" => p.msgs \subseteq 1 .. p.next)
      BY <3>2 DEF Ordered
    <3> QED BY <2>2, <3>2, <3>3, <3>4
  <2> QED BY <1>3, <2>4, <2>5, <2>6, <2>7, <2>8, <2>9 DEF Step
<1> QED BY <1>0, <1>1, <1>2, <1>3 DEF Next, Arrives, Removes, Revokes, CallbackIdentity, CallbackCommits, Disconnect,
   provider, history, vars

\* A tick that works, alone, changes its poll.
LEMMA PaidMove ==
  ASSUME Typed, AtMostOne, NEW t \in Ticks, Single(t), NEW p, poll' = [poll EXCEPT ![t] = p],
         \A m \in Msgs : Room(m, 0)',
         \A m \in Msgs : handed'[m] + Cardinality(Pending') + Chances(p, conn', m) <= crashes' + granted'
  PROVE  (AtMostOne /\ AllPaid)'
<1>1. poll'[t] = p /\ \A u \in Ticks : u # t => poll'[u] = poll[u] /\ poll'[u].pc = "idle"
  BY DEF Typed, TypeOK, Single
<1>2. AtMostOne'
  BY <1>1 DEF AtMostOne, Single
<1>3. ASSUME NEW m \in Msgs, NEW u \in Ticks, Single(u)' PROVE Room(m, Chances(poll[u], conn, m))'
  <2>1. CASE u = t
    BY <1>1, <2>1 DEF Room
  <2>2. CASE u # t
    <3>1. poll'[u].pc = "idle" /\ p.pc = "idle"
      BY <1>1, <1>3, <2>2 DEF Single
    <3>2. Chances(poll'[u], conn', m) = Chances(p, conn', m)
      BY <3>1 DEF Chances
    <3> QED BY <3>2 DEF Room
  <2> QED BY <2>1, <2>2
<1> QED BY <1>2, <1>3 DEF AllPaid

\* The same, if nothing comes in and no chance is won.
LEMMA PaidQuiet ==
  ASSUME Typed, OnceInv, ~overlap, NEW t \in Ticks, Single(t), NEW p, poll' = [poll EXCEPT ![t] = p],
         UNCHANGED <<handed, cb, crashes, granted>>,
         \A m \in Msgs : Chances(p, conn', m) <= Chances(poll[t], conn, m)
  PROVE  (AtMostOne /\ AllPaid)'
<1>1. AtMostOne /\ AllPaid
  BY DEF OnceInv
<1>2. Cardinality(Pending') = Cardinality(Pending)
  BY DEF Pending
<1>3. ASSUME NEW m \in Msgs
      PROVE  /\ Room(m, 0)'
             /\ handed'[m] + Cardinality(Pending') + Chances(p, conn', m) <= crashes' + granted'
  <2>1. handed[m] \in Nat /\ Cardinality(Pending) \in Nat /\ crashes \in Nat /\ granted \in Nat
    BY Numbers
  <2>2. Chances(p, conn', m) \in Nat /\ Chances(poll[t], conn, m) \in Nat
    BY ChancesNat
  <2>3. Room(m, 0) /\ Room(m, Chances(poll[t], conn, m))
    BY <1>1 DEF AllPaid
  <2>4. Chances(p, conn', m) <= Chances(poll[t], conn, m)
    OBVIOUS
  <2> QED BY <1>2, <2>1, <2>2, <2>3, <2>4 DEF Room
<1> QED BY <1>1, <1>3, PaidMove

LEMMA OnceTicks ==
  ASSUME Typed, OnceInv, NEW t \in Ticks, TickStarts(t) \/ Step(t), ~overlap'
  PROVE  (AtMostOne /\ AllPaid)'
<1>0. /\ ~overlap /\ Single(t) /\ AtMostOne /\ AllPaid /\ Ordered
      /\ TickStarts(t) => poll[t].pc = "idle"
      /\ Step(t) => poll[t].pc # "idle"
  <2>1. TickStarts(t) => ~overlap /\ \A u \in Ticks : poll[u].pc = "idle"
    BY DEF TickStarts
  <2>2. Step(t) => ~overlap /\ poll[t].pc # "idle"
    BY DEF Step, TokensRead, EnsureFresh, Fetches, PollFails, Refused, Ingests, Records, history
  <2> QED BY <2>1, <2>2 DEF OnceInv, AtMostOne, Single
<1>1. /\ poll[t] \in PollType /\ NoPoll \in PollType /\ NoPoll.pc = "idle"
      /\ poll[t].cursor \in Nat /\ poll[t].next \in Nat /\ head \in Nat
      /\ poll[t].cursor <= head
      /\ conn # None => conn \in ConnType /\ conn.cursor \in Nat
      /\ \A m \in Msgs : m \in Nat
  BY <1>0, NoPollType, Numbers DEF NoPoll, Ordered, Typed, TypeOK
<1>2. CASE TickStarts(t)
  <2> DEFINE p == [NoPoll EXCEPT !.pc = "due", !.id = conn.id, !.cursor = conn.cursor]
  <2>1. /\ conn # None /\ conn' = conn /\ poll' = [poll EXCEPT ![t] = p]
        /\ UNCHANGED <<handed, cb, crashes, granted>>
    BY <1>2 DEF TickStarts, Due, provider
  <2>2. p.pc = "due" /\ p.cursor = conn.cursor /\ p.id = conn.id
    BY <1>1 DEF PollType
  <2> HIDE DEF p
  <2>3. \A m \in Msgs : Chances(p, conn', m) <= Chances(poll[t], conn, m)
    BY <1>0, <1>2, <2>1, <2>2 DEF Chances, Own, MayLeave, Behind, One
  <2> QED BY <1>0, <2>1, <2>3, PaidQuiet
<1>3. ASSUME poll' = [poll EXCEPT ![t] = NoPoll], UNCHANGED <<handed, cb, crashes, granted>>,
             poll[t].pc \in {"due", "fresh", "fetch"}, conn' # None => conn # None /\ conn'.cursor = conn.cursor
      PROVE  (AtMostOne /\ AllPaid)'
  <2>1. \A m \in Msgs : Chances(NoPoll, conn', m) <= Chances(poll[t], conn, m)
    BY <1>1, <1>3 DEF Chances, Own, MayLeave, Behind, One
  <2> QED BY <1>0, <1>3, <2>1, PaidQuiet
<1>4. ASSUME NEW p, poll' = [poll EXCEPT ![t] = p], UNCHANGED <<handed, cb, crashes, granted>>,
             poll[t].pc \in {"due", "fresh"}, p.pc \in {"fresh", "fetch"}, p.cursor = poll[t].cursor, p.id = poll[t].id,
             poll[t].pc = "due" => Own(poll[t], conn),
             conn' # None => conn # None /\ conn'.cursor = conn.cursor /\ conn'.id = conn.id
      PROVE  (AtMostOne /\ AllPaid)'
  <2>1. \A m \in Msgs : Chances(p, conn', m) <= Chances(poll[t], conn, m)
    BY <1>4 DEF Chances, Own, MayLeave, MayHand, Behind, One
  <2> QED BY <1>0, <1>4, <2>1, PaidQuiet
<1>5. CASE TokensRead(t)
  <2> DEFINE p == [poll[t] EXCEPT !.pc = "fresh", !.grant = conn.grant]
  <2>1. poll[t].pc = "due" /\ UNCHANGED <<conn, handed, cb, crashes, granted>>
    BY <1>5 DEF TokensRead, provider, history
  <2>2. CASE mailbox /\ Mine(t)
    <3>1. poll' = [poll EXCEPT ![t] = p] /\ Own(poll[t], conn)
      BY <1>5, <2>2 DEF TokensRead, Mine, Own
    <3>2. p.pc = "fresh" /\ p.cursor = poll[t].cursor /\ p.id = poll[t].id
      BY <1>1 DEF PollType
    <3> HIDE DEF p
    <3> QED BY <1>4, <2>1, <3>1, <3>2
  <2>3. CASE ~(mailbox /\ Mine(t))
    <3>1. poll' = [poll EXCEPT ![t] = NoPoll]
      BY <1>5, <2>3 DEF TokensRead
    <3> QED BY <1>3, <2>1, <3>1
  <2> QED BY <2>2, <2>3
<1>6. CASE EnsureFresh(t, FALSE) \/ EnsureFresh(t, TRUE)
  <2> DEFINE p == [poll[t] EXCEPT !.pc = "fetch"]
  <2>1. poll[t].pc = "fresh" /\ UNCHANGED <<handed, cb, crashes, granted>> /\ poll' = [poll EXCEPT ![t] = p]
    BY <1>6 DEF EnsureFresh, provider, history
  <2>2. p.pc = "fetch" /\ p.cursor = poll[t].cursor /\ p.id = poll[t].id
    BY <1>1 DEF PollType
  <2>3. conn' # None => conn # None /\ conn'.cursor = conn.cursor /\ conn'.id = conn.id
    BY <1>1, <1>6 DEF EnsureFresh, Mine, ConnType
  <2> HIDE DEF p
  <2> QED BY <1>4, <2>1, <2>2, <2>3
<1>7. CASE Fetches(t)
  <2> DEFINE p == [poll[t] EXCEPT !.pc = "ingest", !.msgs = Listed(t), !.next = head]
  <2>1. poll[t].pc = "fetch" /\ UNCHANGED <<conn, handed, cb, crashes, granted>> /\ poll' = [poll EXCEPT ![t] = p]
    BY <1>7 DEF Fetches, provider, history
  <2>2. p.pc = "ingest" /\ p.id = poll[t].id /\ p.next = head /\ p.msgs = Listed(t)
    BY <1>1 DEF PollType
  <2> HIDE DEF p
  <2>3. ASSUME NEW m \in Msgs PROVE Chances(p, conn', m) <= Chances(poll[t], conn, m)
    <3>1. m \in Listed(t) \/ head < m => poll[t].cursor < m
      BY <1>1 DEF Listed
    <3> QED BY <2>1, <2>2, <3>1 DEF Chances, Own, MayLeave, MayHand, Behind, One
  <2> QED BY <1>0, <2>1, <2>3, PaidQuiet
<1>8. CASE PollFails(t)
  <2>1. /\ poll' = [poll EXCEPT ![t] = NoPoll] /\ UNCHANGED <<conn, handed, cb, crashes, granted>>
        /\ poll[t].pc \in {"due", "fresh", "fetch"}
    BY <1>8 DEF PollFails, provider, history
  <2> QED BY <1>3, <2>1
<1>9. CASE Refused(t)
  <2>1. /\ poll' = [poll EXCEPT ![t] = NoPoll] /\ UNCHANGED <<handed, cb, crashes, granted>>
        /\ poll[t].pc \in {"due", "fresh", "fetch"}
    BY <1>9 DEF Refused, provider, history
  <2>2. conn' # None => conn # None /\ conn'.cursor = conn.cursor
    BY <1>1, <1>9 DEF Refused, Mine, ConnType
  <2> QED BY <1>3, <2>1, <2>2
<1>10. CASE Ingests(t)
  <2>1. PICK n \in poll[t].msgs : /\ handed' = [handed EXCEPT ![n] = @ + 1]
                                  /\ poll' = [poll EXCEPT ![t] = [poll[t] EXCEPT !.msgs = @ \ {n}]]
    BY <1>10 DEF Ingests
  <2> DEFINE p == [poll[t] EXCEPT !.msgs = @ \ {n}]
  <2>2. /\ p.pc = "ingest" /\ p.id = poll[t].id /\ p.next = poll[t].next /\ p.msgs = poll[t].msgs \ {n}
        /\ poll[t].pc = "ingest"
    BY <1>1, <1>10 DEF Ingests, PollType
  <2>3. poll' = [poll EXCEPT ![t] = p] /\ UNCHANGED <<conn, cb, crashes, granted>>
    BY <1>10, <2>1 DEF Ingests, provider
  <2>4. n \in Msgs /\ n \in Nat /\ n <= poll[t].next
    <3>1. poll[t].msgs \subseteq 1 .. poll[t].next /\ poll[t].msgs \subseteq Msgs
      BY <1>0, <1>1, <2>2 DEF Ordered, PollType
    <3> QED BY <1>1, <3>1
  <2> HIDE DEF p
  <2>5. ASSUME NEW m \in Msgs
        PROVE  /\ Room(m, 0)'
               /\ handed'[m] + Cardinality(Pending') + Chances(p, conn', m) <= crashes' + granted'
    <3>1. /\ handed[m] \in Nat /\ Cardinality(Pending) \in Nat /\ crashes \in Nat /\ granted \in Nat
          /\ handed \in [Msgs -> Nat]
      BY Numbers DEF Typed, TypeOK
    <3>2. Chances(p, conn', m) \in Nat /\ Chances(poll[t], conn, m) \in Nat
      BY ChancesNat
    <3>3. Room(m, 0) /\ Room(m, Chances(poll[t], conn, m))
      BY <1>0 DEF AllPaid
    <3>4. Cardinality(Pending') = Cardinality(Pending)
      BY <2>3 DEF Pending
    <3>5. CASE m # n
      <4>1. handed'[m] = handed[m]
        BY <2>1, <3>1, <3>5
      <4>2. Chances(p, conn', m) = Chances(poll[t], conn, m)
        BY <2>2, <2>3, <3>5 DEF Chances, Own, MayLeave, MayHand, Behind
      <4> QED BY <2>3, <3>1, <3>3, <3>4, <4>1, <4>2 DEF Room
    <3>6. CASE m = n
      <4>1. handed'[m] = handed[m] + 1
        BY <2>1, <3>1, <3>6
      <4>2. Chances(p, conn', m) + 1 = Chances(poll[t], conn, m)
        BY <1>1, <2>2, <2>3, <2>4, <3>6 DEF Chances, Own, MayLeave, MayHand, Behind, One
      <4> QED BY <2>3, <3>1, <3>2, <3>3, <3>4, <4>1, <4>2 DEF Room
    <3> QED BY <3>5, <3>6
  <2> QED BY <1>0, <2>3, <2>5, PaidMove
<1>11. CASE Records(t)
  <2>1. /\ poll' = [poll EXCEPT ![t] = NoPoll] /\ UNCHANGED <<handed, cb, crashes, granted>>
        /\ poll[t].pc = "ingest" /\ poll[t].msgs = {}
    BY <1>11 DEF Records, provider, history
  <2>2. /\ ~Own(poll[t], conn) => conn' = conn
        /\ Own(poll[t], conn) => conn'.cursor = poll[t].next
    BY <1>1, <1>11 DEF Records, Cursor, Mine, Own, ConnType
  <2>3. \A m \in Msgs : Chances(NoPoll, conn', m) <= Chances(poll[t], conn, m)
    <3>1. CASE Own(poll[t], conn)
      BY <1>1, <2>1, <2>2, <3>1 DEF Chances, MayLeave, Behind, One
    <3>2. CASE ~Own(poll[t], conn)
      BY <1>1, <2>1, <2>2, <3>2 DEF Chances, MayHand, Behind, One
    <3> QED BY <3>1, <3>2
  <2> QED BY <1>0, <2>1, <2>3, PaidQuiet
<1> QED BY <1>2, <1>5, <1>6, <1>7, <1>8, <1>9, <1>10, <1>11 DEF Step

LEMMA OnceStep == Typed /\ OnceInv /\ [Next]_vars => OnceInv'
<1> SUFFICES ASSUME Typed, OnceInv, [Next]_vars, ~overlap' PROVE (AtMostOne /\ AllPaid)'
  BY OrderedStep DEF OnceInv
<1>0. /\ \A m \in Msgs : m \in Nat /\ handed[m] \in Nat
      /\ Cardinality(Pending) \in Nat /\ crashes \in Nat /\ granted \in Nat
  BY Numbers
<1>1. CASE UNCHANGED <<poll, conn, handed, cb, crashes, granted, overlap>>
  BY <1>1 DEF OnceInv, AtMostOne, AllPaid, Single, Room, Pending
<1>2. CASE Restart
  <2>1. /\ ~overlap /\ crashes' = crashes + 1 /\ UNCHANGED <<conn, handed, granted>>
        /\ \A t \in Ticks : poll'[t].pc = "idle"
        /\ \A r \in Requests : cb'[r] = NoCallback
    BY <1>2 DEF Restart, NoPoll, provider
  <2>2. Pending' = {}
    BY <2>1 DEF Pending
  <2>3. Cardinality(Pending)' = 0
    BY <2>2, FS_EmptySet
  <2>4. AllPaid
    BY <2>1 DEF OnceInv
  <2>5. ASSUME NEW m \in Msgs PROVE Room(m, 0)' /\ \A t \in Ticks : Room(m, Chances(poll[t], conn, m))'
    <3>1. handed[m] + Cardinality(Pending) + 0 <= crashes + granted
      BY <2>4 DEF AllPaid, Room
    <3>2. \A t \in Ticks : Chances(poll'[t], conn', m) \in {0, 1}
      BY <2>1 DEF Chances, One
    <3>3. handed[m] \in Nat
      BY <1>0
    <3> QED BY <1>0, <2>1, <2>3, <3>1, <3>2, <3>3 DEF Room
  <2> QED BY <2>1, <2>5 DEF AtMostOne, Single, AllPaid
<1>3. ASSUME NEW r \in Requests, CallbackIdentity(r) PROVE (AtMostOne /\ AllPaid)'
  <2>1. /\ UNCHANGED <<poll, conn, handed, crashes, overlap>> /\ granted' = granted + 1 /\ cb[r] = NoCallback
        /\ cb' = [cb EXCEPT ![r] = [cursor |-> head, grant |-> granted + 1]]
    BY <1>3 DEF CallbackIdentity, history
  <2>2. Pending' \subseteq Pending \cup {r}
    BY <2>1 DEF Pending, Typed, TypeOK
  <2>3. Cardinality(Pending)' <= Cardinality(Pending) + 1 /\ Cardinality(Pending)' \in Nat
    <3>1. IsFiniteSet(Pending) /\ IsFiniteSet(Pending \cup {r}) /\ r \notin Pending
      BY <2>1, Numbers, FS_AddElement DEF Pending
    <3>2. Cardinality(Pending \cup {r}) = Cardinality(Pending) + 1
      BY <3>1, FS_AddElement
    <3>3. IsFiniteSet(Pending') /\ Cardinality(Pending') <= Cardinality(Pending \cup {r})
      BY <2>2, <3>1, FS_Subset
    <3>4. Cardinality(Pending') \in Nat
      BY <3>3, FS_CardinalityType
    <3> QED BY <3>2, <3>3, <3>4
  <2>4. AtMostOne /\ AllPaid
    BY <2>1 DEF OnceInv
  <2>5. ASSUME NEW m \in Msgs, NEW k \in Nat, Room(m, k) PROVE Room(m, k)'
    <3>1. handed[m] \in Nat
      BY <1>0
    <3> QED BY <1>0, <2>1, <2>3, <2>5, <3>1 DEF Room
  <2>6. \A t \in Ticks : Single(t)' = Single(t)
    BY <2>1 DEF Single
  <2>7. AtMostOne'
    BY <2>1, <2>4, <2>6 DEF AtMostOne
  <2>8. ASSUME NEW m \in Msgs, NEW t \in Ticks, Single(t)' PROVE Room(m, Chances(poll[t], conn, m))'
    <3> DEFINE k == Chances(poll[t], conn, m)
    <3>1. k \in Nat /\ k' = k
      BY <2>1, ChancesNat
    <3>2. Room(m, k)
      BY <2>4, <2>6, <2>8 DEF AllPaid
    <3> HIDE DEF k
    <3>3. handed[m] \in Nat
      BY <1>0
    <3>4. Room(m, k)'
      BY <1>0, <2>1, <2>3, <3>1, <3>2, <3>3 DEF Room
    <3> QED BY <3>4 DEF k
  <2>9. \A m \in Msgs : Room(m, 0)'
    BY <1>0, <2>1, <2>3, <2>4 DEF AllPaid, Room
  <2> QED BY <2>7, <2>8, <2>9 DEF AllPaid
<1>4. ASSUME NEW r \in Requests, CallbackCommits(r) PROVE (AtMostOne /\ AllPaid)'
  <2>1. /\ UNCHANGED <<poll, handed, crashes, overlap, granted>> /\ conn' = Upserted(r) /\ cb[r] # NoCallback
        /\ cb' = [cb EXCEPT ![r] = NoCallback]
    BY <1>4 DEF CallbackCommits, provider
  <2>2. Pending' = Pending \ {r} /\ r \in Pending
    BY <2>1 DEF Pending, Typed, TypeOK
  <2>3. Cardinality(Pending)' = Cardinality(Pending) - 1
    <3>1. Cardinality(Pending \ {r}) = Cardinality(Pending) - 1
      BY <2>2, Numbers, FS_RemoveElement
    <3> QED BY <2>2, <3>1
  <2>4. AtMostOne /\ AllPaid
    BY <2>1 DEF OnceInv
  <2>5. \A t \in Ticks : Single(t)' = Single(t)
    BY <2>1 DEF Single
  <2>6. AtMostOne'
    BY <2>1, <2>4, <2>5 DEF AtMostOne
  <2>7. ASSUME NEW m \in Msgs, NEW t \in Ticks
        PROVE  Chances(poll[t], conn', m) <= Chances(poll[t], conn, m) + 1
    <3>1. conn # None => conn'.id = conn.id
      BY <2>1 DEF Upserted, Typed, TypeOK, ConnType
    <3>2. conn = None => conn'.id = nextId
      BY <2>1 DEF Upserted
    <3>3. conn = None => ~Own(poll[t], conn')
      BY <3>2, Numbers DEF Own
    <3>4. CASE poll[t].pc = "idle"
      BY <3>4 DEF Chances, One
    <3>5. CASE poll[t].pc # "idle" /\ Own(poll[t], conn)
      <4>1. Chances(poll[t], conn', m) \in 0 .. 2
        BY ChancesNat
      <4>2. CASE Own(poll[t], conn')
        BY <3>5, <4>2 DEF Chances, One
      <4>3. CASE ~Own(poll[t], conn')
        <5>1. conn' = None
          BY <3>1, <3>5, <4>3 DEF Own
        <5>2. ~Behind(conn', m)
          BY <5>1 DEF Behind
        <5> QED BY <3>5, <4>3, <5>2 DEF Chances, One
      <4> QED BY <4>2, <4>3
    <3>6. CASE poll[t].pc # "idle" /\ ~Own(poll[t], conn)
      <4>1. ~Own(poll[t], conn')
        BY <3>1, <3>3, <3>6 DEF Own
      <4> QED BY <3>6, <4>1 DEF Chances, One
    <3> QED BY <3>4, <3>5, <3>6
  <2>8. ASSUME NEW m \in Msgs, NEW t \in Ticks, Single(t)' PROVE Room(m, Chances(poll[t], conn, m))'
    <3>1. Chances(poll[t], conn', m) \in Nat /\ Chances(poll[t], conn, m) \in Nat /\ handed[m] \in Nat
      BY <1>0, ChancesNat
    <3>2. handed[m] + Cardinality(Pending) + Chances(poll[t], conn, m) <= crashes + granted
      BY <2>4, <2>5, <2>8 DEF AllPaid, Room
    <3>3. Chances(poll[t], conn', m) <= Chances(poll[t], conn, m) + 1
      BY <2>7
    <3> QED BY <1>0, <2>1, <2>3, <3>1, <3>2, <3>3 DEF Room
  <2>9. \A m \in Msgs : Room(m, 0)'
    BY <1>0, <2>1, <2>3, <2>4 DEF AllPaid, Room
  <2> QED BY <2>6, <2>8, <2>9 DEF AllPaid
<1>5. ASSUME NEW w \in BOOLEAN, Disconnect(w) PROVE (AtMostOne /\ AllPaid)'
  <2>1. UNCHANGED <<poll, handed, crashes, overlap, granted, cb>> /\ conn' = None
    BY <1>5 DEF Disconnect, provider, history
  <2>2. Cardinality(Pending)' = Cardinality(Pending)
    BY <2>1 DEF Pending
  <2>3. AtMostOne /\ AllPaid
    BY <2>1 DEF OnceInv
  <2>4. \A t \in Ticks : Single(t)' = Single(t)
    BY <2>1 DEF Single
  <2>5. AtMostOne'
    BY <2>1, <2>3, <2>4 DEF AtMostOne
  <2>6. ASSUME NEW m \in Msgs, NEW t \in Ticks
        PROVE  Chances(poll[t], conn', m) <= Chances(poll[t], conn, m)
    <3>1. ~Behind(conn', m) /\ ~Own(poll[t], conn')
      BY <2>1 DEF Behind, Own
    <3>2. MayHand(poll[t], m) => MayLeave(poll[t], conn, m)
      BY DEF MayHand, MayLeave
    <3> QED BY <3>1, <3>2 DEF Chances, One
  <2>7. ASSUME NEW m \in Msgs, NEW t \in Ticks, Single(t)' PROVE Room(m, Chances(poll[t], conn, m))'
    <3>1. Chances(poll[t], conn', m) \in Nat /\ Chances(poll[t], conn, m) \in Nat /\ handed[m] \in Nat
      BY <1>0, ChancesNat
    <3>2. handed[m] + Cardinality(Pending) + Chances(poll[t], conn, m) <= crashes + granted
      BY <2>3, <2>4, <2>7 DEF AllPaid, Room
    <3>3. Chances(poll[t], conn', m) <= Chances(poll[t], conn, m)
      BY <2>6
    <3> QED BY <1>0, <2>1, <2>2, <3>1, <3>2, <3>3 DEF Room
  <2>8. \A m \in Msgs : Room(m, 0)'
    BY <2>1, <2>2, <2>3 DEF AllPaid, Room
  <2> QED BY <2>5, <2>7, <2>8 DEF AllPaid
<1>6. ASSUME NEW t \in Ticks, TickStarts(t) \/ Step(t) PROVE (AtMostOne /\ AllPaid)'
  BY <1>6, OnceTicks
<1> QED BY <1>1, <1>2, <1>3, <1>4, <1>5, <1>6 DEF Next, Arrives, Removes, Revokes, provider, history, vars

LEMMA OnceInit == Init => OnceInv
<1> SUFFICES ASSUME Init PROVE OnceInv
  OBVIOUS
<1>1. /\ \A t \in Ticks : poll[t].pc = "idle" /\ poll[t].cursor = 0 /\ head = 0
      /\ conn = None /\ crashes = 0 /\ granted = 0
      /\ \A m \in Msgs : handed[m] = 0
  BY DEF Init, NoPoll
<1>2. Pending = {}
  BY DEF Init, Pending
<1>3. Cardinality(Pending) = 0
  BY <1>2, FS_EmptySet
<1>4. \A t \in Ticks, m \in Msgs : Chances(poll[t], conn, m) = 0
  BY <1>1 DEF Chances, Behind, One
<1>5. AllPaid
  BY <1>1, <1>3, <1>4 DEF AllPaid, Room
<1> QED BY <1>1, <1>5 DEF OnceInv, Ordered, AtMostOne, Single

\* While ticks do not overlap a message is handed to ingest at most once for each consent of
\* the owner and each crash (tick, recordPollSuccess, upsertConnection).
THEOREM OncePerConsent == Spec => []IngestedOnce
<1>1. Typed /\ OnceInv => IngestedOnce
  <2> SUFFICES ASSUME Typed, OnceInv, ~overlap, NEW m \in Msgs PROVE handed[m] <= crashes + granted
    BY DEF IngestedOnce
  <2>1. handed[m] + Cardinality(Pending) + 0 <= crashes + granted
    BY DEF OnceInv, AllPaid, Room
  <2>2. handed[m] \in Nat /\ Cardinality(Pending) \in Nat /\ crashes \in Nat /\ granted \in Nat
    BY Numbers
  <2> QED BY <2>1, <2>2
<1> QED BY <1>1, TypedInit, TypedStep, OnceInit, OnceStep, PTL DEF Spec
=============================================================================
