---------------------------- MODULE Notices_proofs ----------------------------
(***************************************************************************)
(* Proofs about what a user learns of his mail: the digest (Digest), the   *)
(* notifications of the phone (Phone) and the screens of the app (Pocket). *)
(* They share no state; each part below stands alone.                      *)
(*                                                                         *)
(* The first part is about Digest, for every number of messages, of        *)
(* overlapping ticks and of restarts.                                      *)
(*                                                                         *)
(* The second part is about Phone, for every number of sign-ins, push      *)
(* tokens and calls, in whichever order the calls of one phone arrive, are *)
(* answered or are given up, and however sign-ins and sign-outs overlap.   *)
(* Its three properties relate what the person last asked of the app to    *)
(* rows of the server. Between the two are the calls under way: Paired     *)
(* says that a row is made once, by the call of its sign-in, Borne that a  *)
(* token in use is the token of a row, Holders that a row with a push      *)
(* token is the app's, was dropped, or is revoked, and that an answer      *)
(* which ends the use of a token finds its row revoked, and Intent that a  *)
(* person who has signed out is not signing in, and has no token but one   *)
(* the keystore did not delete.                                            *)
(*                                                                         *)
(* The third part is about Pocket, for every set of queries, number of     *)
(* changes and of people. Cached says of each entry, shown or not, what    *)
(* OwnMailShown says of a settled one on a screen: data that count as      *)
(* fresh, and an answer under way that will, have every answered change    *)
(* (UpToDate). Cards names the call that brings a hidden card back.        *)
(***************************************************************************)
EXTENDS Phone, Digest, Pocket, FiniteSetTheorems, TLAPS

\* The messages a tick counts as seen had arrived when it started, and so had those
\* that the row counts as covered.
Arrived ==
  /\ mb.covered \subseteq came
  /\ \A t \in Ticks : dtick[t].seen \subseteq came

\* What a digest that is being assembled shows has arrived.
Shown == \A t \in Ticks : dtick[t].content \subseteq came

\* The clock a tick read is not ahead.
Clocks ==
  /\ \A t \in Ticks : dtick[t].at <= now
  /\ mb.last # None => mb.last <= now

Typed == TypeOK /\ Arrived /\ Shown /\ Clocks
-----------------------------------------------------------------------------
LEMMA Constants ==
  /\ None \notin Nat /\ MaxTime \in Nat /\ MaxCrashes \in Nat /\ Gap \in Nat \ {0}
  /\ Time \subseteq Nat /\ 0 \in Time /\ Hours # {}
  BY DigestConstantsOK DEF Time

LEMMA NoDigestType ==
  NoDigest \in DigestType /\ NoDigest.at = 0 /\ NoDigest.pc = "idle" /\ NoDigest.seen = {} /\ NoDigest.content = {}
  BY Constants DEF NoDigest, DigestType

\* One tick gets another record.
LEMMA OneTick ==
  ASSUME Typed, NEW t \in Ticks, NEW x \in DigestType, dtick' = [dtick EXCEPT ![t] = x]
  PROVE  /\ dtick' \in [Ticks -> DigestType] /\ dtick'[t] = x
         /\ \A u \in Ticks : u # t => dtick'[u] = dtick[u]
  BY DEF Typed, TypeOK

\* The row after an UPDATE of a digest that was sent.
LEMMA SuccessRow ==
  ASSUME Typed, NEW t \in Ticks, Success(t)
  PROVE  /\ mb' \in MbType /\ mb'.covered = dtick[t].seen /\ mb'.last = dtick[t].at
         /\ mb'.last # None
<1>1. mb \in MbType /\ dtick[t] \in DigestType
  BY DEF Typed, TypeOK
<1>2. mb' = [mb EXCEPT !.last = dtick[t].at, !.covered = dtick[t].seen, !.fails = 0]
  BY DEF Success
<1>3. dtick[t].at \in Time /\ dtick[t].seen \in SUBSET Ids
  BY <1>1 DEF DigestType
<1> QED BY <1>1, <1>2, <1>3, Constants DEF MbType

LEMMA TypesInit == Init => Typed
<1> SUFFICES ASSUME Init PROVE Typed
  OBVIOUS
<1>1. (CHOOSE h \in Hours : TRUE) \in Hours
  BY Constants
<1>2. /\ mb \in MbType /\ mb.covered = {} /\ mb.last = None
  BY <1>1, Constants DEF Init, MbType
<1>3. \A t \in Ticks : dtick[t] = NoDigest
  BY DEF Init
<1>4. dtick \in [Ticks -> DigestType]
  BY NoDigestType DEF Init
<1>5. sent \in [0 .. MaxCrashes -> [Time -> Nat]] /\ lost \subseteq (0 .. MaxCrashes) \X Time
  BY DEF Init
<1>6. crashes \in 0 .. MaxCrashes /\ now \in Time /\ now = 0
  BY Constants DEF Init
<1>7. TypeOK
  BY <1>2, <1>4, <1>5, <1>6 DEF Init, TypeOK
<1>8. Arrived /\ Shown
  BY <1>2, <1>3, NoDigestType DEF Arrived, Shown
<1>9. Clocks
  BY <1>2, <1>3, <1>6, NoDigestType DEF Clocks
<1> QED BY <1>7, <1>8, <1>9 DEF Typed

\* What all steps of a tick but its start have in common.
TickWorks(t) ==
  \/ AssembleNothing(t) \/ (\E content \in SUBSET Ids : Assemble(t, content))
  \/ DigestTaken(t) \/ DigestMarked(t) \/ DigestFails(t) \/ DigestTakenForFailed(t)

\* A tick that works, or is done, has another record, and the row is written or not.
LEMMA OneWork ==
  ASSUME Typed, NEW t \in Ticks, NEW x \in DigestType, dtick' = [dtick EXCEPT ![t] = x],
         x.at <= now, x.seen \subseteq came, x.content \subseteq came,
         mb' \in MbType, mb'.covered \subseteq came, mb'.last # None => mb'.last <= now,
         listed' \subseteq came,
         sent' \in [0 .. MaxCrashes -> [Time -> Nat]],
         lost' \subseteq (0 .. MaxCrashes) \X Time,
         UNCHANGED <<now, quar, came, putBack, overlap, crashes>>
  PROVE  Typed' /\ \A u \in Ticks : u # t => dtick'[u] = dtick[u]
<1>1. /\ dtick' \in [Ticks -> DigestType] /\ dtick'[t] = x
      /\ \A u \in Ticks : u # t => dtick'[u] = dtick[u]
  BY OneTick
<1>2. TypeOK'
  BY <1>1 DEF Typed, TypeOK
<1>3. (Arrived /\ Shown /\ Clocks)'
  BY <1>1 DEF Typed, Arrived, Shown, Clocks
<1> QED BY <1>1, <1>2, <1>3 DEF Typed

LEMMA WorksTyped ==
  ASSUME Typed, NEW t \in Ticks, TickWorks(t)
  PROVE  /\ Typed' /\ UNCHANGED <<now, quar, came, putBack, overlap, crashes>>
         /\ \A u \in Ticks : u # t => dtick'[u] = dtick[u]
<1>1. /\ dtick[t] \in DigestType /\ mb \in MbType /\ now \in Nat /\ dtick[t].at <= now
      /\ dtick[t].at \in Time /\ dtick[t].seen \subseteq came /\ came \subseteq Ids
      /\ mb.covered \subseteq came /\ crashes \in 0 .. MaxCrashes
      /\ sent \in [0 .. MaxCrashes -> [Time -> Nat]] /\ quar \subseteq came
      /\ lost \subseteq (0 .. MaxCrashes) \X Time
      /\ dtick[t].content \subseteq came
  BY Constants DEF Typed, TypeOK, Arrived, Shown, Clocks, DigestType
<1>2. UNCHANGED <<now, quar, came, putBack, overlap, crashes>>
  BY DEF TickWorks, AssembleNothing, Assemble, DigestTaken, DigestMarked, DigestFails,
         DigestTakenForFailed
<1>4. /\ mb.last # None => mb.last <= now
      /\ listed \subseteq came
  BY DEF Typed, TypeOK, Clocks
<1>5. CASE AssembleNothing(t) \/ DigestMarked(t)
  <2>1. /\ Success(t) /\ dtick' = [dtick EXCEPT ![t] = NoDigest] /\ UNCHANGED <<listed, sent, lost>>
    BY <1>5 DEF AssembleNothing, DigestMarked
  <2>2. mb' \in MbType /\ mb'.covered = dtick[t].seen /\ mb'.last = dtick[t].at
    BY <2>1, SuccessRow
  <2>3. NoDigest.at <= now /\ NoDigest.seen \subseteq came /\ NoDigest.content \subseteq came
    BY <1>1, NoDigestType
  <2>4. mb'.covered \subseteq came /\ mb'.last <= now
    BY <1>1, <2>2
  <2>5. /\ listed' \subseteq came /\ sent' \in [0 .. MaxCrashes -> [Time -> Nat]]
        /\ lost' \subseteq (0 .. MaxCrashes) \X Time
    BY <1>1, <1>4, <2>1
  <2>6. (mb'.last # None => mb'.last <= now) /\ NoDigest \in DigestType
    BY <2>4, NoDigestType
  <2> QED BY <1>2, <2>1, <2>2, <2>3, <2>4, <2>5, <2>6, OneWork
<1>6. ASSUME NEW content \in SUBSET Ids, Assemble(t, content)
      PROVE  Typed' /\ \A u \in Ticks : u # t => dtick'[u] = dtick[u]
  <2> DEFINE x == [dtick[t] EXCEPT !.pc = "mail", !.content = content]
  <2>1. /\ content \subseteq came /\ listed' \subseteq came /\ UNCHANGED <<mb, sent, lost>>
        /\ dtick' = [dtick EXCEPT ![t] = x]
    BY <1>1, <1>4, <1>6 DEF Assemble, Fresh
  <2>2. x \in DigestType /\ x.at = dtick[t].at /\ x.seen = dtick[t].seen /\ x.content = content
    BY <1>1 DEF DigestType
  <2> HIDE DEF x
  <2>3. /\ mb' \in MbType /\ mb'.covered \subseteq came /\ (mb'.last # None => mb'.last <= now)
        /\ lost' \subseteq (0 .. MaxCrashes) \X Time /\ sent' \in [0 .. MaxCrashes -> [Time -> Nat]]
    BY <1>1, <1>4, <2>1
  <2>4. x.at <= now /\ x.seen \subseteq came /\ x.content \subseteq came
    BY <1>1, <2>1, <2>2
  <2> QED BY <1>2, <2>1, <2>2, <2>3, <2>4, OneWork
<1>7. CASE DigestTaken(t)
  <2> DEFINE x == [dtick[t] EXCEPT !.pc = "mark", !.content = {}]
             run == [sent[crashes] EXCEPT ![dtick[t].at] = @ + 1]
  <2>1. /\ listed' = listed \cup dtick[t].content /\ UNCHANGED <<mb, lost>>
        /\ dtick' = [dtick EXCEPT ![t] = x] /\ sent' = [sent EXCEPT ![crashes] = run]
    BY <1>7 DEF DigestTaken
  <2>2. x \in DigestType /\ x.at = dtick[t].at /\ x.seen = dtick[t].seen /\ x.content = {}
    BY <1>1 DEF DigestType
  <2>3. run \in [Time -> Nat]
    BY <1>1
  <2> HIDE DEF x, run
  <2>4. sent' \in [0 .. MaxCrashes -> [Time -> Nat]]
    BY <1>1, <2>1, <2>3
  <2>5. x.at <= now /\ x.seen \subseteq came /\ x.content \subseteq came /\ listed' \subseteq came
    BY <1>1, <1>4, <2>1, <2>2
  <2>6. /\ mb' \in MbType /\ mb'.covered \subseteq came /\ (mb'.last # None => mb'.last <= now)
        /\ lost' \subseteq (0 .. MaxCrashes) \X Time
    BY <1>1, <1>4, <2>1
  <2> QED BY <1>2, <2>1, <2>2, <2>4, <2>5, <2>6, OneWork
<1>8. CASE DigestFails(t) \/ DigestTakenForFailed(t)
  <2>1. /\ Failed(dtick[t].fails) /\ dtick' = [dtick EXCEPT ![t] = NoDigest] /\ UNCHANGED sent
        /\ listed' = listed \/ listed' = listed \cup dtick[t].content
        /\ lost' = lost \/ lost' = lost \cup {<<crashes, dtick[t].at>>}
    BY <1>8 DEF DigestFails, DigestTakenForFailed
  <2>2. dtick[t].fails + 1 \in Nat
    BY <1>1 DEF DigestType
  <2>3. mb' \in MbType /\ mb'.covered = mb.covered /\ mb'.last = mb.last
    BY <1>1, <2>1, <2>2 DEF Failed, MbType
  <2>4. NoDigest.at <= now /\ NoDigest.seen \subseteq came /\ NoDigest.content \subseteq came
    BY <1>1, NoDigestType
  <2>5. mb'.covered \subseteq came /\ (mb'.last # None => mb'.last <= now)
    BY <1>1, <1>4, <2>3
  <2>6. /\ listed' \subseteq came /\ sent' \in [0 .. MaxCrashes -> [Time -> Nat]]
        /\ lost' \subseteq (0 .. MaxCrashes) \X Time /\ NoDigest \in DigestType
    BY <1>1, <1>4, <2>1, NoDigestType
  <2> QED BY <1>2, <2>1, <2>3, <2>4, <2>5, <2>6, OneWork
<1> QED BY <1>2, <1>5, <1>6, <1>7, <1>8 DEF TickWorks

LEMMA StartTyped ==
  ASSUME Typed, NEW t \in Ticks, DigestTickStarts(t)
  PROVE  /\ Typed' /\ UNCHANGED <<now, mb, quar, came, sent, lost, listed, putBack, crashes>>
         /\ dtick[t].pc = "idle" /\ dtick'[t].pc = "due" /\ dtick'[t].at = now
         /\ \A u \in Ticks : u # t => dtick'[u] = dtick[u]
<1> DEFINE x == [NoDigest EXCEPT !.pc = "due", !.at = now, !.seen = came, !.fails = mb.fails]
<1>1. /\ dtick' = [dtick EXCEPT ![t] = x] /\ dtick[t].pc = "idle"
      /\ UNCHANGED <<now, mb, quar, came, sent, lost, listed, putBack, crashes>>
      /\ overlap' = (overlap \/ \E u \in Ticks : dtick[u].pc # "idle")
  BY DEF DigestTickStarts
<1>2. mb.fails \in Nat /\ came \in SUBSET Ids /\ now \in Time /\ now \in Nat
  BY Constants DEF Typed, TypeOK, MbType
<1>3. x \in DigestType /\ x.pc = "due" /\ x.at = now /\ x.seen = came /\ x.content = {}
  BY <1>2 DEF NoDigest, DigestType
<1>4. overlap' \in BOOLEAN
  BY <1>1
<1> HIDE DEF x
<1>5. /\ dtick' \in [Ticks -> DigestType] /\ dtick'[t] = x
      /\ \A u \in Ticks : u # t => dtick'[u] = dtick[u]
  BY <1>1, <1>3, OneTick
<1>6. TypeOK'
  BY <1>1, <1>4, <1>5 DEF Typed, TypeOK
<1>7. (Arrived /\ Shown /\ Clocks)'
  BY <1>1, <1>2, <1>3, <1>5 DEF Typed, Arrived, Shown, Clocks
<1> QED BY <1>1, <1>3, <1>5, <1>6, <1>7 DEF Typed

\* The world around the ticks: mail comes and goes, time passes, the owner patches.
Around ==
  \/ \E m \in Ids : Quarantined(m) \/ Leaves(m) \/ MovedIn(m)
  \/ Advance
  \/ \E on \in BOOLEAN, hour \in Hours : PatchDigest(on, hour)

\* What was there and is in the quarantine was in it, or is put back: too late, or in time.
Kept ==
  \A m \in quar' \cap came :
    \/ m \in quar /\ (m \in putBack => m \in putBack')
    \/ PassedOver(m) => m \in putBack'

LEMMA AroundTyped ==
  ASSUME Typed, Around
  PROVE  /\ Typed' /\ UNCHANGED <<dtick, sent, lost, listed, overlap, crashes>>
         /\ now <= now' /\ mb'.last = mb.last /\ mb'.covered = mb.covered
         /\ came \subseteq came' /\ Kept
<1>1. UNCHANGED <<dtick, sent, lost, listed, overlap, crashes>>
  BY DEF Around, Quarantined, Leaves, MovedIn, Advance, PatchDigest
<1>2. now' \in Time /\ now <= now' /\ now \in Nat /\ now' \in Nat
  <2>1. now' = now \/ (now < MaxTime /\ now' = now + 1)
    BY DEF Around, Quarantined, Leaves, MovedIn, Advance, PatchDigest
  <2>2. now \in 0 .. MaxTime
    BY DEF Typed, TypeOK, Time
  <2> QED BY <2>1, <2>2, Constants DEF Time
<1>3. mb' \in MbType /\ mb'.last = mb.last /\ mb'.covered = mb.covered
  BY DEF Around, Quarantined, Leaves, MovedIn, Advance, PatchDigest, Typed, TypeOK, MbType
<1>4. came \subseteq came' /\ quar' \subseteq came' /\ came' \subseteq Ids /\ putBack' \subseteq quar'
  BY DEF Around, Quarantined, Leaves, MovedIn, Advance, PatchDigest, Typed, TypeOK
<1>8. Kept
  <2>1. CASE UNCHANGED <<quar, putBack>>
    BY <2>1 DEF Kept
  <2>2. ASSUME NEW m \in Ids, Quarantined(m) \/ Leaves(m) PROVE Kept
    BY <2>2 DEF Kept, Quarantined, Leaves
  <2>3. ASSUME NEW m \in Ids, MovedIn(m) PROVE Kept
    BY <2>3 DEF Kept, MovedIn
  <2> QED BY <2>1, <2>2, <2>3 DEF Around, Advance, PatchDigest
<1>5. TypeOK'
  BY <1>1, <1>2, <1>3, <1>4 DEF Typed, TypeOK
<1>6. (Arrived /\ Shown)'
  BY <1>1, <1>3, <1>4 DEF Typed, Arrived, Shown
<1>7. Clocks'
  <2>1. \A t \in Ticks : dtick[t].at \in Nat
    BY Constants DEF Typed, TypeOK, DigestType
  <2>2. mb.last # None => mb.last \in Nat
    BY Constants DEF Typed, TypeOK, MbType
  <2> QED BY <1>1, <1>2, <1>3, <2>1, <2>2 DEF Typed, Clocks
<1> QED BY <1>1, <1>2, <1>3, <1>4, <1>5, <1>6, <1>7, <1>8 DEF Typed

LEMMA RestartTyped ==
  ASSUME Typed, Restart
  PROVE  /\ Typed' /\ UNCHANGED <<now, mb, quar, came, sent, lost, listed, putBack, overlap>>
         /\ crashes' = crashes + 1 /\ \A t \in Ticks : dtick'[t] = NoDigest
<1>1. /\ UNCHANGED <<now, mb, quar, came, sent, lost, listed, putBack, overlap>> /\ crashes' = crashes + 1
      /\ dtick' = [t \in Ticks |-> NoDigest] /\ crashes' \in 0 .. MaxCrashes
  BY Constants DEF Restart, Typed, TypeOK
<1>2. /\ dtick' \in [Ticks -> DigestType] /\ \A t \in Ticks : dtick'[t] = NoDigest
  BY <1>1, NoDigestType
<1>3. now \in Nat
  BY Constants DEF Typed, TypeOK
<1> QED BY <1>1, <1>2, <1>3, NoDigestType DEF Typed, TypeOK, Arrived, Shown, Clocks

LEMMA Cases ==
  ASSUME [Next]_vars
  PROVE  \/ Around \/ Restart \/ UNCHANGED vars
         \/ \E t \in Ticks : DigestTickStarts(t) \/ TickWorks(t)
  BY DEF Next, Around, TickWorks

LEMMA TypesStep == Typed /\ [Next]_vars => Typed'
<1> SUFFICES ASSUME Typed, [Next]_vars PROVE Typed'
  OBVIOUS
<1>1. CASE UNCHANGED vars
  BY <1>1 DEF vars, Typed, TypeOK, Arrived, Shown, Clocks
<1> QED BY <1>1, Cases, AroundTyped, RestartTyped, StartTyped, WorksTyped

\* The digest's row and its ticks are well typed, and no tick is ahead of what has come.
THEOREM DigestTyped == Spec => []TypeOK
<1>1. Typed => TypeOK
  BY DEF Typed
<1> QED BY <1>1, TypesInit, TypesStep, PTL DEF Spec
-----------------------------------------------------------------------------
(* Nothing is passed over. *)

\* What a tick will count as covered is listed, put back too late, or in the digest it is
\* sending.
Accounted ==
  /\ DigestMissesNothing
  /\ \A t \in Ticks :
       /\ dtick[t].pc = "mail" => quar \cap dtick[t].seen \subseteq listed \cup putBack \cup dtick[t].content
       /\ dtick[t].pc = "mark" => quar \cap dtick[t].seen \subseteq listed \cup putBack

LEMMA AccountedInit == Init => Accounted
  BY NoDigestType DEF Init, Accounted, DigestMissesNothing

\* Mail comes and goes: what is put back when a digest has passed it over is known.
LEMMA AccountedAround ==
  ASSUME Typed, Accounted, UNCHANGED <<dtick, listed>>, mb'.covered = mb.covered, Kept
  PROVE  Accounted'
<1>1. mb.covered \subseteq came /\ \A t \in Ticks : dtick[t].seen \subseteq came
  BY DEF Typed, Arrived
<1>2. DigestMissesNothing'
  <2> SUFFICES ASSUME NEW m \in quar' \cap mb.covered PROVE m \in listed \cup putBack'
    BY DEF DigestMissesNothing
  <2>1. PassedOver(m) /\ m \in quar' \cap came
    BY <1>1 DEF PassedOver
  <2>2. m \in quar => m \in listed \cup putBack
    BY DEF Accounted, DigestMissesNothing
  <2> QED BY <2>1, <2>2 DEF Kept
<1>3. ASSUME NEW t \in Ticks, dtick[t].pc \in {"mail", "mark"}, NEW m \in quar' \cap dtick[t].seen
      PROVE  \/ m \in listed \cup putBack'
             \/ dtick[t].pc = "mail" /\ m \in dtick[t].content
  <2>1. PassedOver(m) /\ m \in quar' \cap came
    BY <1>1, <1>3 DEF PassedOver
  <2>2. m \in quar => m \in listed \cup putBack \/ (dtick[t].pc = "mail" /\ m \in dtick[t].content)
    BY <1>3 DEF Accounted
  <2> QED BY <2>1, <2>2 DEF Kept
<1> QED BY <1>2, <1>3 DEF Accounted

\* Nothing new is to be accounted for.
LEMMA AccountedStays ==
  ASSUME Typed, Accounted, mb'.covered = mb.covered, listed \subseteq listed', UNCHANGED <<quar, putBack>>,
         \A t \in Ticks : dtick'[t] = dtick[t] \/ dtick'[t].pc \in {"idle", "due"}
  PROVE  Accounted'
  BY DEF Accounted, DigestMissesNothing

LEMMA AccountedStep == Typed /\ Accounted /\ [Next]_vars => Accounted'
<1> SUFFICES ASSUME Typed, Accounted, [Next]_vars PROVE Accounted'
  OBVIOUS
<1>1. CASE UNCHANGED vars
  BY <1>1 DEF vars, Accounted, DigestMissesNothing
<1>2. CASE Around
  BY <1>2, AroundTyped, AccountedAround
<1>3. CASE Restart
  <2>1. \A t \in Ticks : dtick'[t].pc = "idle"
    BY <1>3, RestartTyped, NoDigestType
  <2>2. UNCHANGED <<mb, quar, listed, putBack>>
    BY <1>3, RestartTyped
  <2> QED BY <2>1, <2>2, AccountedStays
<1>4. ASSUME NEW t \in Ticks, DigestTickStarts(t) PROVE Accounted'
  <2>1. \A u \in Ticks : dtick'[u] = dtick[u] \/ dtick'[u].pc = "due"
    BY <1>4, StartTyped
  <2>2. UNCHANGED <<mb, quar, listed, putBack>>
    BY <1>4, StartTyped
  <2> QED BY <2>1, <2>2, AccountedStays
<1>5. ASSUME NEW t \in Ticks, TickWorks(t) PROVE Accounted'
  <2>1. /\ UNCHANGED <<quar, came, putBack>> /\ \A u \in Ticks : u # t => dtick'[u] = dtick[u]
        /\ dtick[t] \in DigestType /\ dtick \in [Ticks -> DigestType]
    BY <1>5, WorksTyped DEF Typed, TypeOK
  <2>2. ASSUME Success(t), dtick' = [dtick EXCEPT ![t] = NoDigest], UNCHANGED listed,
               quar \cap dtick[t].seen \subseteq listed \cup putBack
        PROVE  Accounted'
    <3>1. mb'.covered = dtick[t].seen
      BY <2>2, SuccessRow
    <3>2. dtick'[t].pc = "idle"
      BY <2>1, <2>2, NoDigestType
    <3> QED BY <2>1, <2>2, <3>1, <3>2 DEF Accounted, DigestMissesNothing
  <2>3. CASE AssembleNothing(t)
    <3>1. quar \subseteq listed \cup putBack
      BY <2>3 DEF AssembleNothing, Fresh, Accounted, DigestMissesNothing
    <3> QED BY <2>2, <2>3, <3>1 DEF AssembleNothing
  <2>4. CASE DigestMarked(t)
    BY <2>2, <2>4 DEF DigestMarked, Accounted
  <2>5. ASSUME NEW content \in SUBSET Ids, Assemble(t, content) PROVE Accounted'
    <3>1. /\ listed' = listed \cup (Fresh \ content) /\ UNCHANGED mb
          /\ dtick' = [dtick EXCEPT ![t].pc = "mail", ![t].content = content]
      BY <2>5 DEF Assemble
    <3>2. dtick'[t].pc = "mail" /\ dtick'[t].content = content
      BY <2>1, <3>1 DEF DigestType
    <3>3. quar \subseteq listed' \cup putBack \cup content
      BY <3>1 DEF Fresh, Accounted, DigestMissesNothing
    <3> QED BY <2>1, <3>1, <3>2, <3>3 DEF Accounted, DigestMissesNothing
  <2>6. CASE DigestTaken(t)
    <3>1. /\ listed' = listed \cup dtick[t].content /\ UNCHANGED mb /\ dtick[t].pc = "mail"
          /\ dtick' = [dtick EXCEPT ![t] = [@ EXCEPT !.pc = "mark", !.content = {}]]
      BY <2>6 DEF DigestTaken
    <3>2. dtick'[t].pc = "mark" /\ dtick'[t].seen = dtick[t].seen
      BY <2>1, <3>1 DEF DigestType
    <3> QED BY <2>1, <3>1, <3>2 DEF Accounted, DigestMissesNothing
  <2>7. CASE DigestFails(t) \/ DigestTakenForFailed(t)
    <3>1. listed \subseteq listed' /\ dtick'[t].pc = "idle"
      BY <2>1, <2>7, NoDigestType DEF DigestFails, DigestTakenForFailed
    <3>2. mb'.covered = mb.covered
      BY <2>7 DEF DigestFails, DigestTakenForFailed, Failed, Typed, TypeOK, MbType
    <3> QED BY <2>1, <3>1, <3>2, AccountedStays
  <2> QED BY <1>5, <2>3, <2>4, <2>5, <2>6, <2>7 DEF TickWorks
<1> QED BY <1>1, <1>2, <1>3, <1>4, <1>5, Cases

\* Every message in the quarantine that was received before last_digest_sent_at was in a
\* digest that went out or did not fit into one, although mail comes in and is moved while
\* ticks wait, overlap and fail, but for mail the owner put back when the digest had been
\* assembled (digester.ts:57).
THEOREM NobodyMissed == Spec => []DigestMissesNothing
<1>1. Accounted => DigestMissesNothing
  BY DEF Accounted
<1> QED BY <1>1, TypesInit, TypesStep, AccountedInit, AccountedStep, PTL DEF Spec
-----------------------------------------------------------------------------
(* One digest in twelve hours. *)

\* While ticks do not overlap: one tick is at work and it is twelve hours after the last
\* digest that is known to be sent; what this run has sent is in the row, or about to be;
\* what it took for failed is of no later clock; the next runs have sent nothing.
Alone == \A t, u \in Ticks : dtick[t].pc # "idle" /\ dtick[u].pc # "idle" => t = u
Due == \A t \in Ticks : dtick[t].pc # "idle" /\ mb.last # None => mb.last + Gap <= dtick[t].at
Recorded ==
  \A u \in Time : sent[crashes][u] > 0 =>
    \/ mb.last # None /\ u <= mb.last
    \/ \E t \in Ticks : dtick[t].pc = "mark" /\ dtick[t].at = u
Past ==
  \A u \in Time : <<crashes, u>> \in lost =>
    u <= now /\ \A t \in Ticks : dtick[t].pc # "idle" => u <= dtick[t].at
Unsent ==
  \A c \in 0 .. MaxCrashes, u \in Time : c > crashes => sent[c][u] = 0 /\ <<c, u>> \notin lost
Spaced ==
  \A c \in 0 .. MaxCrashes, u \in Time :
    /\ sent[c][u] <= 1
    /\ sent[c][u] > 0 =>
         \A v \in Time : (sent[c][v] > 0 \/ <<c, v>> \in lost) /\ u < v => u + Gap <= v

OnceInv == ~overlap => Alone /\ Due /\ Recorded /\ Past /\ Unsent /\ Spaced

LEMMA OnceInit == Init => OnceInv
<1> SUFFICES ASSUME Init PROVE Alone /\ Due /\ Recorded /\ Past /\ Unsent /\ Spaced
  BY DEF OnceInv
<1>1. \A t \in Ticks : dtick[t].pc = "idle"
  BY NoDigestType DEF Init
<1>2. lost = {} /\ \A c \in 0 .. MaxCrashes, u \in Time : sent[c][u] = 0
  BY DEF Init
<1>3. crashes \in 0 .. MaxCrashes
  BY Constants DEF Init
<1> QED BY <1>1, <1>2, <1>3 DEF Alone, Due, Recorded, Past, Unsent, Spaced

LEMMA OnceStep == Typed /\ OnceInv /\ [Next]_vars => OnceInv'
<1> SUFFICES ASSUME Typed, OnceInv, [Next]_vars, ~overlap'
             PROVE  (Alone /\ Due /\ Recorded /\ Past /\ Unsent /\ Spaced)'
  BY DEF OnceInv
<1>0. /\ crashes \in 0 .. MaxCrashes /\ crashes \in Nat /\ sent \in [0 .. MaxCrashes -> [Time -> Nat]]
      /\ dtick \in [Ticks -> DigestType] /\ overlap \in BOOLEAN /\ MaxCrashes \in Nat
      /\ Gap \in Nat \ {0} /\ Time \subseteq Nat /\ now \in Nat
      /\ mb.last # None => mb.last \in Nat
      /\ \A t \in Ticks : dtick[t].at \in Time
  <2>1. Typed => TypeOK
    BY DEF Typed
  <2>2. crashes \in 0 .. MaxCrashes /\ crashes \in Nat
    BY <2>1, Constants DEF TypeOK
  <2>3. mb \in MbType /\ now \in Time
    BY <2>1 DEF TypeOK
  <2>4. now \in Nat /\ (mb.last # None => mb.last \in Nat)
    BY <2>3, Constants DEF MbType
  <2>5. /\ sent \in [0 .. MaxCrashes -> [Time -> Nat]] /\ dtick \in [Ticks -> DigestType]
        /\ overlap \in BOOLEAN
    BY <2>1 DEF TypeOK
  <2>6. \A t \in Ticks : dtick[t].at \in Time
    BY <2>5 DEF DigestType
  <2> QED BY <2>2, <2>4, <2>5, <2>6, Constants
<1>1. CASE UNCHANGED vars
  BY <1>1 DEF vars, OnceInv, Alone, Due, Recorded, Past, Unsent, Spaced
<1>2. CASE Around
  <2>1. UNCHANGED <<dtick, sent, lost, overlap, crashes>> /\ mb'.last = mb.last
    BY <1>2, AroundTyped
  <2>2. (Alone /\ Due /\ Recorded /\ Unsent /\ Spaced)'
    BY <2>1 DEF OnceInv, Alone, Due, Recorded, Unsent, Spaced
  <2>3. Past'
    <3>1. now <= now' /\ now' \in Nat
      BY <1>2, AroundTyped, Constants DEF Typed, TypeOK
    <3> QED BY <1>0, <2>1, <3>1 DEF OnceInv, Past
  <2> QED BY <2>2, <2>3
<1>3. CASE Restart
  <2>1. /\ UNCHANGED <<sent, lost, overlap>> /\ crashes' = crashes + 1
        /\ \A t \in Ticks : dtick'[t].pc = "idle"
    BY <1>3, RestartTyped, NoDigestType
  <2>2. crashes + 1 \in 0 .. MaxCrashes
    BY <1>0, <1>3 DEF Restart
  <2>3. Alone /\ Due /\ Recorded /\ Past /\ Unsent /\ Spaced
    BY <2>1 DEF OnceInv
  <2>4. (Alone /\ Due /\ Spaced)'
    BY <2>1, <2>3 DEF Alone, Due, Spaced
  <2>5. \A u \in Time : sent'[crashes'][u] = 0 /\ <<crashes', u>> \notin lost'
    <3> SUFFICES ASSUME NEW u \in Time PROVE sent[crashes + 1][u] = 0 /\ <<crashes + 1, u>> \notin lost
      BY <2>1
    <3>1. crashes + 1 > crashes
      BY <1>0
    <3> QED BY <2>2, <2>3, <3>1 DEF Unsent
  <2>6. Recorded' /\ Past'
    <3>1. ASSUME NEW u \in Time PROVE ~(sent'[crashes'][u] > 0)
      <4>1. sent'[crashes'][u] = 0
        BY <2>5
      <4> QED BY <4>1
    <3>2. Recorded'
      BY <3>1 DEF Recorded
    <3>3. Past'
      BY <2>5 DEF Past
    <3> QED BY <3>2, <3>3
  <2>7. Unsent'
    BY <1>0, <2>1, <2>3 DEF Unsent
  <2> QED BY <2>4, <2>6, <2>7
<1>4. ASSUME NEW t \in Ticks, DigestTickStarts(t)
      PROVE  (Alone /\ Due /\ Recorded /\ Past /\ Unsent /\ Spaced)'
  <2>1. /\ UNCHANGED <<now, mb, sent, lost, crashes>> /\ dtick'[t].pc = "due" /\ dtick'[t].at = now
        /\ \A u \in Ticks : u # t => dtick'[u] = dtick[u]
        /\ dtick[t].pc = "idle"
    BY <1>4, StartTyped
  <2>2. ~overlap /\ \A u \in Ticks : dtick[u].pc = "idle"
    BY <1>4 DEF DigestTickStarts
  <2>3. mb.last # None => now - mb.last >= Gap
    BY <1>4 DEF DigestTickStarts, DigestDue
  <2>4. Alone /\ Due /\ Recorded /\ Past /\ Unsent /\ Spaced
    BY <2>2 DEF OnceInv
  <2>5. Alone' /\ Unsent' /\ Spaced'
    BY <2>1, <2>2, <2>4 DEF Alone, Unsent, Spaced
  <2>6. Due'
    <3>1. mb.last # None => mb.last + Gap <= now
      BY <1>0, <2>3
    <3>2. \A u \in Ticks : dtick'[u].pc # "idle" => u = t /\ dtick'[u].at = now
      BY <2>1, <2>2
    <3> QED BY <2>1, <3>1, <3>2 DEF Due
  <2>7. Recorded'
    BY <2>1, <2>2, <2>4 DEF Recorded
  <2>8. Past'
    <3>1. \A u \in Ticks : dtick'[u].pc # "idle" => dtick'[u].at = now
      BY <2>1, <2>2
    <3> QED BY <2>1, <2>4, <3>1 DEF Past
  <2> QED BY <2>5, <2>6, <2>7, <2>8
<1>5. ASSUME NEW t \in Ticks, TickWorks(t)
      PROVE  (Alone /\ Due /\ Recorded /\ Past /\ Unsent /\ Spaced)'
  <2>1. /\ UNCHANGED <<now, overlap, crashes>> /\ \A u \in Ticks : u # t => dtick'[u] = dtick[u]
        /\ dtick[t].pc # "idle"
    BY <1>5, WorksTyped
       DEF TickWorks, AssembleNothing, Assemble, DigestTaken, DigestMarked, DigestFails,
           DigestTakenForFailed
  <2>2. Alone /\ Due /\ Recorded /\ Past /\ Unsent /\ Spaced
    BY <2>1 DEF OnceInv
  <2>3. \A u \in Ticks : u # t => dtick[u].pc = "idle" /\ dtick'[u].pc = "idle"
    BY <2>1, <2>2 DEF Alone
  <2>4. Alone'
    BY <2>3 DEF Alone
  <2>5. /\ mb.last # None => mb.last + Gap <= dtick[t].at
        /\ dtick[t].at \in Nat /\ dtick[t].at <= now
    BY <1>0, <2>1, <2>2 DEF Due, Typed, Clocks
  <2>9. ASSUME UNCHANGED lost, dtick'[t].pc = "idle" \/ dtick'[t].at = dtick[t].at PROVE Past'
    BY <2>1, <2>2, <2>3, <2>9 DEF Past
  <2>6. CASE AssembleNothing(t) \/ DigestMarked(t)
    <3>1. Success(t) /\ UNCHANGED <<sent, lost>> /\ dtick'[t].pc = "idle"
      BY <1>0, <2>6, NoDigestType DEF AssembleNothing, DigestMarked
    <3>2. mb'.last = dtick[t].at /\ mb'.last # None
      BY <3>1, SuccessRow
    <3>3. ASSUME NEW u \in Time, sent[crashes][u] > 0 PROVE u <= dtick[t].at
      <4>1. u \in Nat
        BY <1>0
      <4>2. CASE mb.last # None /\ u <= mb.last
        BY <1>0, <2>5, <4>1, <4>2
      <4>3. CASE \E w \in Ticks : dtick[w].pc = "mark" /\ dtick[w].at = u
        BY <2>3, <4>1, <4>3
      <4> QED BY <2>2, <3>3, <4>2, <4>3 DEF Recorded
    <3> QED BY <2>1, <2>2, <2>3, <2>4, <2>9, <3>1, <3>2, <3>3 DEF Due, Recorded, Unsent, Spaced
  <2>7. CASE DigestFails(t) \/ \E content \in SUBSET Ids : Assemble(t, content)
    <3>1. /\ UNCHANGED <<sent, lost>> /\ mb'.last = mb.last /\ dtick[t].pc # "mark"
          /\ dtick'[t].pc = "idle" \/ dtick'[t].at = dtick[t].at
      <4>1. CASE DigestFails(t)
        <5>1. mb \in MbType
          BY DEF Typed, TypeOK
        <5>2. mb'.last = mb.last
          BY <4>1, <5>1 DEF DigestFails, Failed, MbType
        <5>3. UNCHANGED <<sent, lost>> /\ dtick[t].pc = "mail" /\ dtick'[t].pc = "idle"
          BY <1>0, <4>1, NoDigestType DEF DigestFails
        <5> QED BY <5>2, <5>3
      <4>2. ASSUME NEW content \in SUBSET Ids, Assemble(t, content)
            PROVE  /\ UNCHANGED <<sent, lost>> /\ mb'.last = mb.last /\ dtick[t].pc # "mark"
                   /\ dtick'[t].at = dtick[t].at
        <5>1. UNCHANGED <<sent, lost, mb>> /\ dtick[t].pc = "due"
          BY <4>2 DEF Assemble
        <5>2. dtick' = [dtick EXCEPT ![t].pc = "mail", ![t].content = content]
          BY <4>2 DEF Assemble
        <5>3. dtick'[t].at = dtick[t].at
          BY <1>0, <5>2 DEF DigestType
        <5> QED BY <5>1, <5>3
      <4> QED BY <2>7, <4>1, <4>2
    <3>2. Due'
      BY <2>3, <2>5, <3>1 DEF Due
    <3>3. Recorded'
      BY <2>1, <2>2, <2>3, <3>1 DEF Recorded
    <3> QED BY <2>1, <2>2, <2>4, <2>9, <3>1, <3>2, <3>3 DEF Unsent, Spaced
  <2>10. ASSUME dtick[t].pc = "mail", NEW u \in Time, sent[crashes][u] > 0
         PROVE  u + Gap <= dtick[t].at
    <3>1. u \in Nat /\ mb.last # None /\ u <= mb.last
      BY <1>0, <2>2, <2>3, <2>10 DEF Recorded
    <3> QED BY <1>0, <2>5, <3>1
  <2>8. CASE DigestTaken(t)
    <3> DEFINE at == dtick[t].at
               run == [sent[crashes] EXCEPT ![at] = @ + 1]
    <3>1. /\ UNCHANGED <<mb, lost>> /\ dtick[t].pc = "mail" /\ sent' = [sent EXCEPT ![crashes] = run]
          /\ dtick' = [dtick EXCEPT ![t] = [@ EXCEPT !.pc = "mark", !.content = {}]]
      BY <2>8 DEF DigestTaken
    <3>2. dtick'[t].pc = "mark" /\ dtick'[t].at = at
      BY <1>0, <3>1 DEF DigestType
    <3>3. /\ at \in Time /\ run[at] = sent[crashes][at] + 1
          /\ \A u \in Time : u # at => run[u] = sent[crashes][u]
      BY <1>0
    <3> HIDE DEF run
    <3>4. /\ sent'[crashes] = run
          /\ \A c \in 0 .. MaxCrashes : c # crashes => sent'[c] = sent[c]
      BY <1>0, <3>1
    <3>5. ASSUME NEW u \in Time, sent[crashes][u] > 0 PROVE u + Gap <= at
      BY <2>10, <3>1, <3>5
    <3>6. sent[crashes][at] = 0
      <4>1. ~(sent[crashes][at] > 0)
        <5>1. at \in Nat /\ ~(at + Gap <= at)
          BY <1>0, <2>5
        <5> QED BY <3>3, <3>5, <5>1
      <4>2. sent[crashes][at] \in Nat
        BY <1>0, <3>3
      <4> QED BY <4>1, <4>2
    <3>7. Due' /\ Unsent'
      BY <1>0, <2>1, <2>2, <2>3, <2>5, <3>1, <3>2, <3>4 DEF Due, Unsent
    <3>8. Recorded'
      <4>1. Recorded
        BY <2>2
      <4> QED BY <2>1, <2>3, <3>1, <3>2, <3>3, <3>4, <4>1 DEF Recorded
    <3>9. Spaced'
      <4>1. ASSUME NEW c \in 0 .. MaxCrashes, NEW u \in Time, NEW v \in Time
            PROVE  /\ sent'[c][u] <= 1
                   /\ sent'[c][u] > 0 /\ (sent'[c][v] > 0 \/ <<c, v>> \in lost) /\ u < v
                        => u + Gap <= v
        <5>1. CASE c # crashes
          BY <2>2, <3>4, <5>1 DEF Spaced
        <5>2. CASE c = crashes
          <6>1. u \in Nat /\ v \in Nat
            BY <1>0
          <6>2. run[u] <= 1
            <7>1. sent[c][u] <= 1
              BY <2>2 DEF Spaced
            <7> QED BY <3>3, <3>6, <5>2, <7>1
          <6>3. run[u] > 0 /\ (run[v] > 0 \/ <<crashes, v>> \in lost) /\ u < v => u + Gap <= v
            <7>1. <<crashes, v>> \in lost => v <= at
              BY <2>1, <2>2 DEF Past
            <7>2. CASE u = at
              <8>1. ASSUME run[v] > 0, u < v PROVE FALSE
                <9>1. v # at
                  BY <6>1, <7>2, <8>1
                <9>2. sent[crashes][v] > 0
                  BY <3>3, <8>1, <9>1
                <9>3. v + Gap <= at
                  BY <3>5, <9>2
                <9> QED BY <1>0, <2>5, <6>1, <7>2, <8>1, <9>3
              <8>2. ~(<<crashes, v>> \in lost /\ u < v)
                BY <6>1, <7>1, <7>2
              <8> QED BY <8>1, <8>2
            <7>3. CASE u # at /\ v = at
              BY <3>3, <3>5, <7>3
            <7>4. CASE u # at /\ v # at
              BY <2>2, <3>3, <5>2, <7>4 DEF Spaced
            <7> QED BY <7>2, <7>3, <7>4
          <6> QED BY <3>4, <5>2, <6>2, <6>3
        <5> QED BY <5>1, <5>2
      <4> QED BY <3>1, <4>1 DEF Spaced
    <3> QED BY <2>4, <2>9, <3>1, <3>2, <3>7, <3>8, <3>9
  <2>11. CASE DigestTakenForFailed(t)
    <3> DEFINE at == dtick[t].at
    <3>1. /\ UNCHANGED sent /\ dtick[t].pc = "mail" /\ lost' = lost \cup {<<crashes, at>>}
          /\ dtick'[t].pc = "idle" /\ mb'.last = mb.last
      <4>1. mb \in MbType
        BY DEF Typed, TypeOK
      <4>2. mb'.last = mb.last
        BY <2>11, <4>1 DEF DigestTakenForFailed, Failed, MbType
      <4> QED BY <1>0, <2>11, <4>2, NoDigestType DEF DigestTakenForFailed
    <3> HIDE DEF at
    <3>2. Due' /\ Recorded'
      BY <2>1, <2>2, <2>3, <3>1 DEF Due, Recorded
    <3>3. \A c \in 0 .. MaxCrashes : c > crashes => c # crashes
      BY <1>0
    <3>4. Unsent'
      BY <2>1, <2>2, <3>1, <3>3 DEF Unsent
    <3>5. Past'
      <4>1. at <= now
        BY <2>5 DEF at
      <4>2. \A u \in Ticks : dtick'[u].pc = "idle"
        BY <2>3, <3>1
      <4> QED BY <2>1, <2>2, <3>1, <4>1, <4>2 DEF Past
    <3>6. Spaced'
      <4> SUFFICES ASSUME NEW c \in 0 .. MaxCrashes, NEW u \in Time, NEW v \in Time
                   PROVE  /\ sent[c][u] <= 1
                          /\ sent[c][u] > 0 /\ (sent[c][v] > 0 \/ <<c, v>> \in lost') /\ u < v
                               => u + Gap <= v
        BY <3>1 DEF Spaced
      <4>1. CASE <<c, v>> \in lost \/ sent[c][v] > 0 \/ <<c, v>> # <<crashes, at>>
        BY <2>2, <3>1, <4>1 DEF Spaced
      <4>2. CASE c = crashes /\ v = at
        BY <2>2, <2>10, <3>1, <4>2 DEF Spaced, at
      <4> QED BY <4>1, <4>2
    <3> QED BY <2>4, <3>2, <3>4, <3>5, <3>6
  <2> QED BY <1>5, <2>6, <2>7, <2>8, <2>11 DEF TickWorks
<1> QED BY <1>1, <1>2, <1>3, <1>4, <1>5, Cases

\* A process whose ticks do not overlap, and which knows that a digest is sent, sends no
\* other for twelve hours (digester.ts).
THEOREM OneDigestPerGap == Spec => []DigestOnce
<1>1. OnceInv => DigestOnce
  BY DEF OnceInv, Spaced, DigestOnce
<1> QED BY <1>1, TypesInit, TypesStep, OnceInit, OnceStep, PTL DEF Spec
-----------------------------------------------------------------------------
\* A call, with what it carries and what has become of it.
CallType == [kind : SignInKinds \cup {"start", "revoke", "list", "push"}, no : 0 .. MaxSignIns, bearer : 0 .. MaxSignIns,
             cookie : 0 .. MaxSignIns, token : 0 .. MaxTokens, at : {"up", "down"}, ok : BOOLEAN, ours : BOOLEAN]

PhoneWell ==
  /\ PhoneTypeOK /\ calls \subseteq CallType /\ begun \in 0 .. MaxSignIns
  /\ \A c \in calls : c.token <= expo /\ (c.kind \in SignInKinds => c.no \in SignIns)
  /\ \A n \in SignIns : given[n] <= expo

\* Sign-in n has not made its row.
Unmade(n) == rows[n] = NoRow /\ given[n] = 0

\* The call that makes the row of its sign-in, or that the one which makes it will follow.
Pairing(c) == (c.kind = "login" /\ c.ours) \/ Up(c, "register")

\* A row is made once, by the one call of its sign-in.
Paired ==
  /\ \A c \in calls : Pairing(c) => c.no <= begun /\ Unmade(c.no)
  /\ \A c, e \in calls : Pairing(c) /\ Pairing(e) /\ c.no = e.no => c = e
  /\ \A c \in calls : c.kind = "register" /\ c.at = "down" /\ c.ok => rows[c.no].made
  /\ \A n \in SignIns : rows[n].made => n <= begun
  /\ \A n \in SignIns : ~rows[n].made => Unmade(n)

\* The tokens that the app has, and that its calls carry, are those of rows.
Borne ==
  /\ stored # 0 => rows[stored].made
  /\ \A c \in calls : c.bearer # 0 => rows[c.bearer].made

\* Row n is the app's, or was dropped, or is revoked.
Held(n) == n = stored \/ n \in dropped \/ ~rows[n].active

\* The row of the token that a call carries is revoked: so it is when the server has answered
\* a revocation, or has answered a read with 401.
Over(c) == c.bearer # 0 => ~rows[c.bearer].active
Ending(c) == c.at = "down" /\ (c.kind = "revoke" \/ (c.kind \in {"me", "start", "list"} /\ ~c.ok))
Holders ==
  /\ \A n \in SignIns : rows[n].push # 0 => Held(n)
  /\ \A c \in calls : (c.bearer # 0 => Held(c.bearer)) /\ (Ending(c) => Over(c))

\* While the app starts it does nothing else, and its call carries what the app has.
Starting(c) ==
  /\ status = "unknown" /\ \A e \in calls : e.ours => e = c
  /\ c.cookie = cookie /\ c.bearer \in {0, stored}
  /\ c.at = "down" /\ c.ok /\ c.bearer = 0 => c.cookie # 0

\* Who has signed out is not signing in, and has no token but one that could not be deleted.
Intent ==
  /\ wants = "out" => stored = kept /\ ~SigningIn
  /\ \A c \in calls : c.ours /\ c.kind = "start" => Starting(c)

PhoneInv == PhoneWell /\ Paired /\ Borne /\ Holders /\ NotificationsStayOn /\ Intent /\ StaysSignedOut
-----------------------------------------------------------------------------
(* Calls.                                                                  *)

LEMMA PhoneConstants ==
  /\ MaxSignIns \in Nat /\ MaxTokens \in Nat /\ 1 \in Tokens
  /\ SignIns = 1 .. MaxSignIns /\ 0 \notin SignIns /\ Tokens = 1 .. MaxTokens
  /\ \A n \in 0 .. MaxSignIns : n # 0 => n \in SignIns
  BY PhoneConstantsOK DEF SignIns, Tokens

\* Call e is c, in another place.
Like(e, c) ==
  /\ e \in CallType /\ e.kind = c.kind /\ e.bearer = c.bearer /\ e.cookie = c.cookie
  /\ e.no = c.no /\ e.token = c.token

\* Call e is c, with its answer; or given up.
Done(e, c, ok) == Like(e, c) /\ e.at = "down" /\ e.ok = ok /\ e.ours /\ e = [c EXCEPT !.at = "down", !.ok = ok]
Alas(e, c) == Like(e, c) /\ c.at = "up" /\ e.at = "up" /\ ~e.ours /\ e = [c EXCEPT !.ours = FALSE]

LEMMA CallMoved ==
  ASSUME NEW c \in CallType
  PROVE  /\ \A ok \in BOOLEAN : c.ours => Done([c EXCEPT !.at = "down", !.ok = ok], c, ok)
         /\ c.at = "up" => Alas([c EXCEPT !.ours = FALSE], c)
<1>1. ASSUME NEW ok \in BOOLEAN, c.ours PROVE Done([c EXCEPT !.at = "down", !.ok = ok], c, ok)
  <2> DEFINE e == [c EXCEPT !.at = "down", !.ok = ok]
  <2>1. e \in CallType
    BY DEF CallType
  <2>2. /\ e.kind = c.kind /\ e.bearer = c.bearer /\ e.cookie = c.cookie /\ e.no = c.no /\ e.token = c.token
        /\ e.at = "down" /\ e.ok = ok /\ e.ours = c.ours
    BY DEF CallType
  <2>3. e = [c EXCEPT !.at = "down", !.ok = ok]
    OBVIOUS
  <2> HIDE DEF e
  <2>4. Done(e, c, ok)
    BY <1>1, <2>1, <2>2, <2>3 DEF Done, Like
  <2> QED BY <2>3, <2>4
<1>2. ASSUME c.at = "up" PROVE Alas([c EXCEPT !.ours = FALSE], c)
  <2> DEFINE e == [c EXCEPT !.ours = FALSE]
  <2>1. e \in CallType
    BY DEF CallType
  <2>2. /\ e.kind = c.kind /\ e.bearer = c.bearer /\ e.cookie = c.cookie /\ e.no = c.no /\ e.token = c.token
        /\ e.at = c.at /\ e.ours = FALSE
    BY DEF CallType
  <2>3. e = [c EXCEPT !.ours = FALSE]
    OBVIOUS
  <2> HIDE DEF e
  <2>4. Alas(e, c)
    BY <1>2, <2>1, <2>2, <2>3 DEF Alas, Like
  <2> QED BY <2>3, <2>4
<1> QED BY <1>1, <1>2

\* The server answers c.
ServedCall(c, ok) ==
  /\ c \in calls /\ c.at = "up"
  /\ \A e \in calls' : (e \in calls /\ e # c) \/ (c.ours /\ Done(e, c, ok))

LEMMA AnsweredServes ==
  ASSUME PhoneWell, NEW c \in calls, NEW ok \in BOOLEAN, c.at = "up", Answered(c, ok)
  PROVE  ServedCall(c, ok)
<1>1. c \in CallType
  BY DEF PhoneWell
<1>2. c.ours => Done([c EXCEPT !.at = "down", !.ok = ok], c, ok)
  BY <1>1, CallMoved
<1>3. ASSUME NEW e \in calls' PROVE (e \in calls /\ e # c) \/ (c.ours /\ e = [c EXCEPT !.at = "down", !.ok = ok])
  <2>1. CASE c.ours
    BY <1>3, <2>1 DEF Answered
  <2>2. CASE ~c.ours
    BY <1>3, <2>2 DEF Answered
  <2> QED BY <2>1, <2>2
<1> QED BY <1>2, <1>3 DEF ServedCall

\* The app has the answer to d or gives it up, and makes the calls of N.
Says(d, ok) == (ok = "yes" => d.at = "down" /\ d.ok) /\ (ok = "no" => d.at = "down" /\ ~d.ok)
Ends(d, N) ==
  /\ d \in calls /\ d.ours
  /\ \A e \in calls' : (e \in calls /\ e # d) \/ Alas(e, d) \/ e \in N

LEMMA AnswerEnds ==
  ASSUME PhoneWell, NEW d \in calls, NEW ok, NEW N, Answer(d, ok, N)
  PROVE  Says(d, ok) /\ Ends(d, N)
<1>1. /\ d.ours
      /\ \/ d.at = "down" /\ ok = (IF d.ok THEN "yes" ELSE "no") /\ calls' = (calls \ {d}) \cup N
         \/ /\ ok = "none"
            /\ \/ calls' = (calls \ {d}) \cup N
               \/ d.at = "up" /\ calls' = (calls \ {d}) \cup {[d EXCEPT !.ours = FALSE]} \cup N
  BY DEF Answer
<1>2. d.at = "up" => Alas([d EXCEPT !.ours = FALSE], d)
  BY CallMoved DEF PhoneWell
<1>3. Says(d, ok)
  BY <1>1 DEF Says
<1>4. Ends(d, N)
  BY <1>1, <1>2 DEF Ends
<1> QED BY <1>3, <1>4

\* A new call.
Asked(n, kind, no, bearer, jar, token) ==
  /\ n \in CallType /\ n.kind = kind /\ n.no = no /\ n.bearer = bearer /\ n.cookie = jar /\ n.token = token
  /\ n.at = "up" /\ n.ours

LEMMA CallAsked ==
  ASSUME NEW kind \in SignInKinds \cup {"start", "revoke", "list", "push"}, NEW no \in 0 .. MaxSignIns,
         NEW bearer \in 0 .. MaxSignIns, NEW jar \in 0 .. MaxSignIns, NEW token \in 0 .. MaxTokens
  PROVE  Asked(Call(kind, no, bearer, jar, token), kind, no, bearer, jar, token)
<1> DEFINE n == Call(kind, no, bearer, jar, token)
<1>1. n = [kind |-> kind, no |-> no, bearer |-> bearer, cookie |-> jar, token |-> token,
           at |-> "up", ok |-> FALSE, ours |-> TRUE]
  BY DEF Call
<1> HIDE DEF n
<1>2. Asked(n, kind, no, bearer, jar, token)
  BY <1>1 DEF Asked, CallType
<1> QED BY <1>2 DEF n

\* What the app has to put into a call.
LEMMA HasAtHand ==
  ASSUME PhoneWell
  PROVE  /\ stored \in 0 .. MaxSignIns /\ cookie \in 0 .. MaxSignIns /\ begun \in 0 .. MaxSignIns /\ expo \in 0 .. MaxTokens
         /\ 0 \in 0 .. MaxSignIns /\ 0 \in 0 .. MaxTokens /\ Bearers \subseteq 0 .. MaxSignIns
         /\ \A c \in calls : c.no \in 0 .. MaxSignIns
  BY PhoneConstants DEF PhoneWell, PhoneTypeOK, Bearers
-----------------------------------------------------------------------------
(* What each step does.                                                    *)

Counted == <<begun, wants, dropped, kept>>

\* The server.
Tells(c) == /\ c.kind \in {"login", "logout"} /\ alive' \subseteq alive \cup (IF c.kind = "login" THEN {c.no} ELSE {})
            /\ UNCHANGED <<rows, given>>
Shows(c, ok) == c.kind \in {"me", "start", "list"} /\ ok = Allowed(c) /\ UNCHANGED <<server, given>>
Makes(c, ok) ==
  /\ c.kind = "register" /\ UNCHANGED <<alive, given>>
  /\ ok => rows' = [rows EXCEPT ![c.no] = [made |-> TRUE, active |-> TRUE, push |-> 0]]
  /\ ~ok => rows' = rows
Sets(c) ==
  /\ c.kind = "push" /\ alive' = alive
  /\ \/ UNCHANGED <<rows, given>>
     \/ /\ c.bearer # 0 /\ rows[c.bearer].active /\ rows' = Given(c.bearer, c.token)
        /\ given' = [m \in SignIns |-> IF m = c.bearer THEN c.token ELSE IF given[m] = c.token THEN 0 ELSE given[m]]
Revokes(c, ok) ==
  /\ c.kind = "revoke" /\ alive' = alive
  /\ \/ Over(c) /\ UNCHANGED <<rows, given>>
     \/ /\ c.bearer # 0 /\ rows' = [rows EXCEPT ![c.bearer].active = FALSE, ![c.bearer].push = 0]
        /\ given' = [given EXCEPT ![c.bearer] = 0]
ServerStep(c, ok) ==
  /\ ServedCall(c, ok) /\ UNCHANGED <<app, expo, notes, Counted>>
  /\ Tells(c) \/ Shows(c, ok) \/ Makes(c, ok) \/ Sets(c) \/ Revokes(c, ok)

LEMMA ServeDoes ==
  ASSUME PhoneWell, Serve
  PROVE  \E c \in calls, ok \in BOOLEAN : ServerStep(c, ok)
<1>1. PICK c \in calls : ServeLogin(c) \/ ServeRegister(c) \/ ServeLogout(c) \/ ServeRead(c) \/ ServePush(c) \/ ServeRevoke(c)
  BY DEF Serve
<1>2. Allowed(c) \in BOOLEAN /\ (Device(c) # 0) \in BOOLEAN
  BY DEF Allowed
<1>3. Device(c) # 0 => Device(c) = c.bearer /\ c.bearer # 0 /\ rows[c.bearer].active
  BY DEF Device, RowOf
<1>4. Device(c) = 0 => Over(c)
  BY DEF Device, RowOf, Over
<1>5. CASE ServeLogin(c) \/ ServeLogout(c)
  <2>1. PICK ok \in BOOLEAN : Answered(c, ok)
    BY <1>5 DEF ServeLogin, ServeLogout
  <2>2. c.at = "up" /\ Tells(c) /\ UNCHANGED <<app, expo, notes, Counted>>
    BY <1>5 DEF ServeLogin, ServeLogout, Up, Tells, history, counters, Counted
  <2> QED BY <2>1, <2>2, AnsweredServes DEF ServerStep
<1>6. CASE ServeRegister(c)
  <2>1. ServedCall(c, Allowed(c))
    BY <1>2, <1>6, AnsweredServes DEF ServeRegister, Up
  <2>2. Makes(c, Allowed(c)) /\ UNCHANGED <<app, expo, notes, Counted>>
    BY <1>6 DEF ServeRegister, Up, Makes, history, counters, Counted
  <2> QED BY <1>2, <2>1, <2>2 DEF ServerStep
<1>7. CASE ServeRead(c)
  <2>1. ServedCall(c, Allowed(c))
    BY <1>2, <1>7, AnsweredServes DEF ServeRead
  <2>2. Shows(c, Allowed(c)) /\ UNCHANGED <<app, expo, notes, Counted>>
    BY <1>7 DEF ServeRead, Shows, history, counters, Counted
  <2> QED BY <1>2, <2>1, <2>2 DEF ServerStep
<1>8. CASE ServePush(c)
  <2>1. ServedCall(c, Device(c) # 0)
    BY <1>2, <1>8, AnsweredServes DEF ServePush, Up
  <2>2. Sets(c) /\ UNCHANGED <<app, expo, notes, Counted>>
    BY <1>3, <1>8 DEF ServePush, Up, Sets, counters, Counted
  <2> QED BY <1>2, <2>1, <2>2 DEF ServerStep
<1>9. CASE ServeRevoke(c)
  <2>1. ServedCall(c, Allowed(c))
    BY <1>2, <1>9, AnsweredServes DEF ServeRevoke, Up
  <2>2. Revokes(c, Allowed(c)) /\ UNCHANGED <<app, expo, notes, Counted>>
    BY <1>3, <1>4, <1>9 DEF ServeRevoke, Up, Revokes, counters, Counted
  <2> QED BY <1>2, <2>1, <2>2 DEF ServerStep
<1> QED BY <1>1, <1>5, <1>6, <1>7, <1>8, <1>9

\* The app asks for something.
AsksMore(n) ==
  /\ calls' = calls \cup {n} /\ status = "authenticated" /\ UNCHANGED <<app, Counted>>
  /\ \E kind \in {"list", "push", "revoke"}, no \in {0, begun}, bearer \in Bearers, t \in {0, expo} :
       Asked(n, kind, no, bearer, cookie, t)
SignsIn(n) ==
  /\ calls' = calls \cup {n} /\ Asked(n, "login", begun + 1, 0, cookie, 0) /\ status = "unauthenticated"
  /\ begun' = begun + 1 /\ begun + 1 \in SignIns /\ wants' = "in" /\ UNCHANGED <<app, dropped, kept>>

\* The app starts again.
Starts(n) ==
  /\ \A e \in calls' : e = n \/ \E d \in calls : Alas(e, d)
  /\ \E bearer \in Bearers : Asked(n, "start", 0, bearer, cookie, 0)
  /\ status' = "unknown" /\ UNCHANGED <<stored, cookie, Counted>>

\* A sign-in goes on.
GetsCookie(d, n) ==
  /\ d.kind = "login" /\ d.at = "down" /\ Ends(d, {n}) /\ Asked(n, "register", d.no, 0, d.no, 0)
  /\ cookie' = d.no /\ UNCHANGED <<status, stored, Counted>>
GetsToken(d, n) ==
  /\ d.kind = "register" /\ d.at = "down" /\ d.ok /\ Ends(d, {n}) /\ Asked(n, "logout", d.no, 0, cookie, 0)
  /\ (stored' = d.no /\ kept' = 0) \/ UNCHANGED <<stored, kept>>
  /\ dropped' = dropped \cup ({stored, d.no} \ {stored', 0}) /\ UNCHANGED <<status, cookie, begun, wants>>
LeavesSession(d, n) ==
  /\ d.kind = "logout" /\ Ends(d, {n}) /\ \E jar \in {0, cookie}, bearer \in Bearers : Asked(n, "me", d.no, bearer, jar, 0)
  /\ cookie' \in {0, cookie} /\ UNCHANGED <<status, stored, Counted>>
SignInGoes(d, n) == GetsCookie(d, n) \/ GetsToken(d, n) \/ LeavesSession(d, n)

\* An answer, or none, is the last of its chain. It leaves the token where it is ...
Keeps(d) ==
  /\ UNCHANGED <<stored, Counted>>
  /\ \/ status' = status
     \/ status' = "authenticated" /\ d.kind = "me"
     \/ /\ status' \in {"authenticated", "unauthenticated"} /\ d.kind = "start"
        /\ status' = "authenticated" => stored # 0 \/ (d.at = "down" /\ d.ok)
\* ... or has it deleted.
Drops(d) ==
  /\ status' = "unauthenticated" /\ begun' = begun /\ stored' = kept' /\ stored' \in {0, stored}
  /\ \E told : (told # 0 => told = d.bearer /\ Ending(d)) /\ dropped' = dropped \cup ({stored} \ {stored', 0, told})
  /\ wants' = wants \/ (wants' = "out" /\ ~SigningIn)
Hears(d) == Ends(d, {}) /\ cookie' = cookie /\ (Keeps(d) \/ Drops(d))

AppStep ==
  /\ UNCHANGED <<server, expo, notes, given>>
  /\ \/ \E n : AsksMore(n) \/ SignsIn(n) \/ Starts(n)
     \/ \E d \in calls : Hears(d) \/ \E n : SignInGoes(d, n)

LEMMA AppAsks ==
  ASSUME PhoneWell, List \/ SetPush \/ SignOut \/ SignIn
  PROVE  AppStep
<1>1. CASE List
  <2>1. PICK bearer \in Bearers : Send(Call("list", 0, bearer, cookie, 0))
    BY <1>1 DEF List
  <2>2. Asked(Call("list", 0, bearer, cookie, 0), "list", 0, bearer, cookie, 0)
    BY HasAtHand, CallAsked
  <2>3. AsksMore(Call("list", 0, bearer, cookie, 0))
    BY <1>1, <2>1, <2>2 DEF List, Send, AsksMore, history, counters, Counted
  <2> QED BY <1>1, <2>3 DEF List, AppStep, history
<1>2. CASE SetPush
  <2>1. PICK t \in {0, expo}, bearer \in Bearers : Send(Call("push", 0, bearer, cookie, t))
    BY <1>2 DEF SetPush
  <2>2. Asked(Call("push", 0, bearer, cookie, t), "push", 0, bearer, cookie, t)
    BY HasAtHand, CallAsked
  <2>3. AsksMore(Call("push", 0, bearer, cookie, t))
    BY <1>2, <2>1, <2>2 DEF SetPush, Send, AsksMore, history, counters, Counted
  <2> QED BY <1>2, <2>3 DEF SetPush, AppStep, history
<1>3. CASE SignOut
  <2>1. PICK bearer \in Bearers : Send(Call("revoke", begun, bearer, cookie, 0))
    BY <1>3 DEF SignOut
  <2>2. Asked(Call("revoke", begun, bearer, cookie, 0), "revoke", begun, bearer, cookie, 0)
    BY HasAtHand, CallAsked
  <2>3. AsksMore(Call("revoke", begun, bearer, cookie, 0))
    BY <1>3, <2>1, <2>2 DEF SignOut, Send, AsksMore, history, counters, Counted
  <2> QED BY <1>3, <2>3 DEF SignOut, AppStep, history
<1>4. CASE SignIn
  <2>1. begun + 1 \in 0 .. MaxSignIns /\ begun + 1 \in SignIns
    BY <1>4, HasAtHand, PhoneConstants DEF SignIn
  <2>2. Asked(Call("login", begun + 1, 0, cookie, 0), "login", begun + 1, 0, cookie, 0)
    BY <2>1, HasAtHand, CallAsked DEF SignInKinds
  <2>3. SignsIn(Call("login", begun + 1, 0, cookie, 0))
    BY <1>4, <2>1, <2>2 DEF SignIn, Send, SignsIn
  <2> QED BY <1>4, <2>3 DEF SignIn, AppStep
<1> QED BY <1>1, <1>2, <1>3, <1>4

LEMMA StartDoes ==
  ASSUME PhoneWell, Start
  PROVE  AppStep
<1>1. PICK gone \in SUBSET calls, bearer \in Bearers :
        calls' = {[c EXCEPT !.ours = FALSE] : c \in {d \in calls : d.at = "up"} \ gone}
                   \cup {Call("start", 0, bearer, cookie, 0)}
  BY DEF Start
<1> DEFINE n == Call("start", 0, bearer, cookie, 0)
<1>2. Asked(n, "start", 0, bearer, cookie, 0)
  BY HasAtHand, CallAsked
<1> HIDE DEF n
<1>3. ASSUME NEW e \in calls', e # n PROVE \E d \in calls : Alas(e, d)
  <2>1. PICK d \in calls : d.at = "up" /\ e = [d EXCEPT !.ours = FALSE]
    BY <1>1, <1>3 DEF n
  <2>2. Alas(e, d)
    BY <2>1, CallMoved DEF PhoneWell
  <2> QED BY <2>2
<1>4. Starts(n)
  BY <1>2, <1>3 DEF Start, Starts, Counted
<1> QED BY <1>4 DEF Start, AppStep

LEMMA SignInDoes ==
  ASSUME PhoneWell, NEW c \in calls, SignInCookie(c) \/ SignInToken(c) \/ SignInLogout(c)
  PROVE  AppStep
<1>1. CASE SignInCookie(c)
  <2>1. CASE Answer(c, "yes", {Call("register", c.no, 0, c.no, 0)}) /\ cookie' = c.no
    <3> DEFINE n == Call("register", c.no, 0, c.no, 0)
    <3>1. Asked(n, "register", c.no, 0, c.no, 0)
      BY HasAtHand, CallAsked DEF SignInKinds
    <3>2. Says(c, "yes") /\ Ends(c, {n})
      BY <2>1, AnswerEnds
    <3> HIDE DEF n
    <3>3. GetsCookie(c, n)
      BY <1>1, <2>1, <3>1, <3>2 DEF SignInCookie, GetsCookie, Counted, Says
    <3> QED BY <1>1, <3>3 DEF SignInGoes, SignInCookie, AppStep
  <2>2. CASE \E no \in {"no", "none"} : Answer(c, no, {}) /\ cookie' = cookie
    <3>1. Ends(c, {})
      BY <2>2, AnswerEnds
    <3>2. Hears(c)
      BY <1>1, <2>2, <3>1 DEF SignInCookie, Hears, Keeps, Counted
    <3> QED BY <1>1, <3>2 DEF SignInCookie, AppStep
  <2> QED BY <1>1, <2>1, <2>2 DEF SignInCookie
<1>2. CASE SignInToken(c)
  <2>1. CASE /\ Answer(c, "yes", {Call("logout", c.no, 0, cookie, 0)})
             /\ (stored' = c.no /\ kept' = 0) \/ UNCHANGED <<stored, kept>>
             /\ dropped' = dropped \cup ({stored, c.no} \ {stored', 0})
    <3> DEFINE n == Call("logout", c.no, 0, cookie, 0)
    <3>1. Asked(n, "logout", c.no, 0, cookie, 0)
      BY HasAtHand, CallAsked DEF SignInKinds
    <3>2. Says(c, "yes") /\ Ends(c, {n})
      BY <2>1, AnswerEnds
    <3> HIDE DEF n
    <3>3. GetsToken(c, n)
      BY <1>2, <2>1, <3>1, <3>2 DEF SignInToken, GetsToken, Says
    <3> QED BY <1>2, <3>3 DEF SignInGoes, SignInToken, AppStep
  <2>2. CASE \E no \in {"no", "none"} : Answer(c, no, {}) /\ UNCHANGED <<stored, dropped, kept>>
    <3>1. Ends(c, {})
      BY <2>2, AnswerEnds
    <3>2. Hears(c)
      BY <1>2, <2>2, <3>1 DEF SignInToken, Hears, Keeps, Counted
    <3> QED BY <1>2, <3>2 DEF SignInToken, AppStep
  <2> QED BY <1>2, <2>1, <2>2 DEF SignInToken
<1>3. CASE SignInLogout(c)
  <2>1. PICK bearer \in Bearers :
           \/ Answer(c, "yes", {Call("me", c.no, bearer, 0, 0)}) /\ cookie' = 0
           \/ Answer(c, "none", {Call("me", c.no, bearer, cookie, 0)}) /\ cookie' = cookie
    BY <1>3 DEF SignInLogout
  <2>2. ASSUME NEW jar \in {0, cookie}, NEW ok, Answer(c, ok, {Call("me", c.no, bearer, jar, 0)}), cookie' \in {0, cookie}
        PROVE  AppStep
    <3> DEFINE n == Call("me", c.no, bearer, jar, 0)
    <3>1. Asked(n, "me", c.no, bearer, jar, 0)
      BY HasAtHand, CallAsked DEF SignInKinds
    <3>2. Ends(c, {n})
      BY <2>2, AnswerEnds
    <3> HIDE DEF n
    <3>3. LeavesSession(c, n)
      BY <1>3, <2>2, <3>1, <3>2 DEF SignInLogout, LeavesSession, Counted
    <3> QED BY <1>3, <3>3 DEF SignInGoes, SignInLogout, AppStep
  <2> QED BY <2>1, <2>2
<1> QED BY <1>1, <1>2, <1>3

\* A token is deleted, or not.
LEMMA ClearsDrops ==
  ASSUME NEW told, Clears(Deleted, told)
  PROVE  stored' = kept' /\ stored' \in {0, stored} /\ dropped' = dropped \cup ({stored} \ {stored', 0, told})
  BY DEF Clears, Deleted

LEMMA HearsDoes ==
  ASSUME PhoneWell, NEW c \in calls, SignInMe(c) \/ Bootstrap(c) \/ SignedOut(c) \/ Listed(c) \/ PushSet(c)
  PROVE  AppStep
<1>0. SUFFICES Hears(c)
  BY DEF AppStep, SignInMe, Bootstrap, SignedOut, Listed, PushSet, server, app
<1>1. ASSUME c.kind \in {"me", "list"}, Answer(c, "no", {}), Unauthorized(c), UNCHANGED <<cookie, begun, wants>>
      PROVE  Hears(c)
  <2>1. Ends(c, {}) /\ Ending(c)
    BY <1>1, AnswerEnds DEF Says, Ending
  <2>2. CASE Heeds(status)
    <3>1. status' = "unauthenticated" /\ Clears(Deleted, c.bearer)
      BY <1>1, <2>2 DEF Unauthorized
    <3>2. Drops(c)
      BY <1>1, <2>1, <3>1, ClearsDrops DEF Drops
    <3> QED BY <1>1, <2>1, <3>2 DEF Hears
  <2>3. CASE ~Heeds(status)
    BY <1>1, <2>1, <2>3 DEF Unauthorized, Hears, Keeps, Counted
  <2> QED BY <2>2, <2>3
<1>2. ASSUME NEW ok, Answer(c, ok, {}), UNCHANGED <<status, stored, cookie, Counted>> PROVE Hears(c)
  BY <1>2, AnswerEnds DEF Hears, Keeps
<1>3. CASE SignInMe(c)
  <2>1. CASE Answer(c, "yes", {}) /\ status' = "authenticated" /\ UNCHANGED <<stored, dropped, kept>>
    BY <1>3, <2>1, AnswerEnds DEF SignInMe, Hears, Keeps, Counted
  <2> QED BY <1>1, <1>2, <1>3, <2>1 DEF SignInMe, Counted
<1>4. CASE Bootstrap(c)
  <2>1. CASE Answer(c, "yes", {}) /\ status' = "authenticated" /\ UNCHANGED <<stored, dropped, kept>>
    BY <1>4, <2>1, AnswerEnds DEF Bootstrap, Hears, Keeps, Counted, Says
  <2>2. CASE Answer(c, "no", {}) /\ status' = "unauthenticated" /\ Clears(Deleted, c.bearer)
    <3>1. Ends(c, {}) /\ Ending(c)
      BY <1>4, <2>2, AnswerEnds DEF Bootstrap, Says, Ending
    <3>2. Drops(c)
      BY <1>4, <2>2, <3>1, ClearsDrops DEF Bootstrap, Drops
    <3> QED BY <1>4, <3>1, <3>2 DEF Bootstrap, Hears
  <2>3. CASE /\ Answer(c, "none", {}) /\ UNCHANGED <<stored, dropped, kept>>
             /\ \E bearer \in Bearers : status' = IF bearer # 0 THEN "authenticated" ELSE "unauthenticated"
    <3>1. Keeps(c)
      BY <1>4, <2>3 DEF Bootstrap, Keeps, Counted, Bearers
    <3> QED BY <1>4, <2>3, <3>1, AnswerEnds DEF Bootstrap, Hears
  <2> QED BY <1>4, <2>1, <2>2, <2>3 DEF Bootstrap
<1>5. CASE SignedOut(c)
  <2>1. PICK ok \in {"yes", "no", "none"} : Answer(c, ok, {}) /\ Clears(Deleted, IF ok = "none" THEN 0 ELSE c.bearer)
    BY <1>5 DEF SignedOut, Forgotten
  <2>2. Ends(c, {}) /\ (ok # "none" => Ending(c))
    BY <1>5, <2>1, AnswerEnds DEF SignedOut, Says, Ending
  <2>3. wants' = wants \/ (wants' = "out" /\ ~SigningIn)
    BY <1>5 DEF SignedOut
  <2> DEFINE told == IF ok = "none" THEN 0 ELSE c.bearer
  <2>4. (told # 0 => told = c.bearer /\ Ending(c)) /\ Clears(Deleted, told)
    BY <2>1, <2>2
  <2> HIDE DEF told
  <2>5. Drops(c)
    BY <1>5, <2>3, <2>4, ClearsDrops DEF SignedOut, Drops
  <2> QED BY <1>5, <2>2, <2>5 DEF SignedOut, Hears
<1>6. CASE Listed(c)
  BY <1>1, <1>2, <1>6 DEF Listed, Counted
<1>7. CASE PushSet(c)
  BY <1>2, <1>7 DEF PushSet, app, Counted
<1> QED BY <1>3, <1>4, <1>5, <1>6, <1>7

\* Expo and the notifications.
ExpoStep ==
  /\ UNCHANGED <<app, alive, calls, given, Counted>>
  /\ \/ expo' = expo + 1 /\ expo + 1 \in Tokens /\ UNCHANGED <<rows, notes>>
     \/ rows' = rows /\ expo' = expo /\ notes' \subseteq notes \cup {Notified}
     \/ /\ expo' = expo /\ notes' \subseteq notes
        /\ \E gone \in SUBSET SignIns :
             /\ \A n \in gone : rows[n].push # expo
             /\ rows' = [n \in SignIns |-> IF n \in gone THEN [rows[n] EXCEPT !.push = 0] ELSE rows[n]]

LEMMA ExpoDoes ==
  ASSUME PhoneWell, Rotate \/ Notify \/ Tickets
  PROVE  ExpoStep
<1>1. CASE Rotate
  <2>1. expo + 1 \in Tokens
    BY <1>1, PhoneConstants DEF Rotate, PhoneWell, PhoneTypeOK
  <2> QED BY <1>1, <2>1 DEF Rotate, ExpoStep, server, history, counters, Counted
<1>2. CASE Notify
  BY <1>2 DEF Notify, ExpoStep, server, history, counters, Counted
<1>3. CASE Tickets
  <2>1. PICK note \in notes :
           /\ notes' = notes \ {note}
           /\ \/ rows' = [n \in SignIns |->
                            IF \E d \in note : d.no = n /\ d.token # expo /\ StillDead(rows[n], d.token)
                              THEN [rows[n] EXCEPT !.push = 0] ELSE rows[n]]
              \/ rows' = rows
           /\ UNCHANGED <<alive, app, expo, calls, history>>
    BY <1>3 DEF Tickets
  <2> DEFINE gone == {n \in SignIns : \E d \in note : d.no = n /\ d.token # expo /\ StillDead(rows[n], d.token)}
  <2>2. \A n \in gone : rows[n].push # expo
    BY DEF StillDead
  <2>3. CASE rows' = rows
    BY <2>1, <2>3 DEF ExpoStep, history, counters, Counted
  <2>4. CASE rows' = [n \in SignIns |-> IF \E d \in note : d.no = n /\ d.token # expo /\ StillDead(rows[n], d.token)
                                          THEN [rows[n] EXCEPT !.push = 0] ELSE rows[n]]
    <3>1. rows' = [n \in SignIns |-> IF n \in gone THEN [rows[n] EXCEPT !.push = 0] ELSE rows[n]]
      BY <2>4
    <3>2. gone \in SUBSET SignIns
      OBVIOUS
    <3> HIDE DEF gone
    <3> QED BY <2>1, <2>2, <3>1, <3>2 DEF ExpoStep, history, counters, Counted
  <2> QED BY <2>1, <2>3, <2>4
<1> QED BY <1>1, <1>2, <1>3

PhoneStep == (\E c \in calls, ok \in BOOLEAN : ServerStep(c, ok)) \/ AppStep \/ ExpoStep

LEMMA PhoneSteps ==
  ASSUME PhoneWell, [PhoneNext]_phoneVars
  PROVE  PhoneStep
<1>1. CASE UNCHANGED phoneVars
  BY <1>1 DEF phoneVars, PhoneStep, ExpoStep, server, history, counters, Counted
<1>2. CASE App
  <2>1. AppStep
    BY <1>2, AppAsks, StartDoes, SignInDoes, HearsDoes DEF App
  <2> QED BY <2>1 DEF PhoneStep
<1>3. CASE Serve
  BY <1>3, ServeDoes DEF PhoneStep
<1>4. CASE Rotate \/ Notify \/ Tickets
  BY <1>4, ExpoDoes DEF PhoneStep
<1> QED BY <1>1, <1>2, <1>3, <1>4 DEF PhoneNext
-----------------------------------------------------------------------------
(* Types.                                                                  *)

GoodCall(c, token) == c \in CallType /\ c.token <= token /\ (c.kind \in SignInKinds => c.no \in SignIns)

LEMMA GoodAsked ==
  ASSUME PhoneWell, NEW n, NEW kind, NEW no, NEW bearer, NEW jar, NEW token,
         Asked(n, kind, no, bearer, jar, token), token \in {0, expo}, kind \in SignInKinds => no \in SignIns
  PROVE  GoodCall(n, expo)
<1>1. expo \in Nat
  BY PhoneConstants DEF PhoneWell, PhoneTypeOK
<1> QED BY <1>1 DEF Asked, GoodCall

LEMMA GoodLike ==
  ASSUME PhoneWell, NEW c \in calls
  PROVE  GoodCall(c, expo) /\ \A e : Like(e, c) => GoodCall(e, expo)
  BY DEF PhoneWell, GoodCall, Like

\* Where a call comes from: it was there, moved, is new.
Was(e) == e \in calls \/ \E d \in calls : Alas(e, d)
New(e) == AsksMore(e) \/ SignsIn(e) \/ Starts(e) \/ \E d \in calls : SignInGoes(d, e)

LEMMA CallsFrom ==
  ASSUME PhoneStep, NEW e \in calls'
  PROVE  \/ Was(e)
         \/ AppStep /\ New(e)
         \/ \E c \in calls, ok \in BOOLEAN : ServerStep(c, ok) /\ c.ours /\ Done(e, c, ok)
<1>1. ASSUME NEW c \in calls, NEW ok \in BOOLEAN, ServerStep(c, ok) PROVE Was(e) \/ (c.ours /\ Done(e, c, ok))
  BY <1>1 DEF ServerStep, ServedCall, Was
<1>2. CASE AppStep
  <2>1. ASSUME NEW n, AsksMore(n) \/ SignsIn(n) \/ Starts(n) PROVE Was(e) \/ New(e)
    <3>1. Was(e) \/ e = n
      BY <2>1 DEF AsksMore, SignsIn, Starts, Was
    <3> QED BY <2>1, <3>1 DEF New
  <2>2. ASSUME NEW d \in calls, Hears(d) PROVE Was(e)
    BY <2>2 DEF Hears, Ends, Was
  <2>3. ASSUME NEW d \in calls, NEW n, SignInGoes(d, n) PROVE Was(e) \/ New(e)
    <3>1. Was(e) \/ e = n
      BY <2>3 DEF SignInGoes, GetsCookie, GetsToken, LeavesSession, Ends, Was
    <3> QED BY <2>3, <3>1 DEF New
  <2> QED BY <1>2, <2>1, <2>2, <2>3 DEF AppStep
<1>3. CASE ExpoStep
  BY <1>3 DEF ExpoStep, Was
<1> QED BY <1>1, <1>2, <1>3 DEF PhoneStep

LEMMA NewGood ==
  ASSUME PhoneWell, NEW e, New(e)
  PROVE  GoodCall(e, expo) /\ e.at = "up" /\ e.bearer \in Bearers
<1>1. 0 \in Bearers
  BY DEF Bearers
<1>2. \A d \in calls : d.kind \in SignInKinds => d.no \in SignIns
  BY DEF PhoneWell
<1>3. CASE AsksMore(e)
  <2>1. PICK kind \in {"list", "push", "revoke"}, no \in {0, begun}, bearer \in Bearers, t \in {0, expo} :
           Asked(e, kind, no, bearer, cookie, t)
    BY <1>3 DEF AsksMore
  <2>2. GoodCall(e, expo)
    BY <2>1, GoodAsked DEF SignInKinds
  <2> QED BY <2>1, <2>2 DEF Asked
<1>4. CASE SignsIn(e)
  <2>1. GoodCall(e, expo)
    BY <1>4, GoodAsked DEF SignsIn
  <2> QED BY <1>1, <1>4, <2>1 DEF SignsIn, Asked
<1>5. CASE Starts(e)
  <2>1. PICK bearer \in Bearers : Asked(e, "start", 0, bearer, cookie, 0)
    BY <1>5 DEF Starts
  <2>2. GoodCall(e, expo)
    BY <2>1, GoodAsked DEF SignInKinds
  <2> QED BY <2>1, <2>2 DEF Asked
<1>6. ASSUME NEW d \in calls, GetsCookie(d, e) PROVE GoodCall(e, expo) /\ e.at = "up" /\ e.bearer \in Bearers
  <2>1. d.no \in SignIns /\ Asked(e, "register", d.no, 0, d.no, 0)
    BY <1>2, <1>6 DEF GetsCookie, SignInKinds
  <2>2. GoodCall(e, expo)
    BY <2>1, GoodAsked
  <2> QED BY <1>1, <2>1, <2>2 DEF Asked
<1>7. ASSUME NEW d \in calls, GetsToken(d, e) PROVE GoodCall(e, expo) /\ e.at = "up" /\ e.bearer \in Bearers
  <2>1. d.no \in SignIns /\ Asked(e, "logout", d.no, 0, cookie, 0)
    BY <1>2, <1>7 DEF GetsToken, SignInKinds
  <2>2. GoodCall(e, expo)
    BY <2>1, GoodAsked
  <2> QED BY <1>1, <2>1, <2>2 DEF Asked
<1>8. ASSUME NEW d \in calls, LeavesSession(d, e) PROVE GoodCall(e, expo) /\ e.at = "up" /\ e.bearer \in Bearers
  <2>1. PICK jar \in {0, cookie}, bearer \in Bearers : d.no \in SignIns /\ Asked(e, "me", d.no, bearer, jar, 0)
    BY <1>2, <1>8 DEF LeavesSession, SignInKinds
  <2>2. GoodCall(e, expo)
    BY <2>1, GoodAsked
  <2> QED BY <2>1, <2>2 DEF Asked
<1> QED BY <1>3, <1>4, <1>5, <1>6, <1>7, <1>8 DEF New, SignInGoes

LEMMA ExpoGoesOn ==
  ASSUME PhoneStep
  PROVE  expo' = expo \/ expo' = expo + 1
  BY DEF PhoneStep, ServerStep, AppStep, ExpoStep

LEMMA GoodCalls ==
  ASSUME PhoneWell, PhoneStep
  PROVE  \A e \in calls' : GoodCall(e, expo')
<1>1. expo \in Nat /\ (expo' = expo \/ expo' = expo + 1)
  BY PhoneConstants, ExpoGoesOn DEF PhoneWell, PhoneTypeOK
<1>2. \A e : GoodCall(e, expo) => GoodCall(e, expo')
  <2> SUFFICES ASSUME NEW e, GoodCall(e, expo) PROVE GoodCall(e, expo')
    OBVIOUS
  <2>1. e.token \in Nat
    BY DEF GoodCall, CallType
  <2> QED BY <1>1, <2>1 DEF GoodCall
<1> SUFFICES ASSUME NEW e \in calls' PROVE GoodCall(e, expo)
  BY <1>2
<1>3. Was(e) => GoodCall(e, expo)
  BY GoodLike DEF Was, Alas
<1>4. ASSUME NEW c \in calls, NEW ok, Done(e, c, ok) PROVE GoodCall(e, expo)
  BY <1>4, GoodLike DEF Done
<1> QED BY <1>3, <1>4, CallsFrom, NewGood

RowType == [made : BOOLEAN, active : BOOLEAN, push : Tokens \cup {0}]
TablesWell ==
  /\ rows \in [SignIns -> RowType] /\ given \in [SignIns -> 0 .. MaxTokens]
  /\ \A n \in SignIns : given[n] <= expo

LEMMA TablesStep ==
  ASSUME PhoneWell, PhoneStep
  PROVE  TablesWell'
<1>0. /\ TablesWell /\ expo \in Tokens /\ expo \in Nat /\ Tokens \subseteq Nat
      /\ \A n \in SignIns : given[n] \in Nat
  BY PhoneConstants DEF PhoneWell, PhoneTypeOK, TablesWell, RowType
<1>1. CASE UNCHANGED <<rows, given, expo>>
  BY <1>0, <1>1 DEF TablesWell
<1>2. CASE AppStep
  BY <1>1, <1>2 DEF AppStep, server
<1>3. CASE ExpoStep
  <2>1. CASE rows' = rows /\ expo' = expo
    BY <1>0, <1>3, <2>1 DEF ExpoStep, TablesWell
  <2>2. CASE rows' = rows /\ expo' = expo + 1
    BY <1>0, <1>3, <2>2 DEF ExpoStep, TablesWell
  <2>3. ASSUME NEW gone \in SUBSET SignIns, expo' = expo,
               rows' = [n \in SignIns |-> IF n \in gone THEN [rows[n] EXCEPT !.push = 0] ELSE rows[n]]
        PROVE  TablesWell'
    <3>1. \A n \in SignIns : [rows[n] EXCEPT !.push = 0] \in RowType /\ rows[n] \in RowType
      BY <1>0 DEF TablesWell, RowType
    <3>2. rows' \in [SignIns -> RowType]
      BY <2>3, <3>1
    <3>3. given' = given
      BY <1>3 DEF ExpoStep
    <3> QED BY <1>0, <2>3, <3>2, <3>3 DEF TablesWell
  <2> QED BY <1>3, <2>1, <2>2, <2>3 DEF ExpoStep
<1>4. ASSUME NEW c \in calls, NEW ok \in BOOLEAN, ServerStep(c, ok) PROVE TablesWell'
  <2>0. expo' = expo /\ c \in CallType /\ c.token <= expo /\ c.token \in 0 .. MaxTokens /\ c.token \in Nat
    BY <1>4, PhoneConstants DEF ServerStep, PhoneWell, CallType
  <2>1. CASE UNCHANGED <<rows, given>>
    BY <1>1, <2>0, <2>1
  <2>2. CASE Makes(c, ok)
    <3>1. [made |-> TRUE, active |-> TRUE, push |-> 0] \in RowType
      BY DEF RowType
    <3>2. rows' \in [SignIns -> RowType] /\ given' = given
      BY <1>0, <2>2, <3>1 DEF Makes, TablesWell
    <3> QED BY <1>0, <2>0, <3>2 DEF TablesWell
  <2>3. CASE Sets(c) /\ ~UNCHANGED <<rows, given>>
    <3>1. c.token \in Tokens \cup {0}
      BY <2>0, PhoneConstants
    <3>2. \A m \in SignIns : rows[m] \in RowType /\ [rows[m] EXCEPT !.push = c.token] \in RowType /\ [rows[m] EXCEPT !.push = 0] \in RowType
      BY <1>0, <3>1 DEF TablesWell, RowType
    <3>3. rows' \in [SignIns -> RowType]
      BY <2>3, <3>2 DEF Sets, Given
    <3>4. given' = [m \in SignIns |-> IF m = c.bearer THEN c.token ELSE IF given[m] = c.token THEN 0 ELSE given[m]]
      BY <2>3 DEF Sets
    <3>5. given' \in [SignIns -> 0 .. MaxTokens] /\ \A n \in SignIns : given'[n] <= expo
      BY <1>0, <2>0, <3>4, PhoneConstants DEF TablesWell
    <3> QED BY <2>0, <3>3, <3>5 DEF TablesWell
  <2>4. CASE Revokes(c, ok) /\ ~UNCHANGED <<rows, given>>
    <3>1. \A r \in RowType : [[r EXCEPT !.active = FALSE] EXCEPT !.push = 0] \in RowType
      BY DEF RowType
    <3>2. rows' = [rows EXCEPT ![c.bearer].active = FALSE, ![c.bearer].push = 0]
      BY <2>4 DEF Revokes
    <3>3. rows' \in [SignIns -> RowType]
      BY <1>0, <3>1, <3>2 DEF TablesWell, RowType
    <3>4. given' = [given EXCEPT ![c.bearer] = 0]
      BY <2>4 DEF Revokes
    <3>5. 0 \in 0 .. MaxTokens /\ 0 <= expo
      BY <1>0, PhoneConstants
    <3>6. given' \in [SignIns -> 0 .. MaxTokens] /\ \A n \in SignIns : given'[n] <= expo
      BY <1>0, <3>4, <3>5 DEF TablesWell
    <3> QED BY <2>0, <3>3, <3>6 DEF TablesWell
  <2>5. Tells(c) \/ Shows(c, ok) => UNCHANGED <<rows, given>>
    BY DEF Tells, Shows, server
  <2> QED BY <1>4, <2>1, <2>2, <2>3, <2>4, <2>5 DEF ServerStep
<1> QED BY <1>2, <1>3, <1>4 DEF PhoneStep

AppWell ==
  /\ alive \subseteq SignIns /\ expo \in Tokens /\ dropped \subseteq SignIns /\ wants \in {"in", "out"}
  /\ status \in {"unknown", "unauthenticated", "authenticated"} /\ kept \in {stored, 0}
  /\ stored \in 0 .. MaxSignIns /\ cookie \in 0 .. MaxSignIns /\ begun \in 0 .. MaxSignIns

LEMMA AppWellStep ==
  ASSUME PhoneWell, PhoneStep
  PROVE  AppWell'
<1>0. AppWell /\ 0 \in 0 .. MaxSignIns /\ SignIns \subseteq 0 .. MaxSignIns /\ stored \in {0} \cup SignIns
  BY PhoneConstants DEF PhoneWell, PhoneTypeOK, AppWell
<1>1. ASSUME NEW c \in calls, NEW ok \in BOOLEAN, ServerStep(c, ok) PROVE AppWell'
  <2>1. c.kind = "login" => c.no \in SignIns
    BY DEF PhoneWell, SignInKinds
  <2>2. alive' \subseteq SignIns
    BY <1>0, <1>1, <2>1 DEF ServerStep, Tells, Shows, Makes, Sets, Revokes, server, AppWell
  <2>3. UNCHANGED <<status, stored, cookie, expo, begun, wants, dropped, kept>>
    BY <1>1 DEF ServerStep, app, Counted
  <2> QED BY <1>0, <2>2, <2>3 DEF AppWell
<1>2. ASSUME AppStep PROVE alive' \subseteq SignIns /\ expo' \in Tokens
  BY <1>0, <1>2 DEF AppStep, server, AppWell
<1>3. ASSUME AppStep, NEW n, AsksMore(n) \/ SignsIn(n) \/ Starts(n) PROVE AppWell'
  <2>1. /\ UNCHANGED <<stored, cookie, dropped, kept>> /\ begun' \in 0 .. MaxSignIns /\ wants' \in {"in", "out"}
        /\ status' \in {"unknown", "unauthenticated", "authenticated"}
    BY <1>0, <1>3 DEF AsksMore, SignsIn, Starts, Counted, app, AppWell
  <2> QED BY <1>0, <1>2, <1>3, <2>1 DEF AppWell
<1>4. ASSUME AppStep, NEW d \in calls, NEW n, SignInGoes(d, n) PROVE AppWell'
  <2>1. d.no \in SignIns
    BY <1>4 DEF PhoneWell, SignInGoes, GetsCookie, GetsToken, LeavesSession, SignInKinds
  <2>2. CASE GetsCookie(d, n)
    BY <1>0, <1>2, <1>4, <2>1, <2>2 DEF GetsCookie, Counted, AppWell
  <2>3. CASE GetsToken(d, n)
    <3>1. stored' \in 0 .. MaxSignIns /\ kept' \in {stored', 0}
      BY <1>0, <2>1, <2>3 DEF GetsToken, AppWell
    <3>2. dropped' \subseteq SignIns
      BY <1>0, <2>1, <2>3 DEF GetsToken, AppWell
    <3> QED BY <1>0, <1>2, <1>4, <2>3, <3>1, <3>2 DEF GetsToken, AppWell
  <2>4. CASE LeavesSession(d, n)
    BY <1>0, <1>2, <1>4, <2>4 DEF LeavesSession, Counted, AppWell
  <2> QED BY <1>4, <2>2, <2>3, <2>4 DEF SignInGoes
<1>5. ASSUME AppStep, NEW d \in calls, Hears(d) PROVE AppWell'
  <2>1. CASE Keeps(d)
    BY <1>0, <1>2, <1>5, <2>1 DEF Hears, Keeps, Counted, AppWell
  <2>2. CASE Drops(d)
    <3>1. stored' \in 0 .. MaxSignIns /\ kept' \in {stored', 0} /\ wants' \in {"in", "out"}
      BY <1>0, <2>2 DEF Drops, AppWell
    <3>2. dropped' \subseteq SignIns
      BY <1>0, <2>2 DEF Drops, AppWell
    <3> QED BY <1>0, <1>2, <1>5, <2>2, <3>1, <3>2 DEF Hears, Drops, AppWell
  <2> QED BY <1>5, <2>1, <2>2 DEF Hears
<1>6. CASE ExpoStep
  BY <1>0, <1>6 DEF ExpoStep, Counted, app, AppWell
<1>7. CASE AppStep
  BY <1>3, <1>4, <1>5, <1>7 DEF AppStep
<1> QED BY <1>1, <1>6, <1>7 DEF PhoneStep

LEMMA NotesStep ==
  ASSUME PhoneWell, PhoneStep
  PROVE  \A note \in notes' : \A d \in note : d.no \in SignIns /\ d.token \in Tokens
<1>1. \A note \in notes : \A d \in note : d.no \in SignIns /\ d.token \in Tokens
  BY DEF PhoneWell, PhoneTypeOK
<1>2. \A d \in Notified : d.no \in SignIns /\ d.token \in Tokens
  BY DEF PhoneWell, PhoneTypeOK, Notified
<1>3. notes' \subseteq notes \cup {Notified}
  BY DEF PhoneStep, ServerStep, AppStep, ExpoStep
<1> QED BY <1>1, <1>2, <1>3

LEMMA PhoneWellStep ==
  ASSUME PhoneWell, PhoneStep
  PROVE  PhoneWell'
<1>1. TablesWell' /\ AppWell'
  BY TablesStep, AppWellStep
<1>2. \A note \in notes' : \A d \in note : d.no \in SignIns /\ d.token \in Tokens
  BY NotesStep
<1>3. \A c \in calls' : c \in CallType /\ c.token <= expo' /\ (c.kind \in SignInKinds => c.no \in SignIns)
  BY GoodCalls DEF GoodCall
<1>4. \A c \in calls' : c.bearer \in 0 .. MaxSignIns /\ c.no \in 0 .. MaxSignIns /\ c.token \in 0 .. MaxTokens
  BY <1>3 DEF CallType
<1> QED BY <1>1, <1>2, <1>3, <1>4 DEF PhoneWell, PhoneTypeOK, TablesWell, AppWell, RowType

LEMMA PhoneWellInit == PhoneInit => PhoneWell
<1> SUFFICES ASSUME PhoneInit PROVE PhoneWell
  OBVIOUS
<1>1. NoRow \in [made : BOOLEAN, active : BOOLEAN, push : Tokens \cup {0}]
  BY DEF NoRow
<1>2. PhoneTypeOK
  BY <1>1, PhoneConstants DEF PhoneInit, PhoneTypeOK
<1> QED BY <1>2, PhoneConstants DEF PhoneInit, PhoneWell
-----------------------------------------------------------------------------
(* A row is made once.                                                     *)

\* No row is made.
MadeKept == \A n \in SignIns : rows'[n].made = rows[n].made /\ (Unmade(n) => Unmade(n)')

LEMMA AppTables ==
  ASSUME AppStep
  PROVE  UNCHANGED <<rows, alive, given, expo>>
  BY DEF AppStep, server

LEMMA NoRowFields == ~NoRow.made /\ ~NoRow.active /\ NoRow.push = 0
  BY DEF NoRow

\* What a row may lose.
RowsLess ==
  \A n \in SignIns : /\ rows'[n].made = rows[n].made /\ (rows'[n].active => rows[n].active)
                     /\ rows[n] = NoRow => rows'[n] = NoRow
LEMMA SetsTables ==
  ASSUME PhoneWell, NEW c \in calls, Sets(c)
  PROVE  /\ RowsLess
         /\ \A n \in SignIns : /\ rows'[n].push \in {0, rows[n].push} \/ (n = c.bearer /\ c.bearer # 0)
                               /\ given[n] = 0 /\ rows[n] = NoRow => given'[n] = 0
<1>0. rows \in [SignIns -> RowType] /\ given \in [SignIns -> 0 .. MaxTokens] /\ c.bearer \in 0 .. MaxSignIns
  BY DEF PhoneWell, PhoneTypeOK, RowType, CallType
<1>1. CASE UNCHANGED <<rows, given>>
  BY <1>1 DEF RowsLess
<1>2. CASE /\ c.bearer # 0 /\ rows[c.bearer].active /\ rows' = Given(c.bearer, c.token)
           /\ given' = [m \in SignIns |-> IF m = c.bearer THEN c.token ELSE IF given[m] = c.token THEN 0 ELSE given[m]]
  <2>1. \A n \in SignIns : rows'[n] = IF n = c.bearer THEN [rows[n] EXCEPT !.push = c.token]
                                      ELSE IF c.token # 0 /\ rows[n].push = c.token THEN [rows[n] EXCEPT !.push = 0] ELSE rows[n]
    BY <1>2 DEF Given
  <2>2. \A n \in SignIns : given'[n] = IF n = c.bearer THEN c.token ELSE IF given[n] = c.token THEN 0 ELSE given[n]
    BY <1>2
  <2>3. ASSUME NEW n \in SignIns
        PROVE  /\ rows'[n].made = rows[n].made /\ rows'[n].active = rows[n].active
               /\ rows'[n].push \in {0, rows[n].push} \/ n = c.bearer
    BY <1>0, <2>1 DEF RowType
  <2>4. ASSUME NEW n \in SignIns, rows[n] = NoRow PROVE n # c.bearer /\ rows'[n] = NoRow /\ (given[n] = 0 => given'[n] = 0)
    <3>1. n # c.bearer
      BY <1>2, <2>4, NoRowFields
    <3>2. rows'[n] = rows[n]
      BY <2>1, <2>4, <3>1, NoRowFields
    <3> QED BY <2>2, <2>4, <3>1, <3>2
  <2> QED BY <1>2, <2>3, <2>4 DEF RowsLess
<1> QED BY <1>1, <1>2 DEF Sets

LEMMA RevokesTables ==
  ASSUME PhoneWell, NEW c \in calls, NEW ok, Revokes(c, ok)
  PROVE  /\ RowsLess /\ (c.bearer # 0 => ~rows'[c.bearer].active)
         /\ \A n \in SignIns : /\ \/ rows'[n].push = rows[n].push /\ given'[n] = given[n]
                                  \/ rows'[n].push = 0 /\ given'[n] = 0
                               /\ given[n] = 0 => given'[n] = 0
<1>0. /\ rows \in [SignIns -> RowType] /\ given \in [SignIns -> 0 .. MaxTokens] /\ c.bearer \in 0 .. MaxSignIns
      /\ c.bearer # 0 => c.bearer \in SignIns
  BY PhoneConstants DEF PhoneWell, PhoneTypeOK, RowType, CallType
<1>1. CASE Over(c) /\ UNCHANGED <<rows, given>>
  BY <1>1 DEF RowsLess, Over
<1>2. CASE /\ c.bearer # 0 /\ rows' = [rows EXCEPT ![c.bearer].active = FALSE, ![c.bearer].push = 0]
           /\ given' = [given EXCEPT ![c.bearer] = 0]
  <2>1. \A n \in SignIns : n # c.bearer => rows'[n] = rows[n]
    BY <1>0, <1>2
  <2>2. rows'[c.bearer] = [made |-> rows[c.bearer].made, active |-> FALSE, push |-> 0]
    BY <1>0, <1>2 DEF RowType
  <2>3. \A n \in SignIns : given'[n] = IF n = c.bearer THEN 0 ELSE given[n]
    BY <1>0, <1>2
  <2>4. rows[c.bearer] = NoRow => rows'[c.bearer] = NoRow
    BY <2>2 DEF NoRow
  <2>5. /\ rows'[c.bearer].made = rows[c.bearer].made /\ ~rows'[c.bearer].active /\ rows'[c.bearer].push = 0
    BY <2>2
  <2>6. RowsLess
    BY <2>1, <2>4, <2>5 DEF RowsLess
  <2> QED BY <2>1, <2>3, <2>5, <2>6
<1> QED BY <1>1, <1>2 DEF Revokes

LEMMA ExpoTables ==
  ASSUME PhoneWell, ExpoStep
  PROVE  /\ RowsLess /\ given' = given
         /\ \A n \in SignIns : rows'[n].push = rows[n].push \/ (rows'[n].push = 0 /\ rows[n].push # expo /\ expo' = expo)
<1>0. rows \in [SignIns -> RowType]
  BY DEF PhoneWell, PhoneTypeOK, RowType
<1>1. given' = given
  BY DEF ExpoStep
<1>2. CASE rows' = rows
  BY <1>1, <1>2 DEF RowsLess
<1>3. ASSUME NEW gone \in SUBSET SignIns, \A n \in gone : rows[n].push # expo, expo' = expo,
             rows' = [n \in SignIns |-> IF n \in gone THEN [rows[n] EXCEPT !.push = 0] ELSE rows[n]]
      PROVE  /\ RowsLess
             /\ \A n \in SignIns : rows'[n].push = rows[n].push \/ (rows'[n].push = 0 /\ rows[n].push # expo /\ expo' = expo)
  <2>1. \A n \in SignIns : rows'[n] = IF n \in gone THEN [rows[n] EXCEPT !.push = 0] ELSE rows[n]
    BY <1>3
  <2>2. ASSUME NEW n \in SignIns, n \in gone
        PROVE  /\ rows'[n].made = rows[n].made /\ rows'[n].active = rows[n].active /\ rows'[n].push = 0
               /\ rows[n] = NoRow => rows'[n] = NoRow
    <3>1. rows'[n] = [rows[n] EXCEPT !.push = 0] /\ rows[n] \in RowType
      BY <1>0, <2>1, <2>2
    <3>2. rows[n] = NoRow => rows'[n] = NoRow
      BY <3>1 DEF NoRow
    <3> QED BY <3>1, <3>2 DEF RowType
  <2>3. \A n \in SignIns : n \notin gone => rows'[n] = rows[n]
    BY <2>1
  <2> QED BY <1>3, <2>2, <2>3 DEF RowsLess
<1> QED BY <1>1, <1>2, <1>3 DEF ExpoStep

LEMMA TablesKept ==
  ASSUME PhoneWell, PhoneStep
  PROVE  \/ MadeKept /\ RowsLess
         \/ \E c \in calls : /\ ServerStep(c, TRUE) /\ Makes(c, TRUE)
<1>1. RowsLess /\ (\A n \in SignIns : given[n] = 0 /\ rows[n] = NoRow => given'[n] = 0) => MadeKept
  BY DEF RowsLess, MadeKept, Unmade
<1>2. ASSUME UNCHANGED <<rows, given>> PROVE MadeKept /\ RowsLess
  BY <1>1, <1>2 DEF RowsLess
<1>3. CASE AppStep
  BY <1>2, <1>3, AppTables
<1>4. CASE ExpoStep
  BY <1>1, <1>4, ExpoTables
<1>5. ASSUME NEW c \in calls, NEW ok \in BOOLEAN, ServerStep(c, ok), ~(ok = TRUE /\ Makes(c, ok)) PROVE MadeKept /\ RowsLess
  <2>0. Makes(c, ok) => UNCHANGED <<rows, given>>
    BY <1>5 DEF Makes
  <2>1. CASE Tells(c) \/ Shows(c, ok) \/ Makes(c, ok)
    <3>1. UNCHANGED <<rows, given>>
      BY <2>0, <2>1 DEF Tells, Shows, server
    <3> QED BY <1>2, <3>1
  <2>2. CASE Sets(c)
    BY <1>1, <2>2, SetsTables
  <2>3. CASE Revokes(c, ok)
    BY <1>1, <2>3, RevokesTables
  <2> QED BY <1>5, <2>1, <2>2, <2>3 DEF ServerStep
<1>6. ASSUME NEW c \in calls, NEW ok \in BOOLEAN, ServerStep(c, ok), ok = TRUE, Makes(c, ok)
      PROVE  ServerStep(c, TRUE) /\ Makes(c, TRUE)
  BY <1>6
<1> QED BY <1>3, <1>4, <1>5, <1>6 DEF PhoneStep

LEMMA MakesTables ==
  ASSUME PhoneWell, NEW c \in calls, Makes(c, TRUE), c.no \in SignIns
  PROVE  /\ rows'[c.no].made /\ rows'[c.no].push = 0 /\ given' = given
         /\ \A n \in SignIns : n # c.no => rows'[n] = rows[n]
<1>1. rows' = [rows EXCEPT ![c.no] = [made |-> TRUE, active |-> TRUE, push |-> 0]] /\ given' = given
  BY DEF Makes
<1>2. rows \in [SignIns -> RowType]
  BY DEF PhoneWell, PhoneTypeOK, RowType
<1> QED BY <1>1, <1>2

\* The app does not ask twice for the row of one sign-in.
LEMMA PairsApart ==
  ASSUME PhoneWell, Paired, PhoneStep
  PROVE  \A e, x \in calls' : Pairing(e) /\ Pairing(x) /\ e.no = x.no => e = x
<1> DEFINE Apart == \A e, x \in calls' : Pairing(e) /\ Pairing(x) /\ e.no = x.no => e = x
<1>0. /\ \A c, e \in calls : Pairing(c) /\ Pairing(e) /\ c.no = e.no => c = e
      /\ \A c \in calls : Pairing(c) => c.no <= begun
      /\ begun \in Nat
  BY PhoneConstants DEF Paired, PhoneWell
<1>1. ASSUME NEW d \in calls, NEW y,
             \A e \in calls' : Pairing(e) => (e \in calls /\ e # d) \/ (e = y /\ e.no = d.no /\ Pairing(d))
      PROVE  Apart
  <2>1. ASSUME NEW e \in calls', NEW x \in calls', Pairing(e), Pairing(x), e.no = x.no PROVE e = x
    BY <1>0, <1>1, <2>1
  <2> QED BY <2>1
<1>2. ASSUME NEW c \in calls, NEW ok \in BOOLEAN, ServerStep(c, ok) PROVE Apart
  <2>1. \A e \in calls' : (e \in calls /\ e # c) \/ (c.ours /\ Done(e, c, ok))
    BY <1>2 DEF ServerStep, ServedCall
  <2>2. \A e : Done(e, c, ok) /\ c.ours /\ Pairing(e) => e = [c EXCEPT !.at = "down", !.ok = ok] /\ e.no = c.no /\ Pairing(c)
    BY DEF Done, Like, Pairing, Up
  <2> QED BY <1>1, <2>1, <2>2
<1>3. ASSUME NEW n, AsksMore(n) PROVE Apart
  <2>1. calls' = calls \cup {n} /\ ~Pairing(n)
    BY <1>3 DEF AsksMore, Asked, Pairing, Up
  <2> QED BY <1>0, <2>1
<1>4. ASSUME NEW n, SignsIn(n) PROVE Apart
  <2>1. calls' = calls \cup {n} /\ n.no = begun + 1
    BY <1>4 DEF SignsIn, Asked
  <2>2. \A c \in calls : Pairing(c) => c.no # n.no
    <3> SUFFICES ASSUME NEW c \in calls, Pairing(c) PROVE c.no # begun + 1
      BY <2>1
    <3>1. c.no \in Nat /\ c.no <= begun
      BY <1>0, HasAtHand
    <3> QED BY <1>0, <3>1
  <2> QED BY <1>0, <2>1, <2>2
<1>5. ASSUME NEW n, Starts(n) PROVE Apart
  <2>1. n.kind = "start" /\ \A e \in calls' : e = n \/ \E d \in calls : Alas(e, d)
    BY <1>5 DEF Starts, Asked
  <2>2. ~Pairing(n)
    BY <2>1 DEF Pairing, Up
  <2>3. ASSUME NEW e \in calls', Pairing(e)
        PROVE  \E d \in calls : Pairing(d) /\ d.no = e.no /\ e = [d EXCEPT !.ours = FALSE]
    BY <2>1, <2>2, <2>3 DEF Alas, Like, Pairing, Up
  <2>4. ASSUME NEW e \in calls', NEW x \in calls', Pairing(e), Pairing(x), e.no = x.no PROVE e = x
    BY <1>0, <2>3, <2>4
  <2> QED BY <2>4
<1>6. ASSUME NEW d \in calls, NEW n, NEW N \in {{}, {n}}, Ends(d, N), N = {n} /\ Pairing(n) => n.no = d.no /\ Pairing(d) /\ d.at = "down"
      PROVE  Apart
  <2>1. \A e : Alas(e, d) /\ Pairing(e) => e = [d EXCEPT !.ours = FALSE] /\ Pairing(d) /\ e.no = d.no /\ d.at = "up"
    BY DEF Alas, Like, Pairing, Up
  <2>2. CASE d.at = "up"
    <3> DEFINE g == [d EXCEPT !.ours = FALSE]
    <3>1. \A e \in calls' : Pairing(e) => (e \in calls /\ e # d) \/ (e = g /\ e.no = d.no /\ Pairing(d))
      BY <1>6, <2>1, <2>2 DEF Ends
    <3> HIDE DEF g
    <3> QED BY <1>1, <3>1
  <2>3. CASE d.at # "up"
    <3>1. \A e \in calls' : Pairing(e) => (e \in calls /\ e # d) \/ (e = n /\ e.no = d.no /\ Pairing(d))
      BY <1>6, <2>1, <2>3 DEF Ends
    <3> QED BY <1>1, <3>1
  <2> QED BY <2>2, <2>3
<1>7. ASSUME NEW d \in calls, Hears(d) PROVE Apart
  <2>1. Ends(d, {})
    BY <1>7 DEF Hears
  <2> QED BY <1>6, <2>1
<1>8. ASSUME NEW d \in calls, NEW n, SignInGoes(d, n) PROVE Apart
  <2>1. Ends(d, {n}) /\ (Pairing(n) => n.no = d.no /\ Pairing(d) /\ d.at = "down")
    BY <1>8 DEF SignInGoes, GetsCookie, GetsToken, LeavesSession, Asked, Pairing, Up, Ends
  <2> QED BY <1>6, <2>1
<1>9. CASE ExpoStep
  BY <1>0, <1>9 DEF ExpoStep
<1> QED BY <1>2, <1>3, <1>4, <1>5, <1>7, <1>8, <1>9 DEF PhoneStep, AppStep

\* The call that makes a row, or goes before it, comes from one of the same sign-in.
LEMMA PairingFrom ==
  ASSUME PhoneWell, PhoneStep, NEW e \in calls', Pairing(e)
  PROVE  SignsIn(e) \/ \E c \in calls : Pairing(c) /\ c.no = e.no
<1>1. CASE Was(e)
  BY <1>1 DEF Was, Alas, Like, Pairing, Up
<1>2. ASSUME NEW c \in calls, NEW ok, c.ours, Done(e, c, ok) PROVE \E d \in calls : Pairing(d) /\ d.no = e.no
  BY <1>2 DEF Done, Like, Pairing, Up
<1>3. CASE New(e)
  BY <1>3 DEF New, AsksMore, Starts, SignInGoes, GetsCookie, GetsToken, LeavesSession, Asked, Pairing, Up, Ends
<1> QED BY <1>1, <1>2, <1>3, CallsFrom

\* The number of sign-ins.
LEMMA BegunGoes ==
  ASSUME PhoneStep
  PROVE  begun' = begun \/ (begun' = begun + 1 /\ begun + 1 \in SignIns)
  BY DEF PhoneStep, ServerStep, AppStep, ExpoStep, Counted, AsksMore, SignsIn, Starts, SignInGoes, GetsCookie, GetsToken, LeavesSession,
     Hears, Keeps, Drops

LEMMA PairedStep ==
  ASSUME PhoneWell, Paired, PhoneStep
  PROVE  Paired'
<1>0. /\ begun \in Nat /\ SignIns \subseteq Nat /\ (begun' = begun \/ begun' = begun + 1)
      /\ \A c \in calls : c.no \in Nat
  BY PhoneConstants, BegunGoes, HasAtHand DEF PhoneWell
<1>1. \A e, x \in calls' : Pairing(e) /\ Pairing(x) /\ e.no = x.no => e = x
  BY PairsApart
<1>2. \A k \in Nat : k <= begun => k <= begun'
  BY <1>0
<1>3. CASE \E c \in calls : ServerStep(c, TRUE) /\ Makes(c, TRUE)
  <2>1. PICK c \in calls : ServerStep(c, TRUE) /\ Makes(c, TRUE)
    BY <1>3
  <2>2. /\ begun' = begun /\ Up(c, "register") /\ Pairing(c) /\ c.no <= begun /\ c.no \in SignIns
        /\ \A e \in calls' : (e \in calls /\ e # c) \/ (c.ours /\ Done(e, c, TRUE))
    BY <2>1 DEF ServerStep, ServedCall, Makes, Up, Counted, Pairing, Paired, PhoneWell, SignInKinds
  <2>3. /\ rows'[c.no].made /\ rows'[c.no].push = 0 /\ given' = given
        /\ \A n \in SignIns : n # c.no => rows'[n] = rows[n]
    BY <2>1, <2>2, MakesTables
  <2>4. ASSUME NEW e \in calls', Pairing(e) PROVE e.no <= begun' /\ Unmade(e.no)'
    <3>1. e \in calls /\ e # c
      BY <2>2, <2>4 DEF Done, Like, Pairing, Up
    <3>2. e.no # c.no /\ e.no <= begun /\ Unmade(e.no)
      BY <2>2, <2>4, <3>1 DEF Paired
    <3>3. e.no \in SignIns
      BY <2>4, <3>1 DEF PhoneWell, Pairing, Up, SignInKinds
    <3> QED BY <2>2, <2>3, <3>2, <3>3 DEF Unmade
  <2>5. ASSUME NEW e \in calls', e.kind = "register", e.at = "down", e.ok PROVE rows'[e.no].made
    <3>1. CASE e \in calls
      <4>1. rows[e.no].made /\ e.no \in SignIns
        BY <2>5, <3>1 DEF Paired, PhoneWell, SignInKinds
      <4> QED BY <2>3, <4>1
    <3>2. CASE Done(e, c, TRUE)
      BY <2>3, <3>2 DEF Done, Like
    <3> QED BY <2>2, <3>1, <3>2
  <2>6. ASSUME NEW n \in SignIns PROVE (rows'[n].made => n <= begun') /\ (~rows'[n].made => Unmade(n)')
    BY <2>2, <2>3 DEF Paired, Unmade
  <2> QED BY <1>1, <2>4, <2>5, <2>6 DEF Paired
<1>4. CASE MadeKept /\ RowsLess
  <2>1. \A n \in SignIns : (rows'[n].made => n <= begun') /\ (~rows'[n].made => Unmade(n)')
    BY <1>0, <1>2, <1>4 DEF MadeKept, Paired
  <2>2. ASSUME NEW e \in calls', Pairing(e) PROVE e.no <= begun' /\ Unmade(e.no)'
    <3>1. CASE SignsIn(e)
      <4>1. e.no = begun + 1 /\ begun' = begun + 1 /\ begun + 1 \in SignIns /\ ~(begun + 1 <= begun)
        BY <1>0, <3>1 DEF SignsIn, Asked
      <4>2. Unmade(e.no)
        BY <4>1 DEF Paired
      <4> QED BY <1>0, <1>4, <4>1, <4>2 DEF MadeKept
    <3>2. ASSUME NEW c \in calls, Pairing(c), c.no = e.no PROVE e.no <= begun' /\ Unmade(e.no)'
      <4>1. c.no <= begun /\ Unmade(c.no) /\ c.no \in Nat
        BY <1>0, <3>2 DEF Paired
      <4>2. c.no \in SignIns
        BY <3>2 DEF PhoneWell, Pairing, Up, SignInKinds
      <4> QED BY <1>2, <1>4, <3>2, <4>1, <4>2 DEF MadeKept
    <3> QED BY <2>2, <3>1, <3>2, PairingFrom
  <2>3. ASSUME NEW e \in calls', e.kind = "register", e.at = "down", e.ok PROVE rows'[e.no].made
    <3>1. CASE e \in calls
      <4>1. rows[e.no].made /\ e.no \in SignIns
        BY <2>3, <3>1 DEF Paired, PhoneWell, SignInKinds
      <4> QED BY <1>4, <4>1 DEF MadeKept
    <3>2. ASSUME NEW c \in calls, NEW ok \in BOOLEAN, ServerStep(c, ok), Done(e, c, ok) PROVE rows'[e.no].made
      <4>1. c.kind = "register" /\ c.no = e.no /\ ok = TRUE
        BY <2>3, <3>2 DEF Done, Like
      <4>2. Makes(c, TRUE) /\ c.no \in SignIns
        BY <3>2, <4>1 DEF ServerStep, Tells, Shows, Sets, Revokes, PhoneWell, SignInKinds
      <4> QED BY <4>1, <4>2, MakesTables
    <3>3. CASE Was(e)
      BY <2>3, <3>1, <3>3 DEF Was, Alas
    <3>4. CASE New(e)
      BY <2>3, <3>4, NewGood
    <3> QED BY <3>2, <3>3, <3>4, CallsFrom
  <2> QED BY <1>1, <2>1, <2>2, <2>3 DEF Paired
<1> QED BY <1>3, <1>4, TablesKept
-----------------------------------------------------------------------------
(* Whose the rows are.                                                     *)

LEMMA RowsGrow ==
  ASSUME PhoneWell, Paired, PhoneStep
  PROVE  \A n \in SignIns : rows[n].made => rows'[n].made /\ (rows'[n].active => rows[n].active)
<1>1. CASE MadeKept /\ RowsLess
  BY <1>1 DEF RowsLess
<1>2. CASE \E c \in calls : ServerStep(c, TRUE) /\ Makes(c, TRUE)
  <2>1. PICK c \in calls : ServerStep(c, TRUE) /\ Makes(c, TRUE)
    BY <1>2
  <2>2. Pairing(c) /\ c.no \in SignIns
    BY <2>1 DEF ServerStep, ServedCall, Makes, Pairing, Up, PhoneWell, SignInKinds
  <2>3. ~rows[c.no].made
    BY <2>2, NoRowFields DEF Paired, Unmade
  <2>4. \A n \in SignIns : n # c.no => rows'[n] = rows[n]
    BY <2>1, <2>2, MakesTables
  <2> QED BY <2>3, <2>4
<1> QED BY <1>1, <1>2, TablesKept

\* The app leaves a row only when it is among the dropped, or revoked; and takes the token of a row that is made.
LEMMA StoredGoes ==
  ASSUME PhoneWell, Paired, Holders, PhoneStep
  PROVE  /\ dropped \subseteq dropped'
         /\ stored # 0 /\ stored' # stored => stored \in dropped' \/ ~rows[stored].active
         /\ stored' \in {0, stored} \/ rows[stored'].made
<1>1. CASE (\E c \in calls, ok \in BOOLEAN : ServerStep(c, ok)) \/ ExpoStep
  BY <1>1 DEF ServerStep, ExpoStep, app, Counted
<1>2. ASSUME NEW n, AsksMore(n) \/ SignsIn(n) \/ Starts(n) PROVE UNCHANGED <<stored, dropped>>
  BY <1>2 DEF AsksMore, SignsIn, Starts, app, Counted
<1>3. ASSUME NEW d \in calls, NEW n, SignInGoes(d, n)
      PROVE  \/ UNCHANGED <<stored, dropped>>
             \/ /\ rows[d.no].made /\ stored' \in {stored, d.no}
                /\ dropped' = dropped \cup ({stored, d.no} \ {stored', 0})
  <2>1. CASE GetsToken(d, n)
    <3>1. rows[d.no].made
      BY <2>1 DEF GetsToken, Paired
    <3> QED BY <2>1, <3>1 DEF GetsToken
  <2>2. CASE GetsCookie(d, n) \/ LeavesSession(d, n)
    BY <2>2 DEF GetsCookie, LeavesSession, Counted
  <2> QED BY <1>3, <2>1, <2>2 DEF SignInGoes
<1>4. ASSUME NEW d \in calls, Hears(d)
      PROVE  /\ dropped \subseteq dropped' /\ stored' \in {0, stored}
             /\ stored # 0 /\ stored' # stored => stored \in dropped' \/ ~rows[stored].active
  <2>1. CASE Keeps(d)
    BY <2>1 DEF Keeps, Counted
  <2>2. CASE Drops(d)
    <3>1. PICK told : (told # 0 => told = d.bearer /\ Ending(d)) /\ dropped' = dropped \cup ({stored} \ {stored', 0, told})
      BY <2>2 DEF Drops
    <3>2. told # 0 => ~rows[told].active
      BY <3>1 DEF Holders, Over
    <3> QED BY <2>2, <3>1, <3>2 DEF Drops
  <2> QED BY <1>4, <2>1, <2>2 DEF Hears
<1> QED BY <1>1, <1>2, <1>3, <1>4 DEF PhoneStep, AppStep

LEMMA BorneStep ==
  ASSUME PhoneWell, Paired, Borne, Holders, PhoneStep
  PROVE  Borne'
<1>0. /\ stored \in 0 .. MaxSignIns /\ stored' \in 0 .. MaxSignIns
      /\ \A c \in calls : c.bearer \in 0 .. MaxSignIns
  BY PhoneWellStep DEF PhoneWell, PhoneTypeOK, CallType
<1>1. \A n \in 0 .. MaxSignIns : n # 0 /\ rows[n].made => rows'[n].made
  BY RowsGrow, PhoneConstants
<1>2. stored' # 0 => rows'[stored'].made
  BY <1>0, <1>1, StoredGoes DEF Borne
<1>3. ASSUME NEW e \in calls', e.bearer # 0 PROVE rows'[e.bearer].made
  <2>1. CASE Was(e)
    BY <1>0, <1>1, <1>3, <2>1 DEF Was, Alas, Like, Borne
  <2>2. CASE New(e)
    BY <1>0, <1>1, <1>3, <2>2, NewGood DEF Bearers, Borne
  <2>3. ASSUME NEW c \in calls, NEW ok \in BOOLEAN, Done(e, c, ok) PROVE rows'[e.bearer].made
    BY <1>0, <1>1, <1>3, <2>3 DEF Done, Like, Borne
  <2> QED BY <2>1, <2>2, <2>3, CallsFrom
<1> QED BY <1>2, <1>3 DEF Borne

LEMMA HeldStays ==
  ASSUME PhoneWell, Paired, Holders, PhoneStep, NEW n \in SignIns, rows[n].made, Held(n)
  PROVE  Held(n)'
<1>1. n # 0
  BY PhoneConstants
<1>2. rows'[n].active => rows[n].active
  BY RowsGrow
<1> QED BY <1>1, <1>2, StoredGoes DEF Held

LEMMA PushHeld ==
  ASSUME PhoneWell, Paired, Borne, Holders, PhoneStep, NEW n \in SignIns, rows'[n].push # 0
  PROVE  Held(n)'
<1>1. ASSUME rows[n].push # 0 PROVE Held(n)'
  <2>1. rows[n].made
    BY <1>1, NoRowFields DEF Paired, Unmade
  <2> QED BY <1>1, <2>1, HeldStays DEF Holders
<1>2. CASE AppStep
  BY <1>1, <1>2, AppTables
<1>3. CASE ExpoStep
  BY <1>1, <1>3, ExpoTables
<1>4. ASSUME NEW c \in calls, NEW ok \in BOOLEAN, ServerStep(c, ok) PROVE Held(n)'
  <2>1. CASE Tells(c) \/ Shows(c, ok)
    BY <1>1, <2>1 DEF Tells, Shows, server
  <2>2. CASE Makes(c, ok)
    <3>1. CASE ok = TRUE
      <4>1. c.no \in SignIns
        BY <2>2 DEF Makes, PhoneWell, SignInKinds
      <4>2. rows'[n].push = 0 \/ rows'[n] = rows[n]
        BY <2>2, <3>1, <4>1, MakesTables
      <4> QED BY <1>1, <4>2
    <3>2. CASE ok = FALSE
      BY <1>1, <2>2, <3>2 DEF Makes
    <3> QED BY <3>1, <3>2
  <2>3. CASE Sets(c)
    <3>1. CASE n = c.bearer /\ c.bearer # 0
      BY <3>1, HeldStays DEF Holders, Borne
    <3>2. CASE rows'[n].push \in {0, rows[n].push}
      BY <1>1, <3>2
    <3> QED BY <2>3, <3>1, <3>2, SetsTables
  <2>4. CASE Revokes(c, ok)
    BY <1>1, <2>4, RevokesTables
  <2> QED BY <1>4, <2>1, <2>2, <2>3, <2>4 DEF ServerStep
<1> QED BY <1>2, <1>3, <1>4 DEF PhoneStep

LEMMA HoldersStep ==
  ASSUME PhoneWell, Paired, Borne, Holders, PhoneStep
  PROVE  Holders'
<1>0. \A c \in calls : c.bearer # 0 => /\ c.bearer \in SignIns /\ rows[c.bearer].made
                                       /\ Held(c.bearer)' /\ (rows'[c.bearer].active => rows[c.bearer].active)
  <2> SUFFICES ASSUME NEW c \in calls, c.bearer # 0
               PROVE  /\ c.bearer \in SignIns /\ rows[c.bearer].made
                      /\ Held(c.bearer)' /\ (rows'[c.bearer].active => rows[c.bearer].active)
    OBVIOUS
  <2>1. c.bearer \in SignIns /\ rows[c.bearer].made
    BY PhoneConstants DEF PhoneWell, CallType, Borne
  <2>2. Held(c.bearer)
    BY DEF Holders
  <2> QED BY <2>1, <2>2, HeldStays, RowsGrow
<1> DEFINE Good(e) == (e.bearer # 0 => Held(e.bearer)') /\ (Ending(e) => (e.bearer # 0 => ~rows'[e.bearer].active))
<1>1. ASSUME NEW c \in calls, Ending(c), c.bearer # 0 PROVE ~rows'[c.bearer].active
  BY <1>0, <1>1 DEF Holders, Over
<1>2. ASSUME NEW e, Was(e) PROVE Good(e)
  <2>1. CASE e \in calls
    BY <1>0, <1>1, <2>1
  <2>2. ASSUME NEW d \in calls, Alas(e, d) PROVE Good(e)
    BY <1>0, <2>2 DEF Alas, Like, Ending
  <2> QED BY <1>2, <2>1, <2>2 DEF Was
<1>3. ASSUME NEW e, New(e) PROVE Good(e)
  <2>1. e.at = "up" /\ e.bearer \in {stored, 0}
    BY <1>3, NewGood DEF Bearers
  <2>2. ASSUME e.bearer # 0 PROVE Held(e.bearer)'
    <3>1. e.bearer \in SignIns /\ rows[e.bearer].made /\ Held(e.bearer)
      BY <2>1, <2>2, PhoneConstants DEF PhoneWell, PhoneTypeOK, Borne, Held
    <3> QED BY <3>1, HeldStays
  <2> QED BY <2>1, <2>2 DEF Ending
<1>4. ASSUME NEW e, NEW c \in calls, NEW ok \in BOOLEAN, ServerStep(c, ok), c.ours, Done(e, c, ok) PROVE Good(e)
  <2>1. e.kind = c.kind /\ e.bearer = c.bearer /\ e.ok = ok
    BY <1>4 DEF Done, Like
  <2>2. ASSUME c.kind = "revoke" PROVE c.bearer # 0 => ~rows'[c.bearer].active
    <3>1. Revokes(c, ok)
      BY <1>4, <2>2 DEF ServerStep, Tells, Shows, Makes, Sets
    <3> QED BY <3>1, RevokesTables
  <2>3. ASSUME c.kind \in {"me", "start", "list"}, ~ok PROVE c.bearer # 0 => ~rows'[c.bearer].active
    <3>1. Shows(c, ok)
      BY <1>4, <2>3 DEF ServerStep, Tells, Revokes, Makes, Sets
    <3>2. Over(c)
      BY <2>3, <3>1 DEF Shows, Allowed, Device, RowOf, Over
    <3> QED BY <1>0, <3>2 DEF Over
  <2> QED BY <1>0, <2>1, <2>2, <2>3 DEF Ending
<1>5. \A n \in SignIns : rows'[n].push # 0 => Held(n)'
  BY PushHeld
<1>6. ASSUME NEW e \in calls' PROVE Good(e)
  BY <1>2, <1>3, <1>4, CallsFrom
<1> QED BY <1>5, <1>6 DEF Holders, Over, Ending
-----------------------------------------------------------------------------
(* What the server took, and what it has.                                  *)

LEMMA GivenStep ==
  ASSUME PhoneWell, Paired, NotificationsStayOn, PhoneStep
  PROVE  NotificationsStayOn'
<1>0. /\ \A n \in SignIns : rows[n] \in RowType /\ given[n] \in Nat /\ given[n] <= expo
      /\ expo \in Nat /\ expo # 0
  BY PhoneConstants DEF PhoneWell, PhoneTypeOK, RowType
<1> SUFFICES ASSUME NEW n \in SignIns PROVE rows'[n].push = given'[n] \/ (rows'[n].push = 0 /\ given'[n] # expo')
  BY DEF NotificationsStayOn
<1>1. rows[n].push = given[n] \/ (rows[n].push = 0 /\ given[n] # expo)
  BY DEF NotificationsStayOn
<1>2. CASE AppStep
  BY <1>1, <1>2, AppTables
<1>3. CASE ExpoStep
  <2>1. given' = given /\ (rows'[n].push = rows[n].push \/ (rows'[n].push = 0 /\ rows[n].push # expo /\ expo' = expo))
    BY <1>3, ExpoTables
  <2>2. given[n] # expo + 1
    BY <1>0
  <2>3. expo' = expo \/ expo' = expo + 1
    BY <1>3 DEF ExpoStep
  <2> QED BY <1>1, <2>1, <2>2, <2>3
<1>4. ASSUME NEW c \in calls, NEW ok \in BOOLEAN, ServerStep(c, ok)
      PROVE  rows'[n].push = given'[n] \/ (rows'[n].push = 0 /\ given'[n] # expo')
  <2>0. expo' = expo
    BY <1>4 DEF ServerStep
  <2>1. CASE UNCHANGED <<rows, given>>
    BY <1>1, <2>0, <2>1
  <2>2. CASE Makes(c, TRUE) /\ c.at = "up"
    <3>1. Unmade(c.no) /\ c.no \in SignIns
      BY <2>2 DEF Makes, Paired, Pairing, Up, PhoneWell, SignInKinds
    <3>2. CASE n = c.no
      BY <2>2, <3>1, <3>2, MakesTables DEF Unmade
    <3>3. CASE n # c.no
      BY <1>1, <2>0, <2>2, <3>1, <3>3, MakesTables
    <3> QED BY <3>2, <3>3
  <2>3. CASE Sets(c) /\ ~UNCHANGED <<rows, given>>
    <3>1. /\ rows' = Given(c.bearer, c.token)
          /\ given' = [m \in SignIns |-> IF m = c.bearer THEN c.token ELSE IF given[m] = c.token THEN 0 ELSE given[m]]
      BY <2>3 DEF Sets
    <3>2. given'[n] = IF n = c.bearer THEN c.token ELSE IF given[n] = c.token THEN 0 ELSE given[n]
      BY <3>1
    <3>3. rows'[n] = IF n = c.bearer THEN [rows[n] EXCEPT !.push = c.token]
                     ELSE IF c.token # 0 /\ rows[n].push = c.token THEN [rows[n] EXCEPT !.push = 0] ELSE rows[n]
      BY <3>1 DEF Given
    <3>4. rows'[n].push = IF n = c.bearer THEN c.token
                          ELSE IF c.token # 0 /\ rows[n].push = c.token THEN 0 ELSE rows[n].push
      BY <1>0, <3>3 DEF RowType
    <3> QED BY <1>0, <1>1, <2>0, <3>2, <3>4
  <2>4. CASE Revokes(c, ok)
    BY <1>1, <2>0, <2>4, RevokesTables
  <2>5. Tells(c) \/ Shows(c, ok) \/ (Makes(c, ok) /\ ok = FALSE) => UNCHANGED <<rows, given>>
    BY DEF Tells, Shows, Makes, server
  <2>6. c.at = "up"
    BY <1>4 DEF ServerStep, ServedCall
  <2> QED BY <1>4, <2>1, <2>2, <2>3, <2>4, <2>5, <2>6 DEF ServerStep
<1> QED BY <1>2, <1>3, <1>4 DEF PhoneStep
-----------------------------------------------------------------------------
(* Who has signed out stays signed out.                                    *)

\* The calls of the app: one that is ours was, or was asked for now.
LEMMA OursFrom ==
  ASSUME PhoneStep, NEW e \in calls', e.ours
  PROVE  \/ e \in calls
         \/ AppStep /\ New(e)
         \/ \E c \in calls, ok \in BOOLEAN : ServerStep(c, ok) /\ c.ours /\ Done(e, c, ok)
  BY CallsFrom DEF Was, Alas

LEMMA WishGoes ==
  ASSUME PhoneWell, Intent, PhoneStep
  PROVE  wants' = "out" => stored' = kept' /\ ~SigningIn'
<1> SUFFICES ASSUME wants' = "out" PROVE stored' = kept' /\ ~SigningIn'
  OBVIOUS
<1>1. ASSUME ~SigningIn, ~(AppStep /\ \E n : SignsIn(n)) PROVE ~SigningIn'
  <2> SUFFICES ASSUME NEW e \in calls', e.ours PROVE e.kind \notin SignInKinds
    BY DEF SigningIn
  <2>1. CASE e \in calls
    BY <1>1, <2>1 DEF SigningIn
  <2>2. ASSUME NEW c \in calls, NEW ok, c.ours, Done(e, c, ok) PROVE e.kind \notin SignInKinds
    BY <1>1, <2>2 DEF SigningIn, Done, Like
  <2>3. CASE AppStep /\ New(e)
    <3>1. \A d \in calls : ~SignInGoes(d, e)
      BY <1>1 DEF SigningIn, SignInKinds, SignInGoes, GetsCookie, GetsToken, LeavesSession, Ends
    <3> QED BY <1>1, <2>3, <3>1 DEF New, AsksMore, Starts, Asked, SignInKinds
  <2> QED BY <2>1, <2>2, <2>3, OursFrom
<1>2. CASE (\E c \in calls, ok \in BOOLEAN : ServerStep(c, ok)) \/ ExpoStep
  <2>1. wants = "out" /\ UNCHANGED <<stored, kept>>
    BY <1>2 DEF ServerStep, ExpoStep, app, Counted
  <2>2. ~(AppStep /\ \E n : SignsIn(n))
    BY DEF SignsIn
  <2> QED BY <1>1, <2>1, <2>2 DEF Intent
<1>3. ASSUME AppStep, NEW n, AsksMore(n) \/ Starts(n) PROVE stored' = kept' /\ wants = "out"
  <2>1. wants = "out" /\ UNCHANGED <<stored, kept>>
    BY <1>3 DEF AsksMore, Starts, app, Counted
  <2> QED BY <2>1 DEF Intent
<1>4. \A n : ~SignsIn(n)
  BY DEF SignsIn
<1>5. ASSUME NEW d \in calls, NEW n, SignInGoes(d, n) PROVE FALSE
  <2>1. wants = "out" /\ SigningIn
    BY <1>5 DEF SignInGoes, GetsCookie, GetsToken, LeavesSession, Counted, Ends, SigningIn, SignInKinds
  <2> QED BY <2>1 DEF Intent
<1>6. ASSUME NEW d \in calls, Hears(d) PROVE stored' = kept' /\ ~SigningIn
  <2>1. CASE Keeps(d)
    BY <2>1 DEF Keeps, Counted, Intent
  <2>2. CASE Drops(d)
    BY <2>2 DEF Drops, Intent
  <2> QED BY <1>6, <2>1, <2>2 DEF Hears
<1>7. CASE AppStep
  <2>1. stored' = kept' /\ ~SigningIn
    BY <1>3, <1>4, <1>5, <1>6, <1>7 DEF AppStep, Intent
  <2> QED BY <1>1, <1>4, <2>1
<1> QED BY <1>2, <1>7 DEF PhoneStep

\* While the app starts, nothing is answered but the call of the start.
LEMMA StartAlone ==
  ASSUME PhoneWell, Intent, PhoneStep, NEW c \in calls, c.ours, c.kind = "start"
  PROVE  \/ UNCHANGED app
         \/ \A e \in calls' : ~e.ours
         \/ \E n : Starts(n)
<1>1. Starting(c)
  BY DEF Intent
<1>2. (\E d \in calls, ok \in BOOLEAN : ServerStep(d, ok)) \/ ExpoStep => UNCHANGED app
  BY DEF ServerStep, ExpoStep
<1>3. ASSUME NEW d \in calls, Hears(d) PROVE \A e \in calls' : ~e.ours
  BY <1>1, <1>3 DEF Starting, Hears, Ends, Alas
<1>4. ASSUME NEW d \in calls, NEW n, SignInGoes(d, n) PROVE FALSE
  <2>1. d = c /\ d.kind # "start"
    BY <1>1, <1>4 DEF Starting, SignInGoes, GetsCookie, GetsToken, LeavesSession, Ends
  <2> QED BY <2>1
<1>5. \A n : ~AsksMore(n) /\ ~SignsIn(n)
  BY <1>1 DEF Starting, AsksMore, SignsIn
<1> QED BY <1>2, <1>3, <1>4, <1>5 DEF PhoneStep, AppStep

LEMMA StartingStep ==
  ASSUME PhoneWell, Intent, PhoneStep, NEW e \in calls', e.ours, e.kind = "start"
  PROVE  Starting(e)'
<1>1. CASE \E n : Starts(n)
  <2>1. PICK n : Starts(n)
    BY <1>1
  <2>2. \A x \in calls' : x.ours => x = n
    BY <2>1 DEF Starts, Alas
  <2> QED BY <2>1, <2>2 DEF Starts, Asked, Bearers, Starting
<1>2. ASSUME NEW c \in calls, c.ours, c.kind = "start", UNCHANGED app, e.cookie = c.cookie, e.bearer = c.bearer,
             \A x \in calls' : x.ours => x = e, e.at = "down" /\ e.ok /\ e.bearer = 0 => e.cookie # 0
      PROVE  Starting(e)'
  <2>1. Starting(c)
    BY <1>2 DEF Intent
  <2> QED BY <1>2, <2>1 DEF Starting, app
<1>3. CASE e \in calls
  <2>1. Starting(e)
    BY <1>3 DEF Intent
  <2>2. CASE UNCHANGED app /\ ~\E n : Starts(n)
    <3>1. \A x \in calls' : x.ours => x = e
      <4> SUFFICES ASSUME NEW x \in calls', x.ours PROVE x = e
        OBVIOUS
      <4>1. x \in calls => x = e
        BY <2>1 DEF Starting
      <4>2. ~New(x)
        BY <2>1, <2>2 DEF New, AsksMore, SignsIn, Starting, SignInGoes, GetsCookie, GetsToken, LeavesSession, Ends
      <4>3. ASSUME NEW c \in calls, NEW ok \in BOOLEAN, ServerStep(c, ok), c.ours PROVE FALSE
        <5>1. c = e /\ c.at = "up"
          BY <2>1, <4>3 DEF Starting, ServerStep, ServedCall
        <5>2. e.at = "down"
          BY <1>3, <4>3, <5>1 DEF ServerStep, ServedCall, Done
        <5> QED BY <5>1, <5>2
      <4> QED BY <4>1, <4>2, <4>3, OursFrom
    <3> QED BY <1>2, <1>3, <2>1, <2>2, <3>1 DEF Starting
  <2> QED BY <1>1, <1>3, <2>2, StartAlone
<1>4. ASSUME NEW c \in calls, NEW ok \in BOOLEAN, ServerStep(c, ok), c.ours, Done(e, c, ok) PROVE Starting(e)'
  <2>1. c.kind = "start" /\ e.cookie = c.cookie /\ e.bearer = c.bearer /\ e.ok = ok
    BY <1>4 DEF Done, Like
  <2>2. Shows(c, ok) /\ Starting(c)
    BY <1>4, <2>1 DEF ServerStep, Tells, Makes, Sets, Revokes, Intent
  <2>3. 0 \notin alive
    BY PhoneConstants DEF PhoneWell, PhoneTypeOK
  <2>4. ok /\ c.bearer = 0 => c.cookie # 0
    BY <2>2, <2>3 DEF Shows, Allowed, Device, RowOf
  <2>5. \A x \in calls' : x.ours => x = e
    <3> SUFFICES ASSUME NEW x \in calls', x.ours PROVE x = e
      OBVIOUS
    <3>1. x \in calls => x = c
      BY <2>2 DEF Starting
    <3> QED BY <1>4, <3>1 DEF ServerStep, ServedCall, Done
  <2>6. UNCHANGED app
    BY <1>4 DEF ServerStep
  <2> QED BY <1>2, <1>4, <2>1, <2>4, <2>5, <2>6
<1>5. CASE AppStep /\ New(e)
  BY <1>1, <1>5 DEF New, AsksMore, SignsIn, SignInGoes, GetsCookie, GetsToken, LeavesSession, Asked
<1> QED BY <1>3, <1>4, <1>5, OursFrom

LEMMA IntentStep ==
  ASSUME PhoneWell, Intent, StaysSignedOut, PhoneStep
  PROVE  Intent' /\ StaysSignedOut'
<1>1. Intent'
  BY WishGoes, StartingStep DEF Intent
<1>2. ASSUME wants' = "out", status' = "authenticated", stored' = 0 PROVE cookie' # 0
  <2>1. CASE (\E c \in calls, ok \in BOOLEAN : ServerStep(c, ok)) \/ ExpoStep
    BY <1>2, <2>1 DEF ServerStep, ExpoStep, app, Counted, StaysSignedOut
  <2>2. ASSUME NEW n, AsksMore(n) \/ SignsIn(n) \/ Starts(n) PROVE cookie' # 0
    BY <1>2, <2>2 DEF AsksMore, SignsIn, Starts, app, Counted, StaysSignedOut
  <2>3. ASSUME NEW d \in calls, NEW n, SignInGoes(d, n) PROVE FALSE
    <3>1. wants = "out" /\ SigningIn
      BY <1>2, <2>3 DEF SignInGoes, GetsCookie, GetsToken, LeavesSession, Counted, Ends, SigningIn, SignInKinds
    <3> QED BY <3>1 DEF Intent
  <2>4. ASSUME NEW d \in calls, Hears(d) PROVE cookie' # 0
    <3>1. Keeps(d) /\ cookie' = cookie /\ d.ours /\ wants = "out" /\ stored = 0
      BY <1>2, <2>4 DEF Hears, Keeps, Drops, Ends, Counted
    <3>2. d.kind # "me"
      BY <3>1 DEF Intent, SigningIn, SignInKinds
    <3>3. CASE status' = status
      BY <1>2, <3>1, <3>3 DEF StaysSignedOut
    <3>4. CASE d.kind = "start" /\ d.at = "down" /\ d.ok
      BY <3>1, <3>4 DEF Intent, Starting
    <3> QED BY <1>2, <3>1, <3>2, <3>3, <3>4 DEF Keeps
  <2> QED BY <2>1, <2>2, <2>3, <2>4 DEF PhoneStep, AppStep
<1> QED BY <1>1, <1>2, WishGoes DEF StaysSignedOut
-----------------------------------------------------------------------------
(* The theorems.                                                           *)

\* In every state the rows, the app and the calls are as their types say; a row is made once, by
\* the call of its sign-in; every row that may notify is the app's, was dropped, or is revoked; and
\* whoever has signed out has no token but one that could not be deleted (authStore.ts, secureStore.ts).
THEOREM PhoneInvariant == PhoneSpec => []PhoneInv
<1>1. PhoneInit => PhoneInv
  <2> SUFFICES ASSUME PhoneInit PROVE PhoneInv
    OBVIOUS
  <2>1. calls = {} /\ stored = 0 /\ kept = 0 /\ status = "unauthenticated" /\ PhoneWell
    BY PhoneWellInit DEF PhoneInit
  <2>2. \A n \in SignIns : rows[n] = NoRow /\ given[n] = 0
    BY DEF PhoneInit
  <2>3. Borne /\ Intent /\ StaysSignedOut
    BY <2>1 DEF Borne, Intent, SigningIn, StaysSignedOut
  <2>4. Paired /\ Holders /\ NotificationsStayOn
    BY <2>1, <2>2, NoRowFields DEF Paired, Unmade, Holders, NotificationsStayOn
  <2> QED BY <2>1, <2>3, <2>4 DEF PhoneInv
<1>2. PhoneInv /\ [PhoneNext]_phoneVars => PhoneInv'
  <2> SUFFICES ASSUME PhoneInv, [PhoneNext]_phoneVars PROVE PhoneInv'
    OBVIOUS
  <2>1. /\ PhoneWell /\ Paired /\ Borne /\ Holders /\ NotificationsStayOn /\ Intent /\ StaysSignedOut
        /\ PhoneStep
    BY PhoneSteps DEF PhoneInv
  <2>2. PhoneWell' /\ Paired'
    BY <2>1, PhoneWellStep, PairedStep
  <2>3. Borne' /\ Holders'
    BY <2>1, BorneStep, HoldersStep
  <2>4. NotificationsStayOn' /\ Intent' /\ StaysSignedOut'
    BY <2>1, GivenStep, IntentStep
  <2> QED BY <2>2, <2>3, <2>4 DEF PhoneInv
<1> QED BY <1>1, <1>2, PTL DEF PhoneSpec

\* Tables, app, calls and notifications stay well typed.
THEOREM PhoneTyped == PhoneSpec => []PhoneTypeOK
<1>1. PhoneInv => PhoneTypeOK
  BY DEF PhoneInv, PhoneWell
<1> QED BY <1>1, PhoneInvariant, PTL

\* Nothing but the row whose token the phone holds is notified, and rows whose token the app dropped
\* when the server had not answered to it, however sign-ins and sign-outs overlap (logout, requireAuth).
THEOREM SignedOutIsQuiet == PhoneSpec => []QuietAfterSignOut
<1>1. PhoneInv => QuietAfterSignOut
  BY DEF PhoneInv, Holders, Held, QuietAfterSignOut
<1> QED BY <1>1, PhoneInvariant, PTL

\* A row loses the push token it was given last only when Expo has replaced it (the tickets of
\* notifyNewMail).
THEOREM TicketsAreAboutTheirs == PhoneSpec => []NotificationsStayOn
<1>1. PhoneInv => NotificationsStayOn
  BY DEF PhoneInv
<1> QED BY <1>1, PhoneInvariant, PTL

\* Who has signed out, and was not signing in at the time, is signed in again by nothing but the cookie
\* of a session whose end the server did not confirm, or a token that the keystore did not delete (bootstrap).
THEOREM OutStaysOut == PhoneSpec => []StaysSignedOut
<1>1. PhoneInv => StaysSignedOut
  BY DEF PhoneInv
<1> QED BY <1>1, PhoneInvariant, PTL
-----------------------------------------------------------------------------
\* A mutation, and what is known of it.
MutationType == [no : 1 .. MaxOps, op : Hooks, box : Boxes, sender : Senders \cup {NONE}, who : 1 .. MaxPersons,
                 state : {"sent", "done", "failed"}]

Decided(c) == IF c.op \in Decisions THEN c.sender \in Senders /\ Screener(c.box) \in Keys ELSE c.sender = NONE

Answers == SUBSET (Senders \cup 1 .. MaxOps)

PocketWell ==
  /\ PocketTypeOK
  /\ done \in [Keys -> Answers] /\ answered \in [Keys -> Answers]
  /\ latest \in [Decisions -> 0 .. MaxOps]
  /\ net \subseteq MutationType /\ \A c \in net : c.no <= ops /\ c.who <= persons /\ Decided(c)

\* Change c is among those that key k's answers will show.
InAnswers(c, k) == IF k[1] = "screener" THEN c.op \in Decisions => c.sender \in done[k] ELSE c.no \in done[k]

\* What was answered was carried out.
CarriedOut ==
  /\ \A k \in Keys : k[1] # "screener" => answered[k] \subseteq done[k]
  /\ \A c \in net : c.state = "done" /\ c.who = person =>
       \A k \in Keys \cap Affected(c.op, c.box) : InAnswers(c, k)

\* What entry e shows, or is about to, has every answered change, or e says that it may not.
UpToDate(e, changes) ==
  /\ e.has /\ ~e.stale /\ ~e.late => changes \subseteq e.data
  /\ e.fetch = "sent" /\ e.more /\ ~e.over => changes \subseteq e.data
  /\ e.fetch = "read" /\ ~e.over => changes \subseteq e.got
Current == \A k \in Keys : k[1] # "screener" /\ cache[k] # NONE => UpToDate(cache[k], answered[k])

\* The cache is of the person who is signed in, has what the screens show, and is up to date.
Cached ==
  /\ cache \in [Keys -> EntryType \cup {NONE}]
  /\ \A k \in Keys : cache[k] # NONE => person # 0 /\ cache[k].who = person
  /\ \A k \in shown : cache[k] # NONE
  /\ Current

\* A hidden card has a call that will bring it back, or needs none.
Pends(s, c) == c.sender = s /\ c.op \in Decisions /\ c.who = person /\ latest[c.op] = c.no
Settled(s) == s \in overtaken \/ \E k \in KeysOf({"screener"}) : s \in done[k]
Cards ==
  /\ person = 0 => hidden = {}
  /\ \A s \in hidden : Settled(s) \/ \E c \in net : Pends(s, c)

PocketInv == PocketWell /\ Cached /\ CarriedOut /\ Cards
-----------------------------------------------------------------------------
(* Entries of the cache.                                                   *)

LEMMA PocketConstants ==
  /\ Keys \subseteq Kinds \X (Boxes \cup {ALL}) /\ ALL \notin Boxes /\ Ops \subseteq Hooks /\ NONE \notin Senders
  /\ MaxPersons \in Nat /\ MaxOps \in Nat /\ MaxFaults \in Nat /\ NONE \notin EntryType
  BY PocketConstantsOK, NoneIsNoEntry

LEMMA FetchingEntry ==
  ASSUME NEW e \in EntryType, NEW changes
  PROVE  /\ Fetching(e) \in EntryType /\ Fetching(e).who = e.who
         /\ UpToDate(e, changes) => UpToDate(Fetching(e), changes)
<1> DEFINE x == Fetching(e)
<1>1. /\ x.who = e.who /\ x.has = e.has /\ x.data = e.data /\ x.stale = e.stale /\ x.late = e.late
      /\ x.fetch = "sent" /\ x.more = FALSE /\ x \in EntryType
  BY DEF Fetching, EntryType
<1> HIDE DEF x
<1>2. UpToDate(e, changes) => UpToDate(x, changes)
  BY <1>1 DEF UpToDate
<1> QED BY <1>1, <1>2 DEF x

LEMMA FirstEntry ==
  ASSUME person \in 0 .. MaxPersons, NEW changes
  PROVE  /\ NewEntry \in EntryType /\ NewEntry.who = person
         /\ UpToDate(Fetching(NewEntry), changes)
<1>1. /\ NewEntry \in EntryType /\ NewEntry.who = person /\ NewEntry.has = FALSE
      /\ NewEntry.fetch = "none"
  BY DEF NewEntry, EntryType
<1>2. UpToDate(NewEntry, changes)
  BY <1>1 DEF UpToDate
<1> QED BY <1>1, <1>2, FetchingEntry

LEMMA MountedEntry ==
  ASSUME person \in 0 .. MaxPersons, NEW e \in EntryType \cup {NONE}, NEW old \in BOOLEAN, NEW changes,
         e # NONE => e.who = person
  PROVE  /\ Mounted(e, old) \in EntryType /\ Mounted(e, old).who = person
         /\ e = NONE \/ UpToDate(e, changes) => UpToDate(Mounted(e, old), changes)
<1>1. CASE e = NONE
  BY <1>1, FirstEntry, FetchingEntry DEF Mounted
<1>2. CASE e # NONE
  BY <1>2, FetchingEntry DEF Mounted, Fetched
<1> QED BY <1>1, <1>2

LEMMA RefetchedEntry ==
  ASSUME NEW e \in EntryType, NEW changes
  PROVE  /\ Refetched(e) \in EntryType /\ Refetched(e).who = e.who
         /\ UpToDate(e, changes) => UpToDate(Refetched(e), changes)
<1>1. CASE e.has \/ e.fetch = "none"
  BY <1>1, FetchingEntry DEF Refetched
<1>2. CASE ~(e.has \/ e.fetch = "none")
  <2> DEFINE x == [e EXCEPT !.over = TRUE]
  <2>1. /\ x \in EntryType /\ x.who = e.who /\ x.has = e.has /\ x.over = TRUE /\ Refetched(e) = x
    BY <1>2 DEF EntryType, Refetched
  <2> HIDE DEF x
  <2>2. UpToDate(x, changes)
    BY <1>2, <2>1 DEF UpToDate
  <2> QED BY <2>1, <2>2
<1> QED BY <1>1, <1>2

\* After an invalidation the entry shows nothing as the newest, whatever has changed.
LEMMA InvalidatedEntry ==
  ASSUME NEW e \in EntryType, NEW isShown \in BOOLEAN, NEW changes
  PROVE  /\ Invalidated(e, isShown) \in EntryType /\ Invalidated(e, isShown).who = e.who
         /\ UpToDate(Invalidated(e, isShown), changes)
<1> DEFINE s == [e EXCEPT !.stale = e.has, !.late = FALSE]
<1>1. /\ s \in EntryType /\ s.who = e.who /\ s.stale = s.has /\ s.fetch = e.fetch
  BY DEF EntryType
<1>2. Invalidated(e, isShown) = IF isShown THEN Refetched(s) ELSE [s EXCEPT !.over = s.fetch # "none"]
  BY PocketConstants DEF Invalidated
<1> HIDE DEF s
<1>3. CASE isShown /\ (s.has \/ s.fetch = "none")
  <2> DEFINE x == Fetching(s)
  <2>1. /\ x.who = s.who /\ x.has = s.has /\ x.stale = s.stale /\ x.fetch = "sent"
        /\ x.more = FALSE /\ x \in EntryType /\ Invalidated(e, isShown) = x
    BY <1>1, <1>2, <1>3 DEF Fetching, EntryType, Refetched
  <2> HIDE DEF x
  <2> QED BY <1>1, <2>1 DEF UpToDate
<1>4. CASE ~(isShown /\ (s.has \/ s.fetch = "none"))
  <2> DEFINE y == IF isShown THEN TRUE ELSE s.fetch # "none"
             x == [s EXCEPT !.over = y]
  <2>1. y \in BOOLEAN /\ Invalidated(e, isShown) = x
    BY <1>2, <1>4 DEF Refetched
  <2>2. s.fetch # "none" => y
    BY <1>4
  <2> HIDE DEF y
  <2>3. /\ x.who = s.who /\ x.has = s.has /\ x.stale = s.stale /\ x.fetch = s.fetch
        /\ x.over = y /\ x \in EntryType
    BY <1>1, <2>1 DEF EntryType
  <2> HIDE DEF x
  <2> QED BY <1>1, <2>1, <2>2, <2>3 DEF UpToDate
<1> QED BY <1>3, <1>4
-----------------------------------------------------------------------------
(* The cache after each step.                                              *)

\* One entry is replaced, and what was answered stays.
LEMMA OneEntry ==
  ASSUME PocketInv, NEW k \in Keys, NEW x \in EntryType, cache[k] # NONE,
         cache' = [cache EXCEPT ![k] = x], x.who = cache[k].who,
         k[1] # "screener" => UpToDate(x, answered[k]),
         UNCHANGED <<person, shown, answered>>
  PROVE  Cached'
<1>1. /\ cache \in [Keys -> EntryType \cup {NONE}] /\ shown \subseteq Keys
      /\ x # NONE
  BY PocketConstants DEF PocketInv, PocketWell, PocketTypeOK, Cached
<1>2. cache' \in [Keys -> EntryType \cup {NONE}] /\ cache'[k] = x /\ \A l \in Keys : l # k => cache'[l] = cache[l]
  BY <1>1
<1>3. \A l \in Keys : cache'[l] # NONE => person' # 0 /\ cache'[l].who = person'
  BY <1>2 DEF PocketInv, Cached
<1>4. \A l \in shown' : cache'[l] # NONE
  BY <1>1, <1>2 DEF PocketInv, Cached
<1>5. Current'
  BY <1>2 DEF PocketInv, Cached, Current, UpToDate
<1> QED BY <1>2, <1>3, <1>4, <1>5 DEF Cached

\* Several entries are replaced by ones for the same person.
LEMMA ManyEntries ==
  ASSUME PocketInv, person' = person, shown' \subseteq Keys, cache' = [k \in Keys |-> cache'[k]],
         \A k \in Keys : \/ cache'[k] = NONE /\ k \notin shown'
                         \/ /\ person # 0 /\ cache'[k] \in EntryType /\ cache'[k].who = person
                            /\ k[1] # "screener" => UpToDate(cache'[k], answered'[k])
  PROVE  Cached'
<1>1. cache' \in [Keys -> EntryType \cup {NONE}]
  OBVIOUS
<1>2. \A k \in Keys : cache'[k] # NONE => person' # 0 /\ cache'[k].who = person'
  OBVIOUS
<1>3. \A k \in shown' : cache'[k] # NONE
  BY PocketConstants
<1>4. Current'
  BY DEF Current, UpToDate
<1> QED BY <1>1, <1>2, <1>3, <1>4 DEF Cached

\* An entry is what the invariant says.
LEMMA EntryFacts ==
  ASSUME PocketInv, NEW k \in Keys, cache[k] # NONE
  PROVE  /\ cache[k] \in EntryType /\ cache[k].who = person /\ person # 0
         /\ k[1] # "screener" => UpToDate(cache[k], answered[k]) /\ answered[k] \subseteq done[k]
         /\ done[k] \in Answers /\ person \in 0 .. MaxPersons
  BY PocketConstants DEF PocketInv, PocketWell, PocketTypeOK, Cached, Current, CarriedOut

LEMMA ReadCached ==
  ASSUME PocketInv, NEW k \in Keys, Read(k)
  PROVE  Cached'
<1> DEFINE y == IF cache[k].more THEN cache[k].data ELSE done[k]
           x == [cache[k] EXCEPT !.fetch = "read", !.got = y]
<1>1. /\ cache[k] # NONE /\ cache[k].fetch = "sent" /\ cache' = [cache EXCEPT ![k] = x]
      /\ UNCHANGED <<person, shown, answered>>
  BY DEF Read, mail
<1>2. /\ cache[k] \in EntryType /\ done[k] \in Answers
      /\ k[1] # "screener" => UpToDate(cache[k], answered[k]) /\ answered[k] \subseteq done[k]
  BY <1>1, EntryFacts
<1>3. y \in Answers
  BY <1>2 DEF EntryType, Answers
<1>4. k[1] # "screener" /\ ~cache[k].over => answered[k] \subseteq y
  BY <1>1, <1>2 DEF UpToDate
<1> HIDE DEF y
<1>5. /\ x \in EntryType /\ x.who = cache[k].who /\ x.has = cache[k].has /\ x.stale = cache[k].stale
      /\ x.late = cache[k].late /\ x.data = cache[k].data /\ x.fetch = "read" /\ x.got = y
      /\ x.over = cache[k].over
  BY <1>2, <1>3 DEF EntryType, Answers
<1> HIDE DEF x
<1>6. k[1] # "screener" => UpToDate(x, answered[k])
  BY <1>2, <1>4, <1>5 DEF UpToDate
<1> QED BY <1>1, <1>5, <1>6, OneEntry

LEMMA ArrivesCached ==
  ASSUME PocketInv, NEW k \in Keys, Arrives(k)
  PROVE  Cached'
<1> DEFINE e == cache[k]
           x == [e EXCEPT !.fetch = "none", !.has = TRUE, !.data = e.got, !.stale = FALSE, !.late = e.over,
                          !.got = {}, !.over = FALSE, !.more = FALSE]
<1>1. /\ e # NONE /\ e.fetch = "read" /\ cache' = [cache EXCEPT ![k] = x]
      /\ UNCHANGED <<person, shown, answered>>
  BY DEF Arrives, mail
<1>2. e \in EntryType /\ (k[1] # "screener" => UpToDate(e, answered[k]))
  BY <1>1, EntryFacts
<1>3. /\ x \in EntryType /\ x.who = e.who /\ x.data = e.got /\ x.late = e.over /\ x.fetch = "none"
  BY <1>2 DEF EntryType
<1> HIDE DEF x
<1>4. k[1] # "screener" => UpToDate(x, answered[k])
  BY <1>1, <1>2, <1>3 DEF UpToDate
<1> QED BY <1>1, <1>3, <1>4, OneEntry

LEMMA FetchFailsCached ==
  ASSUME PocketInv, NEW k \in Keys, FetchFails(k)
  PROVE  Cached'
<1> DEFINE e == cache[k]
           x == [e EXCEPT !.fetch = "none", !.got = {}, !.over = FALSE, !.more = FALSE]
<1>1. e # NONE /\ cache' = [cache EXCEPT ![k] = x] /\ UNCHANGED <<person, shown, answered>>
  BY DEF FetchFails
<1>2. e \in EntryType /\ (k[1] # "screener" => UpToDate(e, answered[k]))
  BY <1>1, EntryFacts
<1>3. /\ x \in EntryType /\ x.who = e.who /\ x.has = e.has /\ x.stale = e.stale /\ x.late = e.late
      /\ x.data = e.data /\ x.fetch = "none"
  BY <1>2 DEF EntryType
<1> HIDE DEF x
<1>4. k[1] # "screener" => UpToDate(x, answered[k])
  BY <1>2, <1>3 DEF UpToDate
<1> QED BY <1>1, <1>3, <1>4, OneEntry

LEMMA EndReachedCached ==
  ASSUME PocketInv, NEW k \in Keys, OnEndReached(k)
  PROVE  Cached'
<1> DEFINE e == cache[k]
           y == e.stale \/ e.late
           x == [e EXCEPT !.fetch = "sent", !.more = TRUE, !.got = {}, !.over = y]
<1>1. /\ k \in shown /\ e.has /\ cache' = [cache EXCEPT ![k] = x]
      /\ UNCHANGED <<person, shown, answered>>
  BY DEF OnEndReached, mail
<1>2. e # NONE
  BY <1>1 DEF PocketInv, Cached
<1>3. e \in EntryType /\ (k[1] # "screener" => UpToDate(e, answered[k]))
  BY <1>2, EntryFacts
<1>4. y \in BOOLEAN /\ (~y => ~e.stale /\ ~e.late)
  BY <1>3 DEF EntryType
<1> HIDE DEF y
<1>5. /\ x \in EntryType /\ x.who = e.who /\ x.has = e.has /\ x.stale = e.stale /\ x.late = e.late
      /\ x.data = e.data /\ x.fetch = "sent" /\ x.over = y
  BY <1>3, <1>4 DEF EntryType
<1> HIDE DEF x
<1>6. k[1] # "screener" => UpToDate(x, answered[k])
  BY <1>1, <1>3, <1>4, <1>5 DEF UpToDate
<1> QED BY <1>1, <1>2, <1>5, <1>6, OneEntry

LEMMA RefreshCached ==
  ASSUME PocketInv, NEW k \in Keys, OnRefresh(k)
  PROVE  Cached'
<1>1. /\ k \in shown /\ cache' = [cache EXCEPT ![k] = Refetched(cache[k])]
      /\ UNCHANGED <<person, shown, answered>>
  BY DEF OnRefresh, mail
<1>2. cache[k] # NONE
  BY <1>1 DEF PocketInv, Cached
<1>3. cache[k] \in EntryType /\ (k[1] # "screener" => UpToDate(cache[k], answered[k]))
  BY <1>2, EntryFacts
<1>4. /\ Refetched(cache[k]) \in EntryType /\ Refetched(cache[k]).who = cache[k].who
      /\ k[1] # "screener" => UpToDate(Refetched(cache[k]), answered[k])
  BY <1>3, RefetchedEntry
<1> QED BY <1>1, <1>2, <1>4, OneEntry
LEMMA MountCached ==
  ASSUME PocketInv, NEW new \in SUBSET Keys, Mount(new), person # 0, UNCHANGED <<person, answered>>,
         shown' \subseteq shown \cup new
  PROVE  Cached'
<1>1. PICK old \in SUBSET new :
        cache' = [k \in Keys |-> IF k \in new THEN Mounted(cache[k], k \in old) ELSE cache[k]]
  BY DEF Mount
<1>2. shown \subseteq Keys /\ person \in 0 .. MaxPersons
  BY PocketConstants DEF PocketInv, PocketWell, PocketTypeOK
<1>3. ASSUME NEW k \in Keys
      PROVE  \/ cache'[k] = NONE /\ k \notin shown'
             \/ /\ person # 0 /\ cache'[k] \in EntryType /\ cache'[k].who = person
                /\ k[1] # "screener" => UpToDate(cache'[k], answered'[k])
  <2>1. CASE k \in new
    <3>1. cache'[k] = Mounted(cache[k], k \in old) /\ (k \in old) \in BOOLEAN
      BY <1>1, <2>1
    <3>2. cache[k] \in EntryType \cup {NONE}
      BY DEF PocketInv, Cached
    <3>3. cache[k] # NONE => cache[k].who = person /\ (k[1] # "screener" => UpToDate(cache[k], answered[k]))
      BY EntryFacts
    <3>4. /\ Mounted(cache[k], k \in old) \in EntryType /\ Mounted(cache[k], k \in old).who = person
          /\ cache[k] = NONE \/ UpToDate(cache[k], answered[k])
               => UpToDate(Mounted(cache[k], k \in old), answered[k])
      BY <1>2, <3>1, <3>2, <3>3, MountedEntry
    <3> QED BY <3>1, <3>3, <3>4
  <2>2. CASE k \notin new
    <3>1. cache'[k] = cache[k] /\ (k \in shown' => k \in shown)
      BY <1>1, <2>2
    <3>2. cache[k] = NONE => k \notin shown
      BY DEF PocketInv, Cached
    <3> QED BY <3>1, <3>2, EntryFacts
  <2> QED BY <2>1, <2>2
<1>4. shown' \subseteq Keys /\ cache' = [k \in Keys |-> cache'[k]]
  BY <1>1, <1>2
<1> QED BY <1>3, <1>4, ManyEntries

LEMMA InvalidateCached ==
  ASSUME PocketInv, NEW keys, Invalidate(keys), UNCHANGED <<person, shown>>,
         \A k \in Keys : k \in keys \/ answered'[k] = answered[k] \/ k[1] = "screener"
  PROVE  Cached'
<1>1. cache' = [k \in Keys |-> IF k \in keys THEN Invalidated(cache[k], k \in shown) ELSE cache[k]]
  BY DEF Invalidate
<1>2. ASSUME NEW k \in Keys
      PROVE  \/ cache'[k] = NONE /\ k \notin shown'
             \/ /\ person # 0 /\ cache'[k] \in EntryType /\ cache'[k].who = person
                /\ k[1] # "screener" => UpToDate(cache'[k], answered'[k])
  <2>1. CASE cache[k] = NONE
    <3>1. k \notin shown
      BY <2>1 DEF PocketInv, Cached
    <3>2. cache'[k] = NONE
      BY <1>1, <2>1 DEF Invalidated
    <3> QED BY <3>1, <3>2
  <2>2. CASE cache[k] # NONE /\ k \in keys
    <3>1. cache'[k] = Invalidated(cache[k], k \in shown) /\ (k \in shown) \in BOOLEAN
      BY <1>1, <2>2
    <3>2. cache[k] \in EntryType /\ cache[k].who = person /\ person # 0
      BY <2>2, EntryFacts
    <3>3. /\ Invalidated(cache[k], k \in shown) \in EntryType
          /\ Invalidated(cache[k], k \in shown).who = cache[k].who
          /\ UpToDate(Invalidated(cache[k], k \in shown), answered'[k])
      BY <3>1, <3>2, InvalidatedEntry
    <3> QED BY <3>1, <3>2, <3>3
  <2>3. CASE cache[k] # NONE /\ k \notin keys
    <3>1. cache'[k] = cache[k]
      BY <1>1, <2>3
    <3> QED BY <2>3, <3>1, EntryFacts
  <2> QED BY <2>1, <2>2, <2>3
<1>3. shown' \subseteq Keys /\ cache' = [k \in Keys |-> cache'[k]]
  BY <1>1 DEF PocketInv, PocketWell, PocketTypeOK
<1> QED BY <1>2, <1>3, ManyEntries

\* What an answer may have changed is invalidated.
LEMMA AffectedIsInvalidated ==
  ASSUME NEW op \in Hooks, NEW b \in Boxes
  PROVE  Affected(op, b) \cap Keys \subseteq OnSuccess(op, b)
<1>1. CASE op = "change"
  BY <1>1 DEF Affected, OnSuccess, InvalidateMail, KeysOf, MailKinds
<1>2. CASE op \in Decisions \cup {"allowDomain"}
  BY <1>2 DEF Affected, OnSuccess, InvalidateMail, KeysOf, MailKinds, Decisions, Screener
<1>3. CASE op = "alias"
  BY <1>3 DEF Affected, OnSuccess, RefreshAliases, KeysOf, Decisions
<1>4. CASE op \in {"addTarget", "deleteTarget"}
  BY <1>4 DEF Affected, OnSuccess, RefreshAliases, KeysOf, Decisions
<1> QED BY <1>1, <1>2, <1>3, <1>4 DEF Hooks

LEMMA SucceedsCached ==
  ASSUME PocketInv, NEW c \in net, Succeeds(c)
  PROVE  Cached'
<1>1. c.op \in Hooks /\ c.box \in Boxes
  BY DEF PocketInv, PocketWell, MutationType
<1>2. \A k \in Keys : k \in OnSuccess(c.op, c.box) \/ answered'[k] = answered[k]
  BY <1>1, AffectedIsInvalidated DEF Succeeds
<1>3. Invalidate(OnSuccess(c.op, c.box)) /\ UNCHANGED <<person, shown>>
  BY DEF Succeeds
<1> QED BY <1>2, <1>3, InvalidateCached

\* The steps by what they do to the cache.
OneQuery(k) == Read(k) \/ Arrives(k) \/ FetchFails(k) \/ OnRefresh(k) \/ OnEndReached(k)
CallMoves == \E c \in net : Served(c) \/ Broken(c) \/ Fails(c)
Asking == \E op \in Hooks : Mutate(op) \/ \E s \in Senders : Decide(op, s)

LEMMA StepCached ==
  ASSUME PocketInv, [PocketNext]_pocketVars
  PROVE  Cached'
<1>1. shown \subseteq Keys /\ Cached
  BY DEF PocketInv, PocketWell, PocketTypeOK
<1>2. CASE \E k \in Keys : OneQuery(k)
  BY <1>2, ReadCached, ArrivesCached, FetchFailsCached, RefreshCached, EndReachedCached DEF OneQuery
<1>3. CASE \E k \in Keys : Collected(k)
  <2>1. PICK k \in Keys : Collected(k)
    BY <1>3
  <2>2. /\ k \notin shown /\ cache' = [cache EXCEPT ![k] = NONE] /\ UNCHANGED <<person, shown, answered>>
    BY <2>1 DEF Collected, mail
  <2> QED BY <1>1, <2>2 DEF Cached, Current, UpToDate
<1>4. CASE \E k \in Keys : Open(k)
  <2>1. PICK k \in Keys : Open(k)
    BY <1>4
  <2>2. {k} \in SUBSET Keys /\ Mount({k}) /\ person # 0 /\ UNCHANGED <<person, answered>>
        /\ shown' \subseteq shown \cup {k}
    BY <2>1 DEF Open, mail
  <2> QED BY <2>2, MountCached
<1>5. CASE \E b \in Boxes : SetActiveMailboxId(b)
  <2>1. PICK b \in Boxes : SetActiveMailboxId(b)
    BY <1>5
  <2>2. Mount(shown' \ shown) /\ person # 0 /\ UNCHANGED <<person, answered>>
    BY <2>1 DEF SetActiveMailboxId, mail
  <2>3. shown' \ shown \in SUBSET Keys /\ shown' \subseteq shown \cup (shown' \ shown)
    BY <1>1, <2>1 DEF SetActiveMailboxId
  <2> QED BY <2>2, <2>3, MountCached
<1>6. CASE (\E k \in Keys : Close(k)) \/ Locked \/ CallMoves \/ Asking \/ UNCHANGED pocketVars
  <2>1. UNCHANGED <<person, cache, answered>> /\ shown' \subseteq shown
    BY <1>6 DEF Close, Locked, CallMoves, Asking, pocketVars, mail, Served, Broken, Fails, Mutate, Decide, Mutation
  <2> QED BY <1>1, <2>1 DEF Cached, Current, UpToDate
<1>7. CASE LoggedOut
  <2>1. cache' = [k \in Keys |-> NONE] /\ shown' = {}
    BY <1>7 DEF LoggedOut, Cleared
  <2> QED BY <2>1 DEF Cached, Current
<1>8. CASE SignedIn
  <2>1. person = 0 /\ UNCHANGED <<cache, shown>>
    BY <1>8 DEF SignedIn
  <2>2. \A k \in Keys : cache[k] = NONE
    BY <1>1, <2>1 DEF Cached
  <2> QED BY <1>1, <2>1, <2>2 DEF Cached, Current
<1>9. CASE \E c \in net : Succeeds(c)
  BY <1>9, SucceedsCached
<1> QED BY <1>2, <1>3, <1>4, <1>5, <1>6, <1>7, <1>8, <1>9
     DEF PocketNext, Queries, Screens, Changes, OneQuery, CallMoves, Asking
-----------------------------------------------------------------------------
(* Types.                                                                  *)

LEMMA CallFacts ==
  ASSUME PocketInv, NEW c \in net
  PROVE  /\ c \in MutationType /\ c.no \in 1 .. MaxOps /\ c.op \in Hooks /\ c.box \in Boxes
         /\ c.sender \in Senders \cup {NONE} /\ c.who \in 1 .. MaxPersons
         /\ c.no <= ops /\ c.who <= persons /\ Decided(c)
  BY DEF PocketInv, PocketWell, MutationType

\* A call that goes on is the same call.
LEMMA SameCall ==
  ASSUME NEW c \in MutationType, NEW state \in {"sent", "done", "failed"}
  PROVE  /\ [c EXCEPT !.state = state] \in MutationType
         /\ [c EXCEPT !.state = state].no = c.no /\ [c EXCEPT !.state = state].op = c.op
         /\ [c EXCEPT !.state = state].box = c.box /\ [c EXCEPT !.state = state].sender = c.sender
         /\ [c EXCEPT !.state = state].who = c.who /\ [c EXCEPT !.state = state].state = state
  BY DEF MutationType

\* The net of PocketWell.
NetWell == net \subseteq MutationType /\ \A c \in net : c.no <= ops /\ c.who <= persons /\ Decided(c)

LEMMA OneCallMoves ==
  ASSUME PocketInv, NEW c \in net, NEW state \in {"sent", "done", "failed"},
         net' = (net \ {c}) \cup {[c EXCEPT !.state = state]}, UNCHANGED <<ops, persons>>
  PROVE  NetWell'
<1>1. c \in MutationType /\ NetWell
  BY DEF PocketInv, PocketWell, NetWell
<1> DEFINE x == [c EXCEPT !.state = state]
<1>2. x \in MutationType /\ x.no = c.no /\ x.op = c.op /\ x.box = c.box /\ x.sender = c.sender /\ x.who = c.who
  BY <1>1, SameCall
<1>3. net' = (net \ {c}) \cup {x}
  OBVIOUS
<1> HIDE DEF x
<1> QED BY <1>1, <1>2, <1>3 DEF NetWell, Decided

\* A new call of the person who is signed in.
LEMMA NewCall ==
  ASSUME PocketInv, NEW op \in Hooks, NEW s \in Senders \cup {NONE}, Mutation(op, s),
         IF op \in Decisions THEN s \in Senders /\ Screener(active) \in Keys ELSE s = NONE
  PROVE  /\ NetWell' /\ ops' = ops + 1 /\ ops' \in 0 .. MaxOps /\ ops \in Nat /\ net \subseteq net'
         /\ UNCHANGED <<person, persons, active, shown, cache, done, faults, answered>>
         /\ \A c \in net' : \/ c \in net
                            \/ /\ c.no = ops + 1 /\ c.op = op /\ c.sender = s /\ c.who = person
                               /\ c.state = "sent"
         /\ \E c \in net' : c.no = ops + 1 /\ c.op = op /\ c.sender = s /\ c.who = person
<1> DEFINE x == [no |-> ops + 1, op |-> op, box |-> active, sender |-> s, who |-> person, state |-> "sent"]
<1>1. /\ person # 0 /\ ops < MaxOps /\ ops' = ops + 1 /\ net' = net \cup {x}
      /\ UNCHANGED <<person, persons, active, shown, cache, done, faults, answered>>
  BY DEF Mutation
<1>2. /\ person \in {0, persons} /\ persons \in 0 .. MaxPersons /\ active \in Boxes /\ ops \in 0 .. MaxOps /\ NetWell
  BY DEF PocketInv, PocketWell, PocketTypeOK, NetWell
<1>3. /\ x \in MutationType /\ x.no = ops + 1 /\ x.op = op /\ x.box = active /\ x.sender = s /\ x.who = person
      /\ x.state = "sent"
  BY <1>1, <1>2, PocketConstants DEF MutationType
<1>4. Decided(x)
  BY <1>3 DEF Decided
<1> HIDE DEF x
<1>5. \A c \in net : c.no \in Nat
  BY <1>2 DEF NetWell, MutationType
<1>6. NetWell'
  <2>1. net' \subseteq MutationType
    BY <1>1, <1>2, <1>3 DEF NetWell
  <2>2. \A c \in net' : c.no <= ops' /\ c.who <= persons'
    BY <1>1, <1>2, <1>3, <1>5, PocketConstants DEF NetWell
  <2>3. \A c \in net' : Decided(c)
    BY <1>1, <1>2, <1>4 DEF NetWell
  <2> QED BY <2>1, <2>2, <2>3 DEF NetWell, Decided
<1>7. ops' \in 0 .. MaxOps /\ ops \in Nat
  BY <1>1, <1>2, PocketConstants
<1> QED BY <1>1, <1>3, <1>6, <1>7
\* What the server has carried out stays in its answers.
LEMMA ServedAnswers ==
  ASSUME PocketInv, NEW c \in net, Served(c)
  PROVE  /\ done' \in [Keys -> Answers]
         /\ \A k \in Keys : done[k] \cap Senders \subseteq done'[k] /\ (k[1] # "screener" => done[k] \subseteq done'[k])
         /\ c.who = person => \A k \in Keys \cap Affected(c.op, c.box) : InAnswers(c, k)'
<1>1. /\ c.no \in 1 .. MaxOps /\ c.sender \in Senders \cup {NONE} /\ c.op \in Hooks /\ c.box \in Boxes /\ Decided(c)
      /\ done \in [Keys -> Answers]
  BY CallFacts DEF PocketInv, PocketWell
<1>2. /\ done' = [k \in Keys |->
           IF c.who # person \/ k \notin Affected(c.op, c.box) THEN done[k]
           ELSE IF k[1] # "screener" THEN done[k] \cup {c.no}
           ELSE IF c.op = "allowDomain" THEN Senders ELSE done[k] \cup {c.sender}]
  BY DEF Served
<1>3. ASSUME NEW k \in Keys, k \in Affected(c.op, c.box), k[1] = "screener", c.op # "allowDomain"
      PROVE  c.sender \in Senders
  <2>1. c.op \in Decisions
    BY <1>1, <1>3 DEF Affected, MailKinds, KeysOf, Decisions, Hooks
  <2> QED BY <1>1, <2>1 DEF Decided
<1>4. ASSUME NEW k \in Keys
      PROVE  /\ done'[k] \in Answers /\ done[k] \cap Senders \subseteq done'[k]
             /\ k[1] # "screener" => done[k] \subseteq done'[k]
  <2>1. done[k] \in Answers
    BY <1>1
  <2>2. \/ done'[k] = done[k] \/ done'[k] = done[k] \cup {c.no} \/ (k[1] = "screener" /\ done'[k] = Senders)
        \/ c.sender \in Senders /\ done'[k] = done[k] \cup {c.sender}
    BY <1>2, <1>3
  <2> QED BY <1>1, <2>1, <2>2 DEF Answers
<1>5. done' \in [Keys -> Answers]
  BY <1>2, <1>4
<1>6. ASSUME c.who = person, NEW k \in Keys \cap Affected(c.op, c.box)
      PROVE  InAnswers(c, k)'
  BY <1>2, <1>6 DEF InAnswers, Decisions
<1> QED BY <1>4, <1>5, <1>6

LEMMA StepWell ==
  ASSUME PocketInv, [PocketNext]_pocketVars, Cached'
  PROVE  PocketWell'
<1>1. /\ person \in {0, persons} /\ persons \in 0 .. MaxPersons /\ active \in Boxes
      /\ shown \subseteq Keys /\ (person = 0 => shown = {})
      /\ \A k \in shown : k[2] \in {active, ALL}
      /\ ops \in 0 .. MaxOps /\ faults \in 0 .. MaxFaults
      /\ hidden \subseteq Senders /\ overtaken \subseteq Senders
      /\ latest \in [Decisions -> 0 .. MaxOps] /\ \A op \in Decisions : latest[op] \in 0 .. ops
      /\ done \in [Keys -> Answers] /\ answered \in [Keys -> Answers] /\ NetWell
  BY DEF PocketInv, PocketWell, PocketTypeOK, NetWell
<1>2. \A k \in Keys : cache'[k] = NONE \/ cache'[k] \in EntryType
  BY DEF Cached
<1>3. \A k \in shown' : cache'[k] # NONE
  BY DEF Cached
<1> SUFFICES
      /\ person' \in {0, persons'} /\ persons' \in 0 .. MaxPersons /\ active' \in Boxes
      /\ shown' \subseteq Keys /\ (person' = 0 => shown' = {})
      /\ \A k \in shown' : k[2] \in {active', ALL}
      /\ ops' \in 0 .. MaxOps /\ faults' \in 0 .. MaxFaults
      /\ hidden' \subseteq Senders /\ overtaken' \subseteq Senders
      /\ latest' \in [Decisions -> 0 .. MaxOps] /\ \A op \in Decisions : latest'[op] \in 0 .. ops'
      /\ done' \in [Keys -> Answers] /\ answered' \in [Keys -> Answers] /\ NetWell'
  BY <1>2, <1>3 DEF PocketWell, PocketTypeOK, NetWell, Decided
<1>4. CASE \E k \in Keys : Read(k) \/ Arrives(k) \/ FetchFails(k) \/ Collected(k)
  <2>1. /\ UNCHANGED <<person, persons, active, shown, done, net, ops, answered, cards>>
        /\ faults' \in 0 .. MaxFaults
    BY <1>1, <1>4, PocketConstants DEF Read, Arrives, FetchFails, Collected, mail
  <2> QED BY <1>1, <2>1 DEF cards, NetWell, Decided
<1>5. CASE \E k \in Keys : Open(k) \/ Close(k) \/ OnRefresh(k) \/ OnEndReached(k)
  <2>1. /\ UNCHANGED <<person, persons, active, mail, latest, overtaken>>
        /\ hidden' \subseteq Senders
        /\ shown' \subseteq Keys /\ (person' = 0 => shown' = {}) /\ \A k \in shown' : k[2] \in {active, ALL}
    BY <1>1, <1>5 DEF Open, Close, OnRefresh, OnEndReached, cards
  <2> QED BY <1>1, <2>1 DEF mail, NetWell, Decided
<1>6. CASE \E b \in Boxes : SetActiveMailboxId(b)
  <2>1. PICK b \in Boxes : SetActiveMailboxId(b)
    BY <1>6
  <2>2. /\ UNCHANGED <<person, persons, mail, cards>> /\ person # 0 /\ active' = b
        /\ shown' \subseteq Keys /\ \A k \in shown' : k[2] \in {b, ALL}
    BY <1>1, <2>1 DEF SetActiveMailboxId
  <2> QED BY <1>1, <2>2 DEF mail, cards, NetWell, Decided
<1>7. CASE Locked \/ LoggedOut
  <2>1. /\ UNCHANGED <<persons, active, mail, latest, overtaken>> /\ person' \in {0, person}
        /\ shown' = {} /\ hidden' = {}
    BY <1>7 DEF Locked, LoggedOut
  <2> QED BY <1>1, <2>1 DEF mail, NetWell, Decided
<1>8. CASE SignedIn
  <2>1. /\ persons' = persons + 1 /\ person' = persons' /\ persons < MaxPersons
        /\ done' = [k \in Keys |-> {}] /\ answered' = [k \in Keys |-> {}]
        /\ UNCHANGED <<active, shown, net, ops, faults, cards>> /\ person = 0
    BY <1>8 DEF SignedIn
  <2>2. persons' \in 0 .. MaxPersons /\ person' # 0
    BY <1>1, <2>1, PocketConstants
  <2>3. \A c \in net : c.who \in Nat /\ c.no <= ops /\ c.who <= persons
    BY <1>1 DEF NetWell, MutationType
  <2>4. \A c \in net : c.who <= persons'
    BY <1>1, <2>1, <2>3
  <2>5. NetWell'
    BY <1>1, <2>1, <2>4 DEF NetWell, Decided
  <2>6. done' \in [Keys -> Answers] /\ answered' \in [Keys -> Answers]
    BY <2>1 DEF Answers
  <2> QED BY <1>1, <2>1, <2>2, <2>5, <2>6 DEF cards
<1>9. CASE \E op \in Hooks : Mutate(op)
  <2>1. PICK op \in Hooks : Mutate(op)
    BY <1>9
  <2>2. Mutation(op, NONE) /\ op \notin Decisions /\ UNCHANGED cards
    BY <2>1 DEF Mutate
  <2>3. /\ NetWell' /\ ops' = ops + 1 /\ ops' \in 0 .. MaxOps /\ ops \in Nat
        /\ UNCHANGED <<person, persons, active, shown, done, faults, answered>>
    BY <2>2, NewCall
  <2>4. \A h \in Decisions : latest[h] \in 0 .. ops'
    BY <1>1, <2>3
  <2> QED BY <1>1, <2>2, <2>3, <2>4 DEF cards
<1>10. CASE \E op \in Hooks, s \in Senders : Decide(op, s)
  <2>1. PICK op \in Hooks, s \in Senders : Decide(op, s)
    BY <1>10
  <2>2. /\ op \in Decisions /\ Mutation(op, s) /\ hidden' = hidden \cup {s} /\ Screener(active) \in shown
        /\ latest' = [latest EXCEPT ![op] = ops + 1]
        /\ overtaken' = (overtaken \cup {c.sender : c \in {d \in net : d.op = op}}) \ {s}
    BY <2>1 DEF Decide, Visible
  <2>3. /\ NetWell' /\ ops' = ops + 1 /\ ops' \in 0 .. MaxOps /\ ops \in Nat
        /\ UNCHANGED <<person, persons, active, shown, done, faults, answered>>
    BY <1>1, <2>2, NewCall
  <2>4. latest' \in [Decisions -> 0 .. MaxOps] /\ \A h \in Decisions : latest'[h] \in 0 .. ops'
    BY <1>1, <2>2, <2>3
  <2>5. \A c \in net : c.op = op => c.sender \in Senders
    BY <1>1, <2>2 DEF NetWell, Decided
  <2>6. overtaken' \subseteq Senders
    BY <1>1, <2>2, <2>5
  <2> QED BY <1>1, <2>2, <2>3, <2>4, <2>6
<1>11. CASE \E c \in net : Served(c)
  <2>1. PICK c \in net : Served(c)
    BY <1>11
  <2>2. /\ net' = (net \ {c}) \cup {[c EXCEPT !.state = "done"]}
        /\ UNCHANGED <<person, persons, active, shown, ops, faults, answered, cards>>
    BY <2>1 DEF Served
  <2>3. NetWell'
    BY <2>2, OneCallMoves
  <2>4. done' \in [Keys -> Answers]
    BY <2>1, ServedAnswers
  <2> QED BY <1>1, <2>2, <2>3, <2>4 DEF cards
<1>12. CASE \E c \in net : Broken(c)
  <2>1. PICK c \in net : Broken(c)
    BY <1>12
  <2>2. /\ net' = (net \ {c}) \cup {[c EXCEPT !.state = "failed"]} /\ faults < MaxFaults /\ faults' = faults + 1
        /\ UNCHANGED <<person, persons, active, shown, done, ops, answered, cards>>
    BY <2>1 DEF Broken
  <2>3. NetWell'
    BY <2>2, OneCallMoves
  <2>4. faults' \in 0 .. MaxFaults
    BY <1>1, <2>2, PocketConstants
  <2> QED BY <1>1, <2>2, <2>3, <2>4 DEF cards
<1>13. CASE \E c \in net : Succeeds(c)
  <2>1. PICK c \in net : Succeeds(c)
    BY <1>13
  <2>2. /\ net' = net \ {c} /\ UNCHANGED <<person, persons, active, shown, done, ops, faults, cards>>
        /\ answered' = [k \in Keys |-> IF c.who = person /\ k \in Affected(c.op, c.box)
                                       THEN answered[k] \cup {c.no} ELSE answered[k]]
    BY <2>1 DEF Succeeds
  <2>3. c.no \in 1 .. MaxOps
    BY CallFacts
  <2>4. answered' \in [Keys -> Answers]
    BY <1>1, <2>2, <2>3 DEF Answers
  <2>5. NetWell'
    BY <1>1, <2>2 DEF NetWell, Decided
  <2> QED BY <1>1, <2>2, <2>4, <2>5 DEF cards
<1>14. CASE \E c \in net : Fails(c)
  <2>1. PICK c \in net : Fails(c)
    BY <1>14
  <2>2. /\ net' = net \ {c} /\ hidden' \subseteq hidden
        /\ UNCHANGED <<person, persons, active, shown, done, ops, faults, answered, latest, overtaken>>
    BY <2>1 DEF Fails, ShownAgain
  <2> QED BY <1>1, <2>2 DEF NetWell, Decided
<1>15. CASE UNCHANGED pocketVars
  BY <1>1, <1>15 DEF pocketVars, mail, cards, NetWell, Decided
<1> QED BY <1>4, <1>5, <1>6, <1>7, <1>8, <1>9, <1>10, <1>11, <1>12, <1>13, <1>14, <1>15
     DEF PocketNext, Queries, Screens, Changes
-----------------------------------------------------------------------------
(* Changes and cards.                                                      *)

\* The steps of queries and of screens, but for signing in and out.
OfScreens ==
  \/ Queries \/ Locked \/ \E b \in Boxes : SetActiveMailboxId(b)
  \/ \E k \in Keys : Open(k) \/ Close(k) \/ OnRefresh(k) \/ OnEndReached(k)

LEMMA ScreensKeep ==
  ASSUME OfScreens \/ UNCHANGED pocketVars
  PROVE  UNCHANGED <<done, answered, net, person, latest, overtaken>> /\ hidden' \subseteq hidden
<1>1. CASE Queries
  BY <1>1 DEF Queries, Read, Arrives, FetchFails, Collected, mail, cards
<1>2. CASE Locked \/ \E b \in Boxes : SetActiveMailboxId(b)
  BY <1>2 DEF Locked, SetActiveMailboxId, mail, cards
<1>3. CASE \E k \in Keys : Open(k) \/ Close(k)
  BY <1>3 DEF Open, Close, mail, cards
<1>4. CASE \E k \in Keys : OnRefresh(k) \/ OnEndReached(k)
  BY <1>4 DEF OnRefresh, OnEndReached, mail, cards
<1>5. CASE UNCHANGED pocketVars
  BY <1>5 DEF pocketVars, mail, cards
<1> QED BY <1>1, <1>2, <1>3, <1>4, <1>5 DEF OfScreens

LEMMA StepCarriedOut ==
  ASSUME PocketInv, [PocketNext]_pocketVars
  PROVE  CarriedOut'
<1>1. /\ \A k \in Keys : k[1] # "screener" => answered[k] \subseteq done[k]
      /\ \A c \in net : c.state = "done" /\ c.who = person =>
           \A k \in Keys \cap Affected(c.op, c.box) : InAnswers(c, k)
  BY DEF PocketInv, CarriedOut
<1>2. CASE UNCHANGED <<done, answered, net, person>>
  BY <1>1, <1>2 DEF CarriedOut, InAnswers
<1>3. CASE LoggedOut
  <2>1. UNCHANGED <<done, answered, net>> /\ person' = 0
    BY <1>3 DEF LoggedOut, mail
  <2>2. \A c \in net : c.who # 0
    BY CallFacts
  <2> QED BY <1>1, <2>1, <2>2 DEF CarriedOut
<1>4. CASE SignedIn
  <2>1. net' = net /\ person' = persons + 1 /\ answered' = [k \in Keys |-> {}]
    BY <1>4 DEF SignedIn
  <2>2. \A c \in net : c.who \in Nat /\ c.who <= persons
    BY CallFacts, PocketConstants
  <2>3. persons \in Nat
    BY PocketConstants DEF PocketInv, PocketWell, PocketTypeOK
  <2>4. \A c \in net : c.who # persons + 1
    BY <2>2, <2>3
  <2> QED BY <2>1, <2>4 DEF CarriedOut
<1>5. CASE \E op \in Hooks : Mutate(op) \/ \E s \in Senders : Decide(op, s)
  <2>1. PICK op \in Hooks, s \in Senders \cup {NONE} :
          Mutation(op, s) /\ IF op \in Decisions THEN s \in Senders /\ Screener(active) \in Keys ELSE s = NONE
    BY <1>5 DEF Mutate, Decide, Visible, PocketInv, PocketWell, PocketTypeOK
  <2>2. /\ UNCHANGED <<person, done, answered>> /\ \A c \in net' : c \in net \/ c.state = "sent"
    BY <2>1, NewCall
  <2> QED BY <1>1, <2>2 DEF CarriedOut, InAnswers
<1>6. CASE \E c \in net : Served(c)
  <2>1. PICK c \in net : Served(c)
    BY <1>6
  <2> DEFINE x == [c EXCEPT !.state = "done"]
  <2>2. net' = (net \ {c}) \cup {x} /\ UNCHANGED <<person, answered>>
    BY <2>1 DEF Served
  <2>3. x.op = c.op /\ x.box = c.box /\ x.who = c.who /\ x.no = c.no /\ x.sender = c.sender
    BY CallFacts, SameCall
  <2> HIDE DEF x
  <2>4. /\ \A k \in Keys : done[k] \cap Senders \subseteq done'[k] /\ (k[1] # "screener" => done[k] \subseteq done'[k])
        /\ c.who = person => \A k \in Keys \cap Affected(c.op, c.box) : InAnswers(c, k)'
    BY <2>1, ServedAnswers
  <2>5. \A d \in net : d.op \in Decisions => d.sender \in Senders
    BY CallFacts DEF Decided
  <2>6. \A d \in net, k \in Keys : InAnswers(d, k) => InAnswers(d, k)'
    BY <2>4, <2>5 DEF InAnswers
  <2>7. c.who = person => \A k \in Keys \cap Affected(c.op, c.box) : InAnswers(x, k)'
    BY <2>3, <2>4 DEF InAnswers
  <2>8. \A k \in Keys : k[1] # "screener" => answered'[k] \subseteq done'[k]
    BY <1>1, <2>2, <2>4
  <2>9. \A d \in net' : d.state = "done" /\ d.who = person' =>
          \A k \in Keys \cap Affected(d.op, d.box) : InAnswers(d, k)'
    BY <1>1, <2>2, <2>3, <2>6, <2>7
  <2> QED BY <2>8, <2>9 DEF CarriedOut, InAnswers
<1>7. CASE \E c \in net : Broken(c)
  <2>1. PICK c \in net : Broken(c)
    BY <1>7
  <2> DEFINE x == [c EXCEPT !.state = "failed"]
  <2>2. net' = (net \ {c}) \cup {x} /\ UNCHANGED <<person, done, answered>>
    BY <2>1 DEF Broken
  <2>3. x.state = "failed"
    BY CallFacts, SameCall
  <2> HIDE DEF x
  <2> QED BY <1>1, <2>2, <2>3 DEF CarriedOut, InAnswers
<1>8. CASE \E c \in net : Succeeds(c)
  <2>1. PICK c \in net : Succeeds(c)
    BY <1>8
  <2>2. /\ c.state = "done" /\ net' = net \ {c} /\ UNCHANGED <<person, done>>
        /\ answered' = [k \in Keys |-> IF c.who = person /\ k \in Affected(c.op, c.box)
                                       THEN answered[k] \cup {c.no} ELSE answered[k]]
    BY <2>1 DEF Succeeds
  <2>3. \A k \in Keys : c.who = person /\ k \in Affected(c.op, c.box) /\ k[1] # "screener" => c.no \in done[k]
    BY <1>1, <2>2 DEF InAnswers
  <2>4. \A k \in Keys : k[1] # "screener" => answered'[k] \subseteq done'[k]
    BY <1>1, <2>2, <2>3
  <2> QED BY <1>1, <2>2, <2>4 DEF CarriedOut, InAnswers
<1>9. CASE \E c \in net : Fails(c)
  BY <1>1, <1>9 DEF Fails, CarriedOut, InAnswers
<1>10. CASE OfScreens \/ UNCHANGED pocketVars
  BY <1>2, <1>10, ScreensKeep
<1> QED BY <1>3, <1>4, <1>5, <1>6, <1>7, <1>8, <1>9, <1>10 DEF PocketNext, Screens, Changes, OfScreens

LEMMA StepCards ==
  ASSUME PocketInv, [PocketNext]_pocketVars
  PROVE  Cards'
<1>1. /\ person = 0 => hidden = {}
      /\ \A s \in hidden : Settled(s) \/ \E c \in net : Pends(s, c)
      /\ hidden \subseteq Senders
  BY DEF PocketInv, Cards, PocketWell, PocketTypeOK
<1>2. CASE UNCHANGED <<done, net, person, latest, overtaken>> /\ hidden' \subseteq hidden
  BY <1>1, <1>2 DEF Cards, Settled, Pends
<1>3. CASE LoggedOut
  BY <1>3 DEF LoggedOut, Cards
<1>4. CASE SignedIn
  BY <1>1, <1>4 DEF SignedIn, cards, Cards
<1>5. CASE \E op \in Hooks : Mutate(op)
  <2>1. PICK op \in Hooks : Mutate(op)
    BY <1>5
  <2>2. Mutation(op, NONE) /\ op \notin Decisions /\ UNCHANGED cards
    BY <2>1 DEF Mutate
  <2>3. net \subseteq net' /\ UNCHANGED <<person, done>>
    BY <2>2, NewCall
  <2> QED BY <1>1, <2>2, <2>3 DEF Cards, Settled, Pends, cards
<1>6. CASE \E op \in Hooks, s \in Senders : Decide(op, s)
  <2>1. PICK op \in Hooks, s \in Senders : Decide(op, s)
    BY <1>6
  <2>2. /\ op \in Decisions /\ Mutation(op, s) /\ hidden' = hidden \cup {s} /\ Screener(active) \in Keys /\ person # 0
        /\ latest' = [latest EXCEPT ![op] = ops + 1]
        /\ overtaken' = (overtaken \cup {c.sender : c \in {d \in net : d.op = op}}) \ {s}
    BY <2>1 DEF Decide, Visible, Mutation, PocketInv, PocketWell, PocketTypeOK
  <2>3. /\ net \subseteq net' /\ UNCHANGED <<person, done>>
        /\ \E c \in net' : c.no = ops + 1 /\ c.op = op /\ c.sender = s /\ c.who = person
    BY <2>2, NewCall
  <2>4. latest \in [Decisions -> 0 .. MaxOps]
    BY DEF PocketInv, PocketWell
  <2>5. \E c \in net' : Pends(s, c)'
    BY <2>2, <2>3, <2>4 DEF Pends
  <2>6. ASSUME NEW t \in hidden, t # s
        PROVE  Settled(t)' \/ \E c \in net' : Pends(t, c)'
    <3>1. CASE Settled(t)
      BY <2>2, <2>3, <2>6, <3>1 DEF Settled
    <3>2. CASE \E c \in net : Pends(t, c)
      <4>1. PICK c \in net : Pends(t, c)
        BY <3>2
      <4>2. CASE c.op = op
        <5>1. t \in overtaken'
          BY <2>2, <2>6, <4>1, <4>2 DEF Pends
        <5> QED BY <5>1 DEF Settled
      <4>3. CASE c.op # op
        <5>1. Pends(t, c)'
          BY <2>2, <2>3, <2>4, <4>1, <4>3 DEF Pends
        <5> QED BY <2>3, <5>1
      <4> QED BY <4>2, <4>3
    <3> QED BY <1>1, <3>1, <3>2
  <2> QED BY <2>2, <2>3, <2>5, <2>6 DEF Cards
<1>7. CASE \E c \in net : Served(c) \/ Broken(c)
  <2>1. PICK c \in net : Served(c) \/ Broken(c)
    BY <1>7
  <2>2. PICK state \in {"done", "failed"} : net' = (net \ {c}) \cup {[c EXCEPT !.state = state]}
    BY <2>1 DEF Served, Broken
  <2> DEFINE x == [c EXCEPT !.state = state]
  <2>3. x.op = c.op /\ x.who = c.who /\ x.no = c.no /\ x.sender = c.sender
    BY CallFacts, SameCall
  <2>4. net' = (net \ {c}) \cup {x}
    BY <2>2
  <2> HIDE DEF x
  <2>5. UNCHANGED <<person, hidden, latest, overtaken>>
    BY <2>1 DEF Served, Broken, cards
  <2>6. \A k \in Keys : done[k] \cap Senders \subseteq done'[k]
    BY <2>1, ServedAnswers DEF Broken
  <2>7. \A s \in hidden : Settled(s) => Settled(s)'
    BY <1>1, <2>5, <2>6 DEF Settled, KeysOf
  <2>8. \A s \in hidden, d \in net : Pends(s, d) => \E e \in net' : Pends(s, e)'
    BY <2>3, <2>4, <2>5 DEF Pends
  <2> QED BY <1>1, <2>5, <2>7, <2>8 DEF Cards
<1>8. CASE \E c \in net : Succeeds(c)
  <2>1. PICK c \in net : Succeeds(c)
    BY <1>8
  <2>2. c.state = "done" /\ net' = net \ {c} /\ UNCHANGED <<person, done, hidden, latest, overtaken>>
    BY <2>1 DEF Succeeds, cards
  <2>3. ASSUME NEW s \in hidden, Pends(s, c)
        PROVE  Settled(s)
    <3>1. c.op \in Decisions /\ c.sender = s /\ c.who = person /\ c.box \in Boxes /\ Screener(c.box) \in Keys
      BY <2>3, CallFacts DEF Pends, Decided
    <3>2. Screener(c.box) \in Affected(c.op, c.box)
      BY <3>1 DEF Affected, Screener, Decisions
    <3>3. InAnswers(c, Screener(c.box))
      BY <2>2, <3>1, <3>2 DEF PocketInv, CarriedOut
    <3>4. s \in done[Screener(c.box)] /\ Screener(c.box) \in KeysOf({"screener"})
      BY <3>1, <3>3 DEF InAnswers, Screener, KeysOf
    <3> QED BY <3>4 DEF Settled
  <2> QED BY <1>1, <2>2, <2>3 DEF Cards, Settled, Pends
<1>9. CASE \E c \in net : Fails(c)
  <2>1. PICK c \in net : Fails(c)
    BY <1>9
  <2>2. net' = net \ {c} /\ hidden' = ShownAgain(c) /\ UNCHANGED <<person, done, latest, overtaken>>
    BY <2>1 DEF Fails
  <2>3. hidden' \subseteq hidden /\ \A s \in hidden' : ~Pends(s, c)
    BY <2>2 DEF ShownAgain, Pends
  <2> QED BY <1>1, <2>2, <2>3 DEF Cards, Settled, Pends
<1>10. CASE OfScreens \/ UNCHANGED pocketVars
  BY <1>2, <1>10, ScreensKeep
<1> QED BY <1>3, <1>4, <1>5, <1>6, <1>7, <1>8, <1>9, <1>10 DEF PocketNext, Screens, Changes, OfScreens
-----------------------------------------------------------------------------
(* The theorems.                                                           *)

LEMMA PocketStarts == PocketInit => PocketInv
<1> SUFFICES ASSUME PocketInit PROVE PocketInv
  OBVIOUS
<1>1. PocketWell
  BY PocketConstants DEF PocketInit, PocketWell, PocketTypeOK, Answers, NetWell
<1>2. Cached
  BY DEF PocketInit, Cached, Current
<1>3. CarriedOut /\ Cards
  BY DEF PocketInit, CarriedOut, Cards
<1> QED BY <1>1, <1>2, <1>3 DEF PocketInv

\* Every reachable state is typed, the cache is that of the person who is signed in and has,
\* or knows that it lacks, every answered change, and every hidden card is accounted for.
THEOREM PocketInvariant == PocketSpec => []PocketInv
<1>1. PocketInv /\ [PocketNext]_pocketVars => PocketInv'
  BY StepCached, StepWell, StepCarriedOut, StepCards DEF PocketInv
<1> QED BY <1>1, PocketStarts, PTL DEF PocketSpec

\* The types of Pocket.
THEOREM PocketTyped == PocketSpec => []PocketTypeOK
<1>1. PocketInv => PocketTypeOK
  BY DEF PocketInv, PocketWell
<1> QED BY <1>1, PocketInvariant, PTL

\* What a screen shows was fetched for the person who is signed in, and has every change of
\* theirs that was answered once its fetches are done, whatever was signed out of, answered
\* late or lost in between.
THEOREM OwnMailIsShown == PocketSpec => []OwnMailShown
<1>1. PocketInv => OwnMailShown
  <2> SUFFICES ASSUME PocketInv, NEW k \in shown, cache[k].has
               PROVE  /\ cache[k].who = person
                      /\ cache[k].fetch = "none" /\ ~cache[k].stale /\ ~cache[k].late /\ k[1] # "screener"
                           => answered[k] \subseteq cache[k].data
    BY DEF OwnMailShown
  <2>1. k \in Keys /\ cache[k] # NONE
    BY DEF PocketInv, PocketWell, PocketTypeOK, Cached
  <2> QED BY <2>1, EntryFacts DEF UpToDate
<1> QED BY <1>1, PocketInvariant, PTL

\* A card that is hidden has a decision under way, or one that was carried out in some
\* mailbox, or another decision took the callbacks that would bring it back.
THEOREM HiddenCardsComeBack == PocketSpec => []HiddenComesBack
<1>1. PocketInv => HiddenComesBack
  BY DEF PocketInv, Cards, Settled, Pends, HiddenComesBack
<1> QED BY <1>1, PocketInvariant, PTL
=============================================================================
