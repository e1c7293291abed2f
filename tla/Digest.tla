------------------------------- MODULE Digest -------------------------------
(***************************************************************************)
(* The digest of quarantined senders (digester.ts) for one mailbox. A tick *)
(* reads the mailboxes, then assembles and sends their digests one after   *)
(* the other, awaiting each, and writes the row when the digest is sent;   *)
(* setInterval does not wait for the tick before, so ticks overlap.        *)
(***************************************************************************)
EXTENDS Integers, FiniteSets

CONSTANTS
  Ticks,       \* ticks that may run at once
  Ids,         \* quarantined messages, each from a sender of its own
  None,        \* SQL NULL
  Day, Gap,    \* the length of a day and of the 12 hours between two digests
  MaxSenders,  \* MAX_SENDERS_PER_DIGEST
  Threshold,   \* FAILURE_THRESHOLD
  Hours,       \* bound: the values of digest_hour that the owner picks
  MaxTime,     \* bound: the clock
  MaxCrashes,  \* bound: restarts of the process
  MaxLost      \* bound: digests that go out and are taken for failed

Time == 0 .. MaxTime

ASSUME DigestConstantsOK ==
  /\ IsFiniteSet(Ticks) /\ IsFiniteSet(Ids)
  /\ {Day, Gap, MaxSenders, Threshold} \subseteq Nat \ {0}
  /\ Hours # {} /\ Hours \subseteq 0 .. Day - 1 /\ {MaxTime, MaxCrashes, MaxLost} \subseteq Nat /\ None \notin Nat

VARIABLES
  now,      \* the clock
  mb,       \* the digest columns of the mailboxes row
  quar,     \* the messages in the quarantine
  came,     \* the messages that have arrived
  dtick,    \* ticks
  sent,     \* history: run of the process -> clock of a tick -> digests it had sent
  lost,     \* history: runs and clocks of ticks that took a digest for failed which went out
  listed,   \* history: messages whose sender a digest showed, or had no room for
  putBack,  \* history: messages the owner put back too late for the digest they belong to
  overlap,  \* history: two ticks ran at once
  crashes   \* history: how many restarts there were

vars == <<now, mb, quar, came, dtick, sent, lost, listed, putBack, overlap, crashes>>
-----------------------------------------------------------------------------
(* tick, assembleDigest and sendDigest. last_digest_sent_at is the clock of *)
(* the tick, and stands for the messages received until then: mb.covered.  *)

\* A message arrives.
Quarantined(m) ==
  /\ m \notin came
  /\ came' = came \cup {m}
  /\ quar' = quar \cup {m}
  /\ UNCHANGED <<now, mb, dtick, sent, lost, listed, putBack, overlap, crashes>>

\* The owner moves a message out of the quarantine, or it expires.
Leaves(m) ==
  /\ m \in quar
  /\ quar' = quar \ {m}
  /\ putBack' = putBack \ {m}
  /\ UNCHANGED <<now, mb, came, dtick, sent, lost, listed, overlap, crashes>>

\* A digest that covers the message was assembled while it was elsewhere.
PassedOver(m) ==
  \/ m \in mb.covered
  \/ \E t \in Ticks : dtick[t].pc \in {"mail", "mark"} /\ m \in dtick[t].seen

\* The owner moves a message into the quarantine; it keeps its received_at.
MovedIn(m) ==
  /\ m \in came \ quar
  /\ quar' = quar \cup {m}
  /\ putBack' = putBack \cup IF PassedOver(m) THEN {m} ELSE {}
  /\ UNCHANGED <<now, mb, came, dtick, sent, lost, listed, overlap, crashes>>

Advance ==
  /\ now < MaxTime
  /\ now' = now + 1
  /\ UNCHANGED <<mb, quar, came, dtick, sent, lost, listed, putBack, overlap, crashes>>

NoDigest == [pc |-> "idle", at |-> 0, seen |-> {}, fails |-> 0, content |-> {}]

\* The process stops and starts again: the ticks that ran are gone.
Restart ==
  /\ crashes < MaxCrashes
  /\ crashes' = crashes + 1
  /\ dtick' = [t \in Ticks |-> NoDigest]
  /\ UNCHANGED <<now, mb, quar, came, sent, lost, listed, putBack, overlap>>

\* PATCH /api/mailboxes/:id: digestEnabled and digestHour.
PatchDigest(on, hour) ==
  /\ mb' = [mb EXCEPT !.on = on, !.hour = hour]
  /\ mb' # mb
  /\ UNCHANGED <<now, quar, came, dtick, sent, lost, listed, putBack, overlap, crashes>>

\* todayHourBoundaryMs
Boundary(hour) == Day * (now \div Day) + hour

\* Mutant of DigestDue: without the two guards against a second digest.
DigestDueEveryTick == mb.on /\ now >= Boundary(mb.hour)

DigestDue ==
  /\ mb.on /\ now >= Boundary(mb.hour)
  /\ mb.last # None => /\ mb.last < Boundary(mb.hour)
                       /\ now - mb.last >= Gap

\* The mailboxes are read; the loop comes to this one after the others.
DigestTickStarts(t) ==
  /\ dtick[t].pc = "idle" /\ DigestDue
  /\ dtick' = [dtick EXCEPT ![t] = [NoDigest EXCEPT !.pc = "due", !.at = now, !.seen = came,
                                                    !.fails = mb.fails]]
  /\ overlap' = (overlap \/ \E u \in Ticks : dtick[u].pc # "idle")
  /\ UNCHANGED <<now, mb, quar, came, sent, lost, listed, putBack, crashes>>

\* Mutant of Success: covered up to the moment of the UPDATE.
SuccessNow(t) ==
  mb' = [mb EXCEPT !.last = dtick[t].at, !.covered = came, !.fails = 0]

\* The UPDATE after a digest that was sent, or had nothing to say.
Success(t) ==
  mb' = [mb EXCEPT !.last = dtick[t].at, !.covered = dtick[t].seen, !.fails = 0]

Smaller(i, j) == IF i < j THEN i ELSE j

\* assembleDigest reads the mailbox again; at most MaxSenders are shown.
Fresh == quar \ mb.covered

AssembleNothing(t) ==
  /\ dtick[t].pc = "due" /\ Fresh = {}
  /\ Success(t)
  /\ dtick' = [dtick EXCEPT ![t] = NoDigest]
  /\ UNCHANGED <<now, quar, came, sent, lost, listed, putBack, overlap, crashes>>

Assemble(t, content) ==
  /\ dtick[t].pc = "due" /\ Fresh # {}
  /\ content \subseteq Fresh
  /\ Cardinality(content) = Smaller(MaxSenders, Cardinality(Fresh))
  /\ listed' = listed \cup (Fresh \ content)
  /\ dtick' = [dtick EXCEPT ![t].pc = "mail", ![t].content = content]
  /\ UNCHANGED <<now, mb, quar, came, sent, lost, putBack, overlap, crashes>>

\* sendMessage or ingest is done; the UPDATE comes after another await.
DigestTaken(t) ==
  /\ dtick[t].pc = "mail"
  /\ sent' = [sent EXCEPT ![crashes][dtick[t].at] = @ + 1]
  /\ listed' = listed \cup dtick[t].content
  /\ dtick' = [dtick EXCEPT ![t] = [@ EXCEPT !.pc = "mark", !.content = {}]]
  /\ UNCHANGED <<now, mb, quar, came, lost, putBack, overlap, crashes>>

DigestMarked(t) ==
  /\ dtick[t].pc = "mark"
  /\ Success(t)
  /\ dtick' = [dtick EXCEPT ![t] = NoDigest]
  /\ UNCHANGED <<now, quar, came, sent, lost, listed, putBack, overlap, crashes>>

\* The catch: one failure more than the row had when the tick read it.
Failed(fails) ==
  mb' = [mb EXCEPT !.fails = fails + 1, !.on = @ /\ fails + 1 < Threshold]

DigestFails(t) ==
  /\ dtick[t].pc = "mail"
  /\ mb.fails < Threshold \* bound
  /\ Failed(dtick[t].fails)
  /\ dtick' = [dtick EXCEPT ![t] = NoDigest]
  /\ UNCHANGED <<now, quar, came, sent, lost, listed, putBack, overlap, crashes>>

\* The catch, although the digest went out: the answer of the relay is lost, or what
\* sendMessage or ingest does after it fails.
DigestTakenForFailed(t) ==
  /\ dtick[t].pc = "mail"
  /\ mb.fails < Threshold /\ Cardinality(lost) < MaxLost \* bounds
  /\ lost' = lost \cup {<<crashes, dtick[t].at>>}
  /\ listed' = listed \cup dtick[t].content
  /\ Failed(dtick[t].fails)
  /\ dtick' = [dtick EXCEPT ![t] = NoDigest]
  /\ UNCHANGED <<now, quar, came, sent, putBack, overlap, crashes>>
-----------------------------------------------------------------------------
Init ==
  /\ now = 0
  /\ mb = [on |-> FALSE, hour |-> CHOOSE h \in Hours : TRUE, last |-> None, covered |-> {}, fails |-> 0]
  /\ quar = {} /\ came = {}
  /\ dtick = [t \in Ticks |-> NoDigest]
  /\ sent = [c \in 0 .. MaxCrashes |-> [u \in Time |-> 0]] 
  /\ lost = {} /\ listed = {} /\ putBack = {}
  /\ overlap = FALSE /\ crashes = 0

Next ==
  \/ \E m \in Ids : Quarantined(m) \/ Leaves(m) \/ MovedIn(m)
  \/ Advance \/ Restart
  \/ \E on \in BOOLEAN, hour \in Hours : PatchDigest(on, hour)
  \/ \E t \in Ticks : \/ DigestTickStarts(t) \/ AssembleNothing(t)
                      \/ \E content \in SUBSET Ids : Assemble(t, content)
                      \/ DigestTaken(t) \/ DigestMarked(t)
                      \/ DigestFails(t) \/ DigestTakenForFailed(t)

Spec == Init /\ [][Next]_vars
-----------------------------------------------------------------------------
(* Properties.                                                             *)

DigestType == [pc : {"idle", "due", "mail", "mark"}, at : Time, seen : SUBSET Ids,
               fails : Nat, content : SUBSET Ids]
MbType == [on : BOOLEAN, hour : Hours, last : Time \cup {None},
           covered : SUBSET Ids, fails : Nat]

\* Type invariant: the row and the ticks hold what their columns allow.
TypeOK ==
  /\ now \in Time /\ mb \in MbType /\ dtick \in [Ticks -> DigestType]
  /\ quar \subseteq came /\ came \subseteq Ids
  /\ listed \subseteq came /\ putBack \subseteq quar
  /\ sent \in [0 .. MaxCrashes -> [Time -> Nat]] /\ lost \subseteq (0 .. MaxCrashes) \X Time
  /\ overlap \in BOOLEAN /\ crashes \in 0 .. MaxCrashes

\* Every message in the quarantine that was received before last_digest_sent_at was shown
\* in a digest that went out, or did not fit into one, but for what the owner put back when
\* that digest had been assembled: what arrives, leaves or is put back while a digest is
\* assembled and sent, while other mailboxes are served, or before a digest that fails, is
\* not skipped by the next one (assembleDigest, digester.ts:57).
DigestMissesNothing == quar \cap mb.covered \subseteq listed \cup putBack

\* While ticks do not overlap, a process that knows that a digest is sent sends no other for
\* twelve hours: a second one goes out only when it stopped between the mail and the UPDATE,
\* or took the first one for failed. (Of overlapping ticks the older one may write its clock
\* last.)
DigestOnce ==
  ~overlap => \A c \in 0 .. MaxCrashes, u \in Time :
    /\ sent[c][u] <= 1
    /\ sent[c][u] > 0 =>
         \A v \in Time : (sent[c][v] > 0 \/ <<c, v>> \in lost) /\ u < v => u + Gap <= v
=============================================================================
