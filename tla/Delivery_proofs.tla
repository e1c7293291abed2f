---------------------------- MODULE Delivery_proofs ----------------------------
(***************************************************************************)
(* Proofs about Delivery, for every number of transactions, messages,      *)
(* mailboxes and aliases and every bound.                                  *)
(*                                                                         *)
(* TypeOK is not inductive: an action that serves the current recipient of *)
(* a transaction is typed only because the transaction has a message and   *)
(* its recipient index is inside the envelope, and because what a handler  *)
(* read before its awaits (the mailbox id, the alias row, the address to   *)
(* relay to) is still in the transaction when it resumes. SessionsOK says  *)
(* that, and Inv is both.                                                  *)
(*                                                                         *)
(* The sections after it: no message is lost; copies and the refinement of *)
(* Custody; the limits; what leaves.                                       *)
(***************************************************************************)
EXTENDS Delivery, FiniteSetTheorems, TLAPS

Serving == {"parsing", "relaying", "verifying", "replying"}

\* What the code of a handler relies on when it resumes.
SessionOK(x) ==
  /\ x.pc # "idle" => x.mail \in Mail
  /\ x.pc # "idle" => \A k \in 1 .. Len(x.env) : x.env[k] \in 1 .. Len(x.mail.rcpts)
  /\ x.pc = "rcpt" => x.offered \in Nat \ {0}
  /\ x.pc \in Serving => x.at <= Len(x.env)
  /\ x.pc \in {"parsing", "relaying"} => x.box \in BoxIds
  /\ x.pc = "parsing" /\ x.row # None => x.mail.rcpts[x.env[x.at]].kind = "alias"
  /\ x.pc = "relaying" => x.row \in AliasRow
  /\ x.pc = "verifying" => x.mail.rcpts[x.env[x.at]].kind = "reverse"
  /\ x.pc \in {"relaying", "replying"} => x.to \in Emails

SessionsOK == \A s \in Sessions : SessionOK(session[s])

FateRecord ==
  [stored : Nat, relayed : Nat, refused : BOOLEAN, homes : SUBSET Homes, to : SUBSET Emails]

MtaRecord ==
  [state : {"queued", "open", "accepted", "bounced"}, tries : Nat, bounced : SUBSET Slots]

PastRecord ==
  [off : SUBSET (Homes \cup Aliases), trusted : SUBSET Emails,
   verified : SUBSET Emails, owners : SUBSET (Aliases \X Emails)]

TablesTyped ==
  /\ box \in [BoxIds -> Homes \cup {None}]
  /\ whitelist \in [BoxIds -> SUBSET Emails]
  /\ alias \in [Aliases -> AliasRow \cup {None}]
  /\ target \in [TargetIds -> TargetRow \cup {None}]
  /\ reverse \subseteq Aliases \X Emails
  /\ entitled \in BOOLEAN

FlowTyped ==
  /\ session \in [Sessions -> SessionState] /\ SessionsOK
  /\ mta \in [Mail -> MtaRecord]
  /\ fate \in [Mail -> [Slots -> FateRecord]]
  /\ outbound \in [Kinds -> Nat]

HistoryTyped == past \in PastRecord /\ edits \in Nat

Inv == TablesTyped /\ FlowTyped /\ HistoryTyped

LEMMA InvImpliesTypeOK == Inv => TypeOK
  BY DEF Inv, TablesTyped, FlowTyped, HistoryTyped, TypeOK, FateRecord, MtaRecord, PastRecord
-----------------------------------------------------------------------------
(* What the messages look like.                                            *)

LEMMA MailType ==
  ASSUME NEW m \in Mail
  PROVE  /\ m.rcpts \in Seq(Rcpt) /\ Len(m.rcpts) \in Slots
         /\ m.from \in Emails /\ m.others \in SUBSET Emails
         /\ m.id \in Nat /\ m.dmarcFail \in BOOLEAN
         /\ m.authentic \in BOOLEAN /\ m.looped \in BOOLEAN
  BY MailOK DEF MailRecord

LEMMA RcptType ==
  ASSUME NEW m \in Mail, NEW i \in 1 .. Len(m.rcpts)
  PROVE  /\ m.rcpts[i].kind \in {"home", "alias", "reverse"}
         /\ m.rcpts[i].kind = "home" => m.rcpts[i].addr \in Homes
         /\ m.rcpts[i].kind = "alias" => m.rcpts[i].addr \in Aliases
         /\ m.rcpts[i].kind = "reverse" => /\ m.rcpts[i].addr \in Aliases
                                           /\ m.rcpts[i].contact \in Emails
         /\ i \in Slots
<1>1. m.rcpts \in Seq(Rcpt) /\ Len(m.rcpts) \in Slots
  BY MailType
<1>2. m.rcpts[i] \in Rcpt
  BY <1>1
<1>3. i \in Slots
  BY <1>1, ConstantsOK DEF Slots
<1> QED BY <1>2, <1>3 DEF Rcpt

\* The current recipient of a transaction that has one.
LEMMA CurrentType ==
  ASSUME Inv, NEW s \in Sessions, session[s].pc # "idle",
         session[s].at <= Len(session[s].env)
  PROVE  /\ session[s].mail \in Mail
         /\ Slot(s) \in 1 .. Len(session[s].mail.rcpts) /\ Slot(s) \in Slots
         /\ Current(s).kind \in {"home", "alias", "reverse"}
         /\ Current(s).kind = "home" => Current(s).addr \in Homes
         /\ Current(s).kind = "alias" => Current(s).addr \in Aliases
         /\ Current(s).kind = "reverse" => Current(s).addr \in Aliases /\ Current(s).contact \in Emails
         /\ FateOf(s) \in FateRecord
<1>1. session[s] \in SessionState /\ SessionOK(session[s])
  BY DEF Inv, FlowTyped, SessionsOK
<1>2. session[s].at \in 1 .. Len(session[s].env)
  BY <1>1 DEF SessionState
<1>3. session[s].mail \in Mail /\ Slot(s) \in 1 .. Len(session[s].mail.rcpts)
  BY <1>1, <1>2 DEF SessionOK, Slot
<1>4. FateOf(s) \in FateRecord
  BY <1>3, RcptType DEF FateOf, Inv, FlowTyped
<1> QED BY <1>3, <1>4, RcptType DEF Current
-----------------------------------------------------------------------------
(* The steps that several handlers share.                                  *)

\* One transaction changes, and the new one is as it should be.
LEMMA SessionSet ==
  ASSUME Inv, NEW s \in Sessions, NEW x \in SessionState, SessionOK(x),
         session' = [session EXCEPT ![s] = x]
  PROVE  session' \in [Sessions -> SessionState] /\ SessionsOK'
<1>1. session' \in [Sessions -> SessionState]
  BY DEF Inv, FlowTyped
<1>2. \A t \in Sessions : session'[t] = IF t = s THEN x ELSE session[t]
  BY DEF Inv, FlowTyped
<1>3. ASSUME NEW t \in Sessions PROVE SessionOK(session[t])
  BY DEF Inv, FlowTyped, SessionsOK
<1>4. ASSUME NEW t \in Sessions PROVE SessionOK(session'[t])
  BY <1>2, <1>3
<1> QED BY <1>1, <1>4 DEF SessionsOK

LEMMA IdleType == Idle \in SessionState /\ SessionOK(Idle)
<1>1. 1 .. Len(<<>>) = {} /\ <<>> \in Seq(Slots)
  OBVIOUS
<1> QED BY <1>1 DEF Idle, SessionState, SessionOK, Serving

LEMMA AdvanceType ==
  ASSUME Inv, NEW s \in Sessions, session[s].pc # "idle"
  PROVE  Advance(s) \in SessionState /\ SessionOK(Advance(s))
<1>1. session[s] \in SessionState /\ SessionOK(session[s])
  BY DEF Inv, FlowTyped, SessionsOK
<1>2. session[s].at + 1 \in Nat \ {0}
  BY <1>1 DEF SessionState
<1>3. Advance(s) \in SessionState
  BY <1>1, <1>2 DEF Advance, SessionState
<1>4. /\ Advance(s).pc = "next"
      /\ Advance(s).mail = session[s].mail /\ Advance(s).env = session[s].env
  BY <1>1 DEF Advance, SessionState
<1> QED BY <1>1, <1>3, <1>4 DEF SessionOK, Serving

LEMMA DeferType ==
  ASSUME Inv, NEW s \in Sessions, session[s].pc # "idle", Defer(s)
  PROVE  /\ session' \in [Sessions -> SessionState] /\ SessionsOK'
         /\ mta' \in [Mail -> MtaRecord]
<1>1. session' \in [Sessions -> SessionState] /\ SessionsOK'
  BY SessionSet, IdleType DEF Defer
<1>2. session[s].mail \in Mail
  BY DEF Inv, FlowTyped, SessionsOK, SessionOK
<1>3. mta' \in [Mail -> MtaRecord]
  BY <1>2 DEF Defer, Inv, FlowTyped, MtaRecord
<1> QED BY <1>1, <1>3

LEMMA SettleType ==
  ASSUME Inv, NEW s \in Sessions, session[s].pc # "idle",
         session[s].at <= Len(session[s].env), NEW f \in FateRecord, Settle(s, f)
  PROVE  /\ session' \in [Sessions -> SessionState] /\ SessionsOK'
         /\ mta' \in [Mail -> MtaRecord]
         /\ fate' \in [Mail -> [Slots -> FateRecord]]
<1>1. session' \in [Sessions -> SessionState] /\ SessionsOK'
  BY SessionSet, AdvanceType DEF Settle
<1>2. session[s].mail \in Mail /\ Slot(s) \in Slots
  BY CurrentType
<1>3. fate' \in [Mail -> [Slots -> FateRecord]]
  BY <1>2 DEF Settle, Inv, FlowTyped
<1> QED BY <1>1, <1>3 DEF Settle, Inv, FlowTyped

LEMMA RefuseType ==
  ASSUME Inv, NEW s \in Sessions, session[s].pc # "idle",
         session[s].at <= Len(session[s].env), Refuse(s)
  PROVE  /\ session' \in [Sessions -> SessionState] /\ SessionsOK'
         /\ mta' \in [Mail -> MtaRecord]
         /\ fate' \in [Mail -> [Slots -> FateRecord]]
<1>1. FateOf(s) \in FateRecord
  BY CurrentType
<1>2. [FateOf(s) EXCEPT !.refused = TRUE] \in FateRecord
  BY <1>1 DEF FateRecord
<1> QED BY <1>2, SettleType DEF Refuse

LEMMA StoreType ==
  ASSUME Inv, NEW s \in Sessions, session[s].pc \in {"parsing", "relaying"}, Store(s)
  PROVE  /\ session' \in [Sessions -> SessionState] /\ SessionsOK'
         /\ mta' \in [Mail -> MtaRecord]
         /\ fate' \in [Mail -> [Slots -> FateRecord]]
<1>1. SessionOK(session[s])
  BY DEF Inv, FlowTyped, SessionsOK
<1>2. session[s].pc # "idle" /\ session[s].at <= Len(session[s].env) /\ session[s].box \in BoxIds
  BY <1>1 DEF SessionOK, Serving
<1>3. CASE box[session[s].box] # None /\ Settle(s,
             [FateOf(s) EXCEPT !.stored = @ + 1,
                               !.homes = @ \cup {box[session[s].box]}])
  <2>1. box[session[s].box] \in Homes
    BY <1>2, <1>3 DEF Inv, TablesTyped
  <2>2. FateOf(s) \in FateRecord
    BY <1>2, CurrentType
  <2>3. /\ FateOf(s).stored + 1 \in Nat
        /\ FateOf(s).homes \cup {box[session[s].box]} \in SUBSET Homes
    BY <2>1, <2>2 DEF FateRecord
  <2>4. [FateOf(s) EXCEPT !.stored = @ + 1, !.homes = @ \cup {box[session[s].box]}] \in FateRecord
    BY <2>2, <2>3 DEF FateRecord
  <2> QED BY <1>2, <1>3, <2>4, SettleType
<1>4. CASE Defer(s) /\ UNCHANGED fate
  BY <1>2, <1>4, DeferType DEF Inv, FlowTyped
<1> QED BY <1>3, <1>4 DEF Store
-----------------------------------------------------------------------------
(* Every step keeps the types.                                             *)

LEMMA DialogueFlow ==
  ASSUME Inv, NEW s \in Sessions, Dialogue(s)
  PROVE  FlowTyped'
<1>0. session[s] \in SessionState /\ SessionOK(session[s])
  BY DEF Inv, FlowTyped, SessionsOK
<1>1. ASSUME NEW m \in Mail, Offer(s, m) PROVE FlowTyped'
  <2> DEFINE x == [Idle EXCEPT !.pc = "rcpt", !.mail = m, !.offered = 1]
  <2>1. x.pc = "rcpt" /\ x.mail = m /\ x.env = <<>> /\ x.offered = 1
    BY DEF Idle
  <2>2. x \in SessionState
    BY IdleType DEF SessionState
  <2>3. SessionOK(x)
    <3>1. 1 .. Len(x.env) = {}
      BY <2>1
    <3> QED BY <2>1, <3>1 DEF SessionOK, Serving
  <2>4. session' \in [Sessions -> SessionState] /\ SessionsOK'
    BY <1>1, <2>2, <2>3, SessionSet DEF Offer
  <2>5. mta' \in [Mail -> MtaRecord]
    BY <1>1 DEF Offer, Inv, FlowTyped, MtaRecord
  <2> QED BY <1>1, <2>4, <2>5 DEF Offer, FlowTyped, Inv
<1>2. ASSUME RcptTo(s) PROVE FlowTyped'
  <2> DEFINE m == session[s].mail
             i == session[s].offered
  <2>1. m \in Mail /\ session[s].pc = "rcpt" /\ i \in 1 .. Len(m.rcpts) /\ i \in Slots
    <3>1. m \in Mail /\ session[s].pc = "rcpt" /\ i \in Nat \ {0} /\ i <= Len(m.rcpts)
      BY <1>0, <1>2 DEF RcptTo, SessionOK
    <3>2. Len(m.rcpts) \in Nat
      BY <3>1, MailType DEF Slots
    <3> QED BY <3>1, <3>2, RcptType
  <2>2. PICK y \in SessionState :
          SessionOK(y) /\ session' = [session EXCEPT ![s] = y]
    <3>1. CASE session' = [session EXCEPT ![s].env = Append(@, i), ![s].offered = i + 1]
      <4> DEFINE y == [session[s] EXCEPT !.env = Append(@, i), !.offered = i + 1]
      <4>2. y.env = Append(session[s].env, i) /\ y.pc = "rcpt" /\ y.mail = m
        BY <1>0, <2>1 DEF SessionState
      <4>1. Append(session[s].env, i) \in Seq(Slots) /\ i + 1 \in Nat
        BY <1>0, <2>1 DEF SessionState, Slots
      <4>3. y \in SessionState
        BY <1>0, <4>1 DEF SessionState
      <4>4. \A k \in 1 .. Len(y.env) : y.env[k] \in 1 .. Len(m.rcpts)
        <5>1. session[s].env \in Seq(Slots)
          BY <1>0 DEF SessionState
        <5>2. \A k \in 1 .. Len(session[s].env) : session[s].env[k] \in 1 .. Len(m.rcpts)
          BY <1>0, <2>1 DEF SessionOK
        <5>3. Len(y.env) = Len(session[s].env) + 1
          BY <2>1, <4>2, <5>1
        <5>4. ASSUME NEW k \in 1 .. Len(y.env)
              PROVE  y.env[k] = IF k = Len(session[s].env) + 1 THEN i ELSE session[s].env[k]
          BY <2>1, <4>2, <5>1, <5>3
        <5> QED BY <2>1, <5>1, <5>2, <5>3, <5>4
      <4>5. SessionOK(y)
        BY <2>1, <4>2, <4>4 DEF SessionOK, Serving
      <4> QED BY <3>1, <4>3, <4>5 DEF Inv, FlowTyped
    <3>2. CASE session' = [session EXCEPT ![s].offered = i + 1]
      <4> DEFINE y == [session[s] EXCEPT !.offered = i + 1]
      <4>1. y \in SessionState
        BY <1>0, <2>1 DEF SessionState
      <4>2. y.pc = "rcpt" /\ y.mail = m /\ y.env = session[s].env
        BY <1>0, <2>1 DEF SessionState
      <4>3. SessionOK(y)
        BY <1>0, <2>1, <4>2 DEF SessionOK, Serving
      <4> QED BY <3>2, <4>1, <4>3 DEF Inv, FlowTyped
    <3> QED BY <1>2, <3>1, <3>2 DEF RcptTo
  <2>3. session' \in [Sessions -> SessionState] /\ SessionsOK'
    BY <2>2, SessionSet
  <2>4. mta' \in [Mail -> MtaRecord]
    <3>1. CASE mta' = [mta EXCEPT ![m].bounced = @ \cup {i}]
      <4>1. mta[m] \in MtaRecord
        BY <2>1 DEF Inv, FlowTyped
      <4>2. mta[m].bounced \cup {i} \in SUBSET Slots
        BY <2>1, <4>1 DEF MtaRecord
      <4>3. [mta[m] EXCEPT !.bounced = @ \cup {i}] \in MtaRecord
        BY <4>1, <4>2 DEF MtaRecord
      <4> QED BY <2>1, <3>1, <4>3 DEF Inv, FlowTyped
    <3>2. CASE UNCHANGED mta
      BY <3>2 DEF Inv, FlowTyped
    <3> QED BY <1>2, <3>1, <3>2 DEF RcptTo
  <2> QED BY <1>2, <2>3, <2>4 DEF RcptTo, FlowTyped, Inv
<1>3. ASSUME Abandon(s) PROVE FlowTyped'
  <2>1. session[s].mail \in Mail
    BY <1>0, <1>3 DEF Abandon, RcptsDone, SessionOK
  <2>2. session' \in [Sessions -> SessionState] /\ SessionsOK'
    BY <1>3, IdleType, SessionSet DEF Abandon
  <2>3. mta' \in [Mail -> MtaRecord]
    BY <1>3, <2>1 DEF Abandon, Inv, FlowTyped, MtaRecord
  <2> QED BY <1>3, <2>2, <2>3 DEF Abandon, FlowTyped, Inv
<1>4. ASSUME Data(s) PROVE FlowTyped'
  <2>1. session[s].pc = "rcpt"
    BY <1>4 DEF Data, RcptsDone
  <2>2. CASE Defer(s)
    BY <1>4, <2>1, <2>2, DeferType DEF Data, FlowTyped, Inv
  <2>3. CASE session' = [session EXCEPT ![s].pc = "next"] /\ UNCHANGED mta
    <3> DEFINE y == [session[s] EXCEPT !.pc = "next"]
    <3>1. y.pc = "next" /\ y.mail = session[s].mail /\ y.env = session[s].env
      BY <1>0 DEF SessionState
    <3>2. y \in SessionState /\ SessionOK(y)
      BY <1>0, <2>1, <3>1 DEF SessionState, SessionOK, Serving
    <3>3. session' = [session EXCEPT ![s] = y]
      BY <2>3 DEF Inv, FlowTyped
    <3>4. session' \in [Sessions -> SessionState] /\ SessionsOK'
      BY <3>2, <3>3, SessionSet
    <3> QED BY <1>4, <2>3, <3>4 DEF Data, FlowTyped, Inv
  <2> QED BY <1>4, <2>2, <2>3 DEF Data
<1> QED BY <1>1, <1>2, <1>3, <1>4 DEF Dialogue
-----------------------------------------------------------------------------
(* The handlers. Each lemma names what the transaction has when it is there. *)

\* A transaction that goes on with the same message, envelope and recipient.
LEMMA SameRcpt ==
  ASSUME Inv, NEW s \in Sessions, NEW y \in SessionState, session[s].pc # "idle",
         y.pc \in Serving, y.mail = session[s].mail, y.env = session[s].env,
         y.at = session[s].at, session[s].at <= Len(session[s].env),
         y.pc \in {"parsing", "relaying"} => y.box \in BoxIds,
         y.pc = "parsing" /\ y.row # None => Current(s).kind = "alias",
         y.pc = "relaying" => y.row \in AliasRow,
         y.pc = "verifying" => Current(s).kind = "reverse",
         y.pc \in {"relaying", "replying"} => y.to \in Emails,
         session' = [session EXCEPT ![s] = y]
  PROVE  session' \in [Sessions -> SessionState] /\ SessionsOK'
<1>1. SessionOK(session[s])
  BY DEF Inv, FlowTyped, SessionsOK
<1>2. SessionOK(y)
  BY <1>1 DEF SessionOK, Serving, Current, Slot
<1> QED BY <1>2, SessionSet

LEMMA ResolveFlow ==
  ASSUME Inv, NEW s \in Sessions, Resolve(s)
  PROVE  FlowTyped'
<1>1. session[s] \in SessionState /\ session[s].pc = "next" /\ session[s].at <= Len(session[s].env)
  BY DEF Inv, FlowTyped, Resolve, HasRcpt
<1>2. PICK b \in BoxIds, row \in AliasRow \cup {None} :
        /\ row # None => Current(s).kind = "alias"
        /\ session' = [session EXCEPT ![s].pc = "parsing", ![s].box = b, ![s].row = row]
  <2>1. CASE Current(s).kind = "home"
    BY <2>1 DEF Resolve
  <2>2. CASE Current(s).kind = "alias" /\ Live(Current(s).addr)
    <3>1. Current(s).addr \in Aliases
      BY <1>1, <2>2, CurrentType
    <3>2. alias[Current(s).addr] \in AliasRow
      BY <2>2, <3>1 DEF Live, Inv, TablesTyped
    <3>3. alias[Current(s).addr].box \in BoxIds
      BY <3>2 DEF AliasRow
    <3> QED BY <2>2, <3>2, <3>3 DEF Resolve
  <2> QED BY <2>1, <2>2 DEF Resolve
<1> DEFINE y == [session[s] EXCEPT !.pc = "parsing", !.box = b, !.row = row]
<1>3. y \in SessionState
  BY <1>1 DEF SessionState
<1>4. /\ y.pc = "parsing" /\ y.mail = session[s].mail /\ y.env = session[s].env
      /\ y.at = session[s].at /\ y.box = b /\ y.row = row
  BY <1>1 DEF SessionState
<1>5. session' = [session EXCEPT ![s] = y]
  BY <1>2 DEF Inv, FlowTyped
<1>6. session' \in [Sessions -> SessionState] /\ SessionsOK'
  <2> HIDE DEF y
  <2>1. /\ session[s].pc # "idle" /\ y.pc \in Serving
        /\ y.pc \in {"parsing", "relaying"} => y.box \in BoxIds
        /\ y.pc = "parsing" /\ y.row # None => Current(s).kind = "alias"
        /\ y.pc # "relaying" /\ y.pc # "verifying" /\ y.pc # "replying"
    BY <1>1, <1>2, <1>4 DEF Serving
  <2> QED BY <1>1, <1>3, <1>4, <1>5, <2>1, SameRcpt
<1> QED BY <1>6 DEF Resolve, FlowTyped, Inv

LEMMA ForwardFlow ==
  ASSUME Inv, NEW s \in Sessions, Forward(s)
  PROVE  FlowTyped' /\ reverse' \subseteq Aliases \X Emails
<1> DEFINE to == target[session[s].row.target].email
           y == [session[s] EXCEPT !.pc = "relaying", !.to = to]
<1>1. /\ session[s] \in SessionState /\ SessionOK(session[s])
      /\ session[s].pc = "parsing" /\ CanForward(s)
  BY DEF Inv, FlowTyped, SessionsOK, Forward
<1>2. /\ session[s].at <= Len(session[s].env) /\ session[s].box \in BoxIds
      /\ session[s].row \in AliasRow /\ session[s].mail \in Mail
      /\ Current(s).kind = "alias"
  BY <1>1 DEF SessionOK, Serving, SessionState, CanForward, WantsForward, Current, Slot
<1>3. to \in Emails
  <2>1. session[s].row.target \in TargetIds /\ target[session[s].row.target] \in TargetRow
    BY <1>1, <1>2 DEF CanForward, Verified, AliasRow, Inv, TablesTyped
  <2> QED BY <2>1 DEF TargetRow
<1>4. y \in SessionState
  BY <1>1, <1>3 DEF SessionState
<1>5. /\ y.pc = "relaying" /\ y.mail = session[s].mail /\ y.env = session[s].env
      /\ y.at = session[s].at /\ y.box = session[s].box /\ y.row = session[s].row /\ y.to = to
  BY <1>1 DEF SessionState
<1>6. session' = [session EXCEPT ![s] = y]
  BY DEF Forward, Inv, FlowTyped
<1>7. session' \in [Sessions -> SessionState] /\ SessionsOK'
  BY <1>1, <1>2, <1>3, <1>4, <1>5, <1>6, SameRcpt DEF Serving
<1>8. reverse' \subseteq Aliases \X Emails
  <2>1. Current(s).addr \in Aliases
    BY <1>1, <1>2, CurrentType
  <2>2. {session[s].mail.from} \cup (session[s].mail.others \ {to}) \subseteq Emails
    BY <1>2, MailType
  <2> QED BY <2>1, <2>2 DEF Forward, Minted, Inv, TablesTyped
<1> QED BY <1>7, <1>8 DEF Forward, FlowTyped, Inv

LEMMA StoreParsedFlow ==
  ASSUME Inv, NEW s \in Sessions, StoreParsed(s)
  PROVE  FlowTyped'
  BY StoreType DEF StoreParsed, FlowTyped, Inv

LEMMA RelayTakesFlow ==
  ASSUME Inv, NEW s \in Sessions, RelayTakes(s)
  PROVE  FlowTyped'
<1> DEFINE y == [session[s] EXCEPT !.out = TRUE]
           m == session[s].mail
           f == [FateOf(s) EXCEPT !.relayed = @ + 1, !.to = @ \cup {session[s].to}]
<1>1. /\ session[s] \in SessionState /\ SessionOK(session[s])
      /\ session[s].pc \in {"relaying", "replying"}
  BY DEF Inv, FlowTyped, SessionsOK, RelayTakes
<1>2. /\ session[s].at <= Len(session[s].env) /\ session[s].to \in Emails /\ m \in Mail
      /\ session[s].pc = "relaying" => session[s].box \in BoxIds /\ session[s].row \in AliasRow
  BY <1>1 DEF SessionOK, Serving
<1>3. y \in SessionState
  BY <1>1 DEF SessionState
<1>4. /\ y.pc = session[s].pc /\ y.mail = m /\ y.env = session[s].env
      /\ y.at = session[s].at /\ y.box = session[s].box /\ y.row = session[s].row
      /\ y.to = session[s].to
  BY <1>1 DEF SessionState
<1>5. session' = [session EXCEPT ![s] = y]
  BY DEF RelayTakes, Inv, FlowTyped
<1>6. session' \in [Sessions -> SessionState] /\ SessionsOK'
  BY <1>1, <1>2, <1>3, <1>4, <1>5, SameRcpt DEF Serving
<1>7. f \in FateRecord
  <2>1. FateOf(s) \in FateRecord
    BY <1>1, <1>2, CurrentType
  <2>2. FateOf(s).relayed + 1 \in Nat /\ FateOf(s).to \cup {session[s].to} \in SUBSET Emails
    BY <1>2, <2>1 DEF FateRecord
  <2> QED BY <2>1, <2>2 DEF FateRecord
<1>8. fate' = [fate EXCEPT ![m] = [fate[m] EXCEPT ![Slot(s)] = f]]
  BY <1>1, <1>2, CurrentType DEF RelayTakes, Inv, FlowTyped, FateOf
<1>9. fate' \in [Mail -> [Slots -> FateRecord]]
  BY <1>1, <1>2, <1>7, <1>8, CurrentType DEF Inv, FlowTyped
<1> QED BY <1>6, <1>9 DEF RelayTakes, FlowTyped, Inv

LEMMA ForwardedFlow ==
  ASSUME Inv, NEW s \in Sessions, Forwarded(s)
  PROVE  FlowTyped'
<1>1. SessionOK(session[s]) /\ session[s].pc = "relaying"
  BY DEF Inv, FlowTyped, SessionsOK, Forwarded
<1>2. session[s].at <= Len(session[s].env)
  BY <1>1 DEF SessionOK, Serving
<1>3. outbound' \in [Kinds -> Nat]
  BY DEF Forwarded, Inv, FlowTyped, Kinds
<1>4. CASE Settle(s, FateOf(s))
  <2>1. FateOf(s) \in FateRecord
    BY <1>1, <1>2, CurrentType
  <2> QED BY <1>1, <1>2, <1>3, <1>4, <2>1, SettleType DEF FlowTyped
<1>5. CASE Store(s)
  BY <1>1, <1>3, <1>5, StoreType DEF FlowTyped
<1> QED BY <1>4, <1>5 DEF Forwarded

LEMMA ForwardFailsFlow ==
  ASSUME Inv, NEW s \in Sessions, ForwardFails(s)
  PROVE  FlowTyped'
  BY StoreType DEF ForwardFails, FlowTyped, Inv

\* The recipients that are dropped, and the end of the loop.
LEMMA UnknownFlow ==
  ASSUME Inv, NEW s \in Sessions, Unknown(s)
  PROVE  FlowTyped'
  BY RefuseType DEF Unknown, HasRcpt, FlowTyped, Inv

LEMMA ReplyRefusedFlow ==
  ASSUME Inv, NEW s \in Sessions, ReplyRefused(s)
  PROVE  FlowTyped'
  BY RefuseType DEF ReplyRefused, HasRcpt, FlowTyped, Inv

LEMMA AcceptFlow ==
  ASSUME Inv, NEW s \in Sessions, Accept(s)
  PROVE  FlowTyped'
<1>1. session[s].mail \in Mail
  BY DEF Accept, Inv, FlowTyped, SessionsOK, SessionOK
<1>2. session' \in [Sessions -> SessionState] /\ SessionsOK'
  BY IdleType, SessionSet DEF Accept
<1>3. mta' \in [Mail -> MtaRecord]
  BY <1>1 DEF Accept, Inv, FlowTyped, MtaRecord
<1> QED BY <1>2, <1>3 DEF Accept, FlowTyped, Inv

\* The address a reply must come from.
LEMMA OwnerType ==
  ASSUME Inv, NEW a \in Aliases
  PROVE  OwnerOf(a) \in Emails \cup {None}
<1>1. CASE alias[a] # None /\ Verified(alias[a].target)
  <2>1. alias[a] \in AliasRow
    BY <1>1 DEF Inv, TablesTyped
  <2>2. alias[a].target \in TargetIds /\ target[alias[a].target] \in TargetRow
    BY <1>1, <2>1 DEF Verified, AliasRow, Inv, TablesTyped
  <2> QED BY <1>1, <2>2 DEF OwnerOf, TargetRow
<1> QED BY <1>1 DEF OwnerOf

LEMMA ReplyStartFlow ==
  ASSUME Inv, NEW s \in Sessions, ReplyStart(s)
  PROVE  FlowTyped'
<1> DEFINE to == OwnerOf(Current(s).addr)
           y == [session[s] EXCEPT !.pc = "verifying", !.to = to]
<1>1. /\ session[s] \in SessionState /\ session[s].pc = "next"
      /\ session[s].at <= Len(session[s].env) /\ Current(s).kind = "reverse"
  BY DEF Inv, FlowTyped, ReplyStart, HasRcpt
<1>2. to \in Emails \cup {None}
  BY <1>1, CurrentType, OwnerType
<1>3. y \in SessionState
  BY <1>1, <1>2 DEF SessionState
<1>4. /\ y.pc = "verifying" /\ y.mail = session[s].mail /\ y.env = session[s].env
      /\ y.at = session[s].at
  BY <1>1 DEF SessionState
<1>5. session' = [session EXCEPT ![s] = y]
  BY DEF ReplyStart, Inv, FlowTyped
<1>6. session' \in [Sessions -> SessionState] /\ SessionsOK'
  BY <1>1, <1>3, <1>4, <1>5, SameRcpt DEF Serving
<1> QED BY <1>6 DEF ReplyStart, FlowTyped, Inv

LEMMA ReplyCheckedFlow ==
  ASSUME Inv, NEW s \in Sessions, ReplyChecked(s)
  PROVE  FlowTyped'
<1>1. /\ session[s] \in SessionState /\ SessionOK(session[s])
      /\ session[s].pc = "verifying"
  BY DEF Inv, FlowTyped, SessionsOK, ReplyChecked
<1>2. session[s].at <= Len(session[s].env) /\ Current(s).kind = "reverse"
  BY <1>1 DEF SessionOK, Serving, Current, Slot
<1>3. CASE Refuse(s)
  BY <1>1, <1>2, <1>3, RefuseType DEF ReplyChecked, FlowTyped, Inv
<1>4. CASE session' = [session EXCEPT ![s].pc = "replying", ![s].to = Current(s).contact]
           /\ UNCHANGED <<mta, fate>>
  <2> DEFINE y == [session[s] EXCEPT !.pc = "replying", !.to = Current(s).contact]
  <2>1. Current(s).contact \in Emails
    BY <1>1, <1>2, CurrentType
  <2>2. y \in SessionState
    BY <1>1, <2>1 DEF SessionState
  <2>3. /\ y.pc = "replying" /\ y.mail = session[s].mail /\ y.env = session[s].env
        /\ y.at = session[s].at /\ y.to = Current(s).contact
    BY <1>1 DEF SessionState
  <2>4. session' = [session EXCEPT ![s] = y]
    BY <1>4 DEF Inv, FlowTyped
  <2>5. session' \in [Sessions -> SessionState] /\ SessionsOK'
    BY <1>1, <1>2, <2>1, <2>2, <2>3, <2>4, SameRcpt DEF Serving
  <2> QED BY <1>4, <2>5 DEF ReplyChecked, FlowTyped, Inv
<1> QED BY <1>3, <1>4 DEF ReplyChecked

LEMMA RepliedFlow ==
  ASSUME Inv, NEW s \in Sessions, Replied(s)
  PROVE  FlowTyped'
<1>1. SessionOK(session[s]) /\ session[s].pc = "replying"
  BY DEF Inv, FlowTyped, SessionsOK, Replied
<1>2. session[s].at <= Len(session[s].env)
  BY <1>1 DEF SessionOK, Serving
<1>3. outbound' \in [Kinds -> Nat]
  BY DEF Replied, Inv, FlowTyped, Kinds
<1>4. FateOf(s) \in FateRecord
  BY <1>1, <1>2, CurrentType
<1> QED BY <1>1, <1>2, <1>3, <1>4, SettleType DEF Replied, FlowTyped

LEMMA ReplyFailsFlow ==
  ASSUME Inv, NEW s \in Sessions, ReplyFails(s)
  PROVE  FlowTyped'
  BY DeferType DEF ReplyFails, FlowTyped, Inv

LEMMA HandleTypes ==
  ASSUME Inv, NEW s \in Sessions, Handle(s)
  PROVE  Inv'
<1>1. FlowTyped'
  BY AcceptFlow, UnknownFlow, ResolveFlow, ForwardFlow, StoreParsedFlow, RelayTakesFlow,
     ForwardedFlow, ForwardFailsFlow, ReplyRefusedFlow, ReplyStartFlow, ReplyCheckedFlow,
     RepliedFlow, ReplyFailsFlow DEF Handle
<1>2. CASE Forward(s)
  BY <1>1, <1>2, ForwardFlow DEF Forward, Inv, TablesTyped, HistoryTyped, tables
<1>3. CASE ~Forward(s)
  <2>1. UNCHANGED <<tables, reverse, past, edits>>
    BY <1>3 DEF Handle, Accept, Unknown, Resolve, StoreParsed, RelayTakes, Forwarded,
       ForwardFails, ReplyRefused, ReplyStart, ReplyChecked, Replied, ReplyFails
  <2> QED BY <1>1, <2>1 DEF Inv, TablesTyped, HistoryTyped, tables
<1> QED BY <1>2, <1>3

LEMMA DialogueTypes ==
  ASSUME Inv, NEW s \in Sessions, Dialogue(s)
  PROVE  Inv'
<1>1. UNCHANGED <<tables, reverse, past, edits>>
  BY DEF Dialogue, Offer, RcptTo, Abandon, Data
<1> QED BY <1>1, DialogueFlow DEF Inv, TablesTyped, HistoryTyped, tables

LEMMA CrashTypes ==
  ASSUME Inv, Crash
  PROVE  Inv'
<1>1. session' \in [Sessions -> SessionState] /\ SessionsOK'
  BY IdleType DEF Crash, SessionsOK
<1>2. mta' \in [Mail -> MtaRecord]
  <2>1. ASSUME NEW m \in Mail
        PROVE  [mta[m] EXCEPT !.state = "queued"] \in MtaRecord /\ mta[m] \in MtaRecord
    BY DEF Inv, FlowTyped, MtaRecord
  <2> QED BY <2>1 DEF Crash
<1> QED BY <1>1, <1>2 DEF Crash, Inv, FlowTyped, TablesTyped, HistoryTyped, tables
-----------------------------------------------------------------------------
(* The owner's calls and the clock.                                        *)

LEMMA RememberedType ==
  ASSUME NEW p \in PastRecord, NEW b, NEW a,
         NEW w \in [BoxIds -> SUBSET Emails],
         NEW t \in [TargetIds -> TargetRow \cup {None}],
         a \in [Aliases -> AliasRow \cup {None}]
  PROVE  Remembered(p, b, w, a, t) \in PastRecord
<1> DEFINE off == p.off
                    \cup {h \in Homes : \A i \in BoxIds : b[i] # h}
                    \cup {x \in Aliases : a[x] = None \/ a[x].abused \/ a[x].expired}
           trusted == p.trusted \cup UNION {w[i] : i \in BoxIds}
           verified == p.verified
                    \cup {t[i].email : i \in {j \in TargetIds : t[j] # None /\ t[j].verified}}
           reached == {y \in Aliases : /\ a[y] # None /\ a[y].target # None
                                       /\ t[a[y].target] # None
                                       /\ t[a[y].target].verified}
           owners == p.owners \cup {<<x, t[a[x].target].email>> : x \in reached}
<1>1. off \in SUBSET (Homes \cup Aliases) /\ trusted \in SUBSET Emails
  BY DEF PastRecord
<1>2. verified \in SUBSET Emails
  BY DEF PastRecord, TargetRow
<1>3. owners \in SUBSET (Aliases \X Emails)
  <2>1. ASSUME NEW x \in reached PROVE t[a[x].target].email \in Emails
    <3>1. a[x] \in AliasRow /\ a[x].target \in TargetIds
      BY DEF AliasRow
    <3>2. t[a[x].target] \in TargetRow
      BY <3>1
    <3> QED BY <3>2 DEF TargetRow
  <2> QED BY <2>1 DEF PastRecord
<1>4. Remembered(p, b, w, a, t) =
        [off |-> off, trusted |-> trusted, verified |-> verified, owners |-> owners]
  BY DEF Remembered
<1> HIDE DEF off, trusted, verified, owners
<1> QED BY <1>1, <1>2, <1>3, <1>4 DEF PastRecord

\* Whatever an owner's call does to the tables, the rest follows.
LEMMA EditTypes ==
  ASSUME Inv, Edit, TablesTyped'
  PROVE  Inv'
<1>1. past' \in PastRecord
  BY RememberedType DEF Edit, Inv, HistoryTyped, TablesTyped
<1>2. FlowTyped'
  BY DEF Edit, Inv, FlowTyped, SessionsOK
<1> QED BY <1>1, <1>2 DEF Edit, Inv, HistoryTyped

LEMMA SetAliasTables ==
  ASSUME Inv, NEW a \in Aliases, NEW row \in AliasRow, SetAlias(a, row)
  PROVE  TablesTyped'
  BY DEF SetAlias, Inv, TablesTyped

LEMMA OwnerTypes ==
  ASSUME Inv, Owner
  PROVE  Inv'
<1>1. ASSUME NEW a \in Aliases, FlagAlias(a) PROVE Inv'
  <2>1. alias[a] \in AliasRow
    BY <1>1 DEF FlagAlias, Inv, TablesTyped
  <2>2. [alias[a] EXCEPT !.abused = ~@] \in AliasRow
    BY <2>1 DEF AliasRow
  <2> QED BY <1>1, <2>2, SetAliasTables, EditTypes DEF FlagAlias
<1>2. ASSUME NEW a \in Aliases, ExpireAlias(a) PROVE Inv'
  <2>1. alias[a] \in AliasRow
    BY <1>2 DEF ExpireAlias, Inv, TablesTyped
  <2>2. [alias[a] EXCEPT !.expired = TRUE] \in AliasRow
    BY <2>1 DEF AliasRow
  <2> QED BY <1>2, <2>2, SetAliasTables, EditTypes DEF ExpireAlias
<1>3. ASSUME NEW a \in Aliases, NEW md \in Modes, NEW t \in TargetIds \cup {None},
             PatchAlias(a, md, t)
      PROVE  Inv'
  <2>1. alias[a] \in AliasRow
    BY <1>3 DEF PatchAlias, Inv, TablesTyped
  <2>2. [alias[a] EXCEPT !.mode = md, !.target = t] \in AliasRow
    BY <2>1 DEF AliasRow
  <2> QED BY <1>3, <2>2, SetAliasTables, EditTypes DEF PatchAlias
<1>4. ASSUME NEW a \in Aliases, DeleteAlias(a) PROVE Inv'
  BY <1>4, EditTypes DEF DeleteAlias, Inv, TablesTyped
<1>5. ASSUME NEW t \in TargetIds, VerifyTarget(t) PROVE Inv'
  <2>1. target[t] \in TargetRow
    BY <1>5 DEF VerifyTarget, Inv, TablesTyped
  <2>2. [target[t] EXCEPT !.verified = TRUE] \in TargetRow
    BY <2>1 DEF TargetRow
  <2>3. target' \in [TargetIds -> TargetRow \cup {None}]
    BY <1>5, <2>2 DEF VerifyTarget, Inv, TablesTyped
  <2> QED BY <1>5, <2>3, EditTypes DEF VerifyTarget, Inv, TablesTyped
<1>6. ASSUME NEW t \in TargetIds, DeleteTarget(t) PROVE Inv'
  <2>1. ASSUME NEW a \in Aliases, alias[a] # None
        PROVE  [alias[a] EXCEPT !.target = None] \in AliasRow
    BY <2>1 DEF AliasRow, Inv, TablesTyped
  <2>2. alias' \in [Aliases -> AliasRow \cup {None}]
    BY <1>6, <2>1 DEF DeleteTarget, Inv, TablesTyped
  <2> QED BY <1>6, <2>2, EditTypes DEF DeleteTarget, Inv, TablesTyped
<1>7. ASSUME NEW t \in TargetIds, NEW e \in Emails, NEW v \in BOOLEAN, AddTarget(t, e, v)
      PROVE  Inv'
  <2>1. [email |-> e, verified |-> v] \in TargetRow
    BY DEF TargetRow
  <2> QED BY <1>7, <2>1, EditTypes DEF AddTarget, Inv, TablesTyped
<1>8. ASSUME NEW b \in BoxIds, DeleteMailbox(b) PROVE Inv'
  <2>1. TablesTyped'
    BY <1>8 DEF DeleteMailbox, Inv, TablesTyped
  <2> QED BY <1>8, <2>1, EditTypes DEF DeleteMailbox
<1>9. ASSUME NEW b \in BoxIds, NEW e \in Emails, SetRule(b, e) PROVE Inv'
  <2>1. whitelist[b] \in SUBSET Emails
    BY DEF Inv, TablesTyped
  <2>2. (IF e \in whitelist[b] THEN whitelist[b] \ {e} ELSE whitelist[b] \cup {e}) \in SUBSET Emails
    BY <2>1
  <2>3. whitelist' \in [BoxIds -> SUBSET Emails]
    BY <1>9, <2>2 DEF SetRule, Inv, TablesTyped
  <2> QED BY <1>9, <2>3, EditTypes DEF SetRule, Inv, TablesTyped
<1>10. ASSUME NEW b \in BoxIds, NEW h \in Homes, NewMailbox(b, h) PROVE Inv'
  BY <1>10, EditTypes DEF NewMailbox, Inv, TablesTyped
<1>11. ASSUME Entitle PROVE Inv'
  BY <1>11, EditTypes DEF Entitle, Inv, TablesTyped
<1> QED BY <1>1, <1>2, <1>3, <1>4, <1>5, <1>6, <1>7, <1>8, <1>9, <1>10, <1>11 DEF Owner

LEMMA EventAgesTypes ==
  ASSUME Inv, NEW k \in Kinds, EventAges(k)
  PROVE  Inv'
<1>1. outbound[k] - 1 \in Nat
  BY DEF EventAges, Inv, FlowTyped
<1>2. outbound' \in [Kinds -> Nat]
  BY <1>1 DEF EventAges, Inv, FlowTyped
<1>3. FlowTyped'
  BY <1>2 DEF EventAges, Inv, FlowTyped, SessionsOK
<1> QED BY <1>3 DEF EventAges, Inv, TablesTyped, HistoryTyped, tables

LEMMA InitTypes == Init => Inv
<1> SUFFICES ASSUME Init PROVE Inv
  OBVIOUS
<1>1. PICK d \in Databases : Boot(d)
  BY DEF Init
<1>2. TablesTyped
  BY <1>1, DatabasesOK DEF Boot, TablesTyped
<1>3. FlowTyped
  <2>1. NoFate \in FateRecord
    BY DEF NoFate, FateRecord
  <2>2. [state |-> "queued", tries |-> 0, bounced |-> {}] \in MtaRecord
    BY DEF MtaRecord
  <2> QED BY <2>1, <2>2, IdleType DEF Init, FlowTyped, SessionsOK
<1>4. HistoryTyped
  <2>1. [off |-> {}, trusted |-> {}, verified |-> {}, owners |-> {}] \in PastRecord
    BY DEF PastRecord
  <2>2. past \in PastRecord
    BY <1>1, <1>2, <2>1, RememberedType DEF Boot, TablesTyped
  <2> QED BY <2>2 DEF Init, HistoryTyped
<1> QED BY <1>2, <1>3, <1>4 DEF Inv

LEMMA NextTypes == Inv /\ [Next]_vars => Inv'
<1> SUFFICES ASSUME Inv, [Next]_vars PROVE Inv'
  OBVIOUS
<1>1. CASE UNCHANGED vars
  BY <1>1 DEF vars, tables, Inv, TablesTyped, FlowTyped, SessionsOK, HistoryTyped
<1>2. CASE Next
  BY <1>2, HandleTypes, DialogueTypes, CrashTypes, OwnerTypes, EventAgesTypes DEF Next
<1> QED BY <1>1, <1>2

\* The tables, the transactions and the histories keep their types, and a handler
\* that resumes after an await still has what it read before.
THEOREM TypesInvariant == Spec => []Inv
<1> QED BY InitTypes, NextTypes, PTL DEF Spec

\* Type correctness of the delivery pipeline (smtp.ts, ingest.ts, forwarding.ts).
THEOREM TypeCorrect == Spec => []TypeOK
<1> QED BY TypesInvariant, InvImpliesTypeOK, PTL
-----------------------------------------------------------------------------
(***************************************************************************)
(* "Mail is never silently lost", for every instance of Delivery.          *)
(*                                                                         *)
(* NoSilentLoss speaks of the messages that were answered 250. It holds    *)
(* because of what is true of a message while it is still open: it belongs *)
(* to one transaction, every recipient offered so far is in the envelope   *)
(* or was bounced, and every recipient the loop has passed is served.      *)
(***************************************************************************)

\* The recipient r, whose fate is f, is accounted for: a copy exists, or it was
\* dropped on purpose.
ServedAs(r, f, off) ==
  \/ f.stored > 0 \/ f.relayed > 0
  \/ f.refused /\ (r.kind = "reverse" \/ r.addr \in off)

\* What is true of a transaction x with a message, of which the remote MTA knows
\* mt and whose recipients have the fates f.
KeptAs(x, mt, f, off) ==
  /\ mt.state = "open"
  /\ x.pc = "rcpt" => x.at = 1
  /\ x.pc # "rcpt" => x.offered > Len(x.mail.rcpts)
  /\ \A i \in 1 .. Len(x.mail.rcpts) :
       i < x.offered => i \in mt.bounced \/ \E k \in 1 .. Len(x.env) : x.env[k] = i
  /\ \A k \in 1 .. Len(x.env) :
       k < x.at => ServedAs(x.mail.rcpts[x.env[k]], f[x.env[k]], off)
  /\ x.out => x.pc \in {"relaying", "replying"} /\ f[x.env[x.at]].relayed > 0

SessionKept(s) ==
  session[s].pc # "idle" =>
    KeptAs(session[s], mta[session[s].mail], fate[session[s].mail], past.off)

Kept == \A s \in Sessions : SessionKept(s)

\* A message is in one transaction at a time.
Alone ==
  \A s, t \in Sessions :
    /\ session[s].pc # "idle" /\ session[t].pc # "idle"
    /\ session[s].mail = session[t].mail
    => s = t

\* An address that cannot receive now has been recorded as such.
OffRemembered ==
  /\ \A h \in Homes : (\A b \in BoxIds : box[b] # h) => h \in past.off
  /\ \A a \in Aliases : ~Live(a) => a \in past.off

CustodyInv == Kept /\ Alone /\ OffRemembered /\ NoSilentLoss
-----------------------------------------------------------------------------
(* The history only grows.                                                 *)

Grown(f, g) ==
  /\ g.stored >= f.stored /\ g.relayed >= f.relayed
  /\ f.refused => g.refused

FatesGrow ==
  \A m \in Mail : \A i \in Slots : Grown(fate[m][i], fate'[m][i])

LEMMA ServedForever ==
  ASSUME NEW r, NEW f \in FateRecord, NEW g \in FateRecord, NEW off, NEW off2,
         Grown(f, g), off \subseteq off2, ServedAs(r, f, off)
  PROVE  ServedAs(r, g, off2)
  BY DEF ServedAs, Grown, FateRecord

LEMMA SettleGrows ==
  ASSUME Inv, NEW s \in Sessions, session[s].pc # "idle",
         session[s].at <= Len(session[s].env), NEW f \in FateRecord,
         Grown(FateOf(s), f), Settle(s, f)
  PROVE  FatesGrow
<1>1. session[s].mail \in Mail /\ Slot(s) \in Slots
  BY CurrentType
<1>2. \A m \in Mail : \A i \in Slots :
        fate'[m][i] = IF m = session[s].mail /\ i = Slot(s) THEN f ELSE fate[m][i]
  BY <1>1 DEF Settle, Inv, FlowTyped
<1>3. \A m \in Mail : \A i \in Slots : Grown(fate[m][i], fate[m][i])
  BY DEF Grown, Inv, FlowTyped, FateRecord
<1> QED BY <1>2, <1>3 DEF FatesGrow, FateOf

LEMMA SameFates ==
  ASSUME Inv, UNCHANGED fate
  PROVE  FatesGrow
  BY DEF FatesGrow, Grown, Inv, FlowTyped, FateRecord

LEMMA RefuseGrows ==
  ASSUME Inv, NEW s \in Sessions, session[s].pc # "idle",
         session[s].at <= Len(session[s].env), Refuse(s)
  PROVE  FatesGrow
<1>1. FateOf(s) \in FateRecord
  BY CurrentType
<1> DEFINE f == [FateOf(s) EXCEPT !.refused = TRUE]
<1>2. f \in FateRecord
  BY <1>1 DEF FateRecord
<1>3. f.stored = FateOf(s).stored /\ f.relayed = FateOf(s).relayed /\ f.refused
  BY <1>1 DEF FateRecord
<1>4. Grown(FateOf(s), f)
  BY <1>1, <1>3 DEF FateRecord, Grown
<1> QED BY <1>2, <1>4, SettleGrows DEF Refuse

\* The copy that Store makes, when it makes one.
LEMMA StoredFate ==
  ASSUME Inv, NEW s \in Sessions, session[s].pc \in {"parsing", "relaying"}, Store(s),
         box[session[s].box] # None
  PROVE  \E f \in FateRecord : Grown(FateOf(s), f) /\ f.stored > 0 /\ Settle(s, f)
<1>1. SessionOK(session[s])
  BY DEF Inv, FlowTyped, SessionsOK
<1>2. session[s].pc # "idle" /\ session[s].at <= Len(session[s].env) /\ session[s].box \in BoxIds
  BY <1>1 DEF SessionOK, Serving
<1> DEFINE f == [FateOf(s) EXCEPT !.stored = @ + 1, !.homes = @ \cup {box[session[s].box]}]
<1>3. box[session[s].box] \in Homes /\ FateOf(s) \in FateRecord
  BY <1>2, CurrentType DEF Inv, TablesTyped
<1>4. /\ FateOf(s).stored \in Nat /\ FateOf(s).stored + 1 \in Nat
      /\ FateOf(s).homes \cup {box[session[s].box]} \in SUBSET Homes
  BY <1>3 DEF FateRecord
<1>5. f \in FateRecord
  BY <1>3, <1>4 DEF FateRecord
<1>6. f.stored = FateOf(s).stored + 1 /\ f.relayed = FateOf(s).relayed /\ f.refused = FateOf(s).refused
  BY <1>3 DEF FateRecord
<1>7. Grown(FateOf(s), f) /\ f.stored > 0
  BY <1>3, <1>4, <1>6 DEF Grown, FateRecord
<1>8. Settle(s, f)
  BY DEF Store
<1> QED BY <1>5, <1>7, <1>8

LEMMA StoreGrows ==
  ASSUME Inv, NEW s \in Sessions, session[s].pc \in {"parsing", "relaying"}, Store(s)
  PROVE  FatesGrow
<1>1. CASE box[session[s].box] # None
  <2>1. session[s].pc # "idle" /\ session[s].at <= Len(session[s].env)
    BY DEF Inv, FlowTyped, SessionsOK, SessionOK, Serving
  <2> QED BY <1>1, <2>1, StoredFate, SettleGrows
<1>2. CASE box[session[s].box] = None
  BY <1>2, SameFates DEF Store
<1> QED BY <1>1, <1>2

\* RelayTakes, the step that puts a copy outside.
LEMMA RelayTakesGrows ==
  ASSUME Inv, NEW s \in Sessions, RelayTakes(s)
  PROVE  FatesGrow /\ fate'[session[s].mail][Slot(s)].relayed > 0
<1> DEFINE f == [FateOf(s) EXCEPT !.relayed = @ + 1, !.to = @ \cup {session[s].to}]
           m == session[s].mail
<1>1. session[s].pc # "idle" /\ session[s].at <= Len(session[s].env)
  BY DEF RelayTakes, Inv, FlowTyped, SessionsOK, SessionOK, Serving
<1>2. m \in Mail /\ Slot(s) \in Slots /\ FateOf(s) \in FateRecord
  BY <1>1, CurrentType
<1>3. /\ f.stored = FateOf(s).stored /\ f.relayed = FateOf(s).relayed + 1
      /\ f.refused = FateOf(s).refused
  BY <1>2 DEF FateRecord
<1>4. Grown(FateOf(s), f) /\ f.relayed > 0
  BY <1>2, <1>3 DEF Grown, FateRecord
<1>5. fate' = [fate EXCEPT ![m] = [fate[m] EXCEPT ![Slot(s)] = f]]
  BY <1>2 DEF RelayTakes, Inv, FlowTyped, FateOf
<1> HIDE DEF f
<1>6. \A n \in Mail : \A i \in Slots :
        fate'[n][i] = IF n = m /\ i = Slot(s) THEN f ELSE fate[n][i]
  BY <1>2, <1>5 DEF Inv, FlowTyped
<1>7. \A n \in Mail : \A i \in Slots : Grown(fate[n][i], fate[n][i])
  BY DEF Grown, Inv, FlowTyped, FateRecord
<1> QED BY <1>2, <1>4, <1>6, <1>7 DEF FatesGrow, FateOf

\* Every step of a transaction.
LEMMA TransactionGrows ==
  ASSUME Inv, NEW s \in Sessions, Handle(s) \/ Dialogue(s)
  PROVE  FatesGrow
<1>1. CASE UNCHANGED fate
  BY <1>1, SameFates
<1>2. CASE Unknown(s) \/ ReplyRefused(s)
  BY <1>2, RefuseGrows DEF Unknown, ReplyRefused, HasRcpt
<1>3. CASE StoreParsed(s) \/ ForwardFails(s)
  BY <1>3, StoreGrows DEF StoreParsed, ForwardFails
<1>4. CASE RelayTakes(s)
  BY <1>4, RelayTakesGrows
<1>5. CASE Forwarded(s) \/ Replied(s)
  <2>1. session[s].pc # "idle" /\ session[s].at <= Len(session[s].env)
    BY <1>5 DEF Forwarded, Replied, Inv, FlowTyped, SessionsOK, SessionOK, Serving
  <2>2. FateOf(s) \in FateRecord /\ Grown(FateOf(s), FateOf(s))
    BY <2>1, CurrentType DEF Grown, FateRecord
  <2> QED BY <1>5, <2>1, <2>2, SettleGrows, StoreGrows DEF Forwarded, Replied
<1>6. CASE ReplyChecked(s)
  <2>1. session[s].pc # "idle" /\ session[s].at <= Len(session[s].env)
    BY <1>6 DEF ReplyChecked, Inv, FlowTyped, SessionsOK, SessionOK, Serving
  <2> QED BY <1>1, <1>6, <2>1, RefuseGrows DEF ReplyChecked
<1> QED
  BY <1>1, <1>2, <1>3, <1>4, <1>5, <1>6
  DEF Handle, Accept, Resolve, Forward, ReplyStart, ReplyFails, Dialogue, Offer, RcptTo, Abandon, Data
-----------------------------------------------------------------------------
(* What the steps of one transaction leave of the others, and of what was   *)
(* answered before.                                                         *)

HistoryGrows == FatesGrow /\ past.off \subseteq past'.off

LEMMA KeptForever ==
  ASSUME Inv, Inv', HistoryGrows, NEW t \in Sessions, session[t].pc # "idle",
         SessionKept(t), mta'[session[t].mail] = mta[session[t].mail]
  PROVE  KeptAs(session[t], mta'[session[t].mail], fate'[session[t].mail], past'.off)
<1> DEFINE x == session[t]
           m == session[t].mail
<1>1. /\ m \in Mail /\ x.at \in Nat /\ x.env \in Seq(Slots)
      /\ \A k \in 1 .. Len(x.env) : x.env[k] \in 1 .. Len(m.rcpts)
      /\ x.pc \in Serving => x.at <= Len(x.env)
  BY DEF Inv, FlowTyped, SessionState, SessionsOK, SessionOK
<1>2. KeptAs(x, mta[m], fate[m], past.off)
  BY DEF SessionKept
<1>3. \A i \in Slots : /\ fate[m][i] \in FateRecord /\ fate'[m][i] \in FateRecord
                       /\ Grown(fate[m][i], fate'[m][i])
  BY <1>1 DEF HistoryGrows, FatesGrow, Inv, FlowTyped
<1>4. ASSUME NEW k \in 1 .. Len(x.env), k < x.at
      PROVE  ServedAs(m.rcpts[x.env[k]], fate'[m][x.env[k]], past'.off)
  <2>1. x.env[k] \in Slots
    BY <1>1, RcptType
  <2>2. ServedAs(m.rcpts[x.env[k]], fate[m][x.env[k]], past.off)
    BY <1>2, <1>4 DEF KeptAs
  <2> QED BY <1>3, <2>1, <2>2, ServedForever DEF HistoryGrows
<1>5. x.out => x.pc \in {"relaying", "replying"} /\ fate'[m][x.env[x.at]].relayed > 0
  <2> SUFFICES ASSUME x.out
               PROVE  x.pc \in {"relaying", "replying"} /\ fate'[m][x.env[x.at]].relayed > 0
    OBVIOUS
  <2>1. x.pc \in {"relaying", "replying"} /\ fate[m][x.env[x.at]].relayed > 0
    BY <1>2 DEF KeptAs
  <2>2. x.env[x.at] \in Slots
    <3>1. x.at \in 1 .. Len(x.env)
      BY <1>1, <2>1 DEF Serving, Inv, FlowTyped, SessionState
    <3> QED BY <1>1, <3>1, RcptType
  <2> QED BY <1>3, <2>1, <2>2 DEF Grown, FateRecord
<1> QED BY <1>2, <1>4, <1>5 DEF KeptAs

\* Transaction s goes on with its message, or ends.
LEMMA OneMoves ==
  ASSUME Inv, Inv', Kept, Alone, HistoryGrows, NEW s \in Sessions, session[s].pc # "idle",
         NEW x, session' = [session EXCEPT ![s] = x],
         \A m \in Mail : m # session[s].mail => mta'[m] = mta[m],
         x.pc # "idle" => /\ x.mail = session[s].mail
                          /\ KeptAs(x, mta'[x.mail], fate'[x.mail], past'.off)
  PROVE  Kept' /\ Alone'
<1>1. \A t \in Sessions : session'[t] = IF t = s THEN x ELSE session[t]
  BY DEF Inv, FlowTyped
<1>2. ASSUME NEW t \in Sessions PROVE SessionKept(t)'
  <2>1. CASE t = s
    BY <1>1, <2>1 DEF SessionKept
  <2>2. CASE t # s /\ session[t].pc # "idle"
    <3>1. session[t].mail # session[s].mail /\ session[t].mail \in Mail
      BY <2>2 DEF Alone, Inv, FlowTyped, SessionsOK, SessionOK
    <3>2. mta'[session[t].mail] = mta[session[t].mail]
      BY <3>1
    <3>3. KeptAs(session[t], mta'[session[t].mail], fate'[session[t].mail], past'.off)
      BY <2>2, <3>2, KeptForever DEF Kept
    <3> QED BY <1>1, <2>2, <3>3 DEF SessionKept
  <2>3. CASE t # s /\ session[t].pc = "idle"
    BY <1>1, <2>3 DEF SessionKept
  <2> QED BY <2>1, <2>2, <2>3
<1>3. Alone'
  BY <1>1 DEF Alone
<1> QED BY <1>2, <1>3 DEF Kept

\* What was answered 250 stays served.
LEMMA AcceptedStays ==
  ASSUME Inv, Inv', NoSilentLoss, HistoryGrows, NEW m \in Mail, mta[m].state = "accepted",
         mta'[m].bounced = mta[m].bounced, NEW i \in 1 .. Len(m.rcpts) \ mta'[m].bounced
  PROVE  ServedAs(m.rcpts[i], fate'[m][i], past'.off)
<1>1. ServedAs(m.rcpts[i], fate[m][i], past.off)
  BY DEF NoSilentLoss, ServedAs
<1>2. i \in Slots
  BY RcptType
<1>3. /\ fate[m][i] \in FateRecord /\ fate'[m][i] \in FateRecord
      /\ Grown(fate[m][i], fate'[m][i])
  BY <1>2 DEF HistoryGrows, FatesGrow, Inv, FlowTyped
<1> QED BY <1>1, <1>3, ServedForever DEF HistoryGrows

\* A step that answers 250 to nobody.
LEMMA NothingAccepted ==
  ASSUME Inv, Inv', NoSilentLoss, HistoryGrows,
         \A m \in Mail : mta'[m].state = "accepted" => mta'[m] = mta[m]
  PROVE  NoSilentLoss'
<1> SUFFICES ASSUME NEW m \in Mail, mta'[m].state = "accepted",
                    NEW i \in 1 .. Len(m.rcpts) \ mta'[m].bounced
             PROVE  ServedAs(m.rcpts[i], fate'[m][i], past'.off)
  BY DEF NoSilentLoss, ServedAs
<1> QED BY AcceptedStays
-----------------------------------------------------------------------------
(* The moves a transaction makes.                                          *)

\* It is given up, or its message bounced or deferred.
LEMMA Ends ==
  ASSUME Inv, Inv', Kept, Alone, NoSilentLoss, HistoryGrows,
         NEW s \in Sessions, session[s].pc # "idle",
         session' = [session EXCEPT ![s] = Idle],
         NEW st \in {"queued", "bounced"},
         mta' = [mta EXCEPT ![session[s].mail].state = st]
  PROVE  Kept' /\ Alone' /\ NoSilentLoss'
<1>1. session[s].mail \in Mail
  BY DEF Inv, FlowTyped, SessionsOK, SessionOK
<1>2. \A m \in Mail : m # session[s].mail => mta'[m] = mta[m]
  BY <1>1 DEF Inv, FlowTyped
<1>3. Kept' /\ Alone'
  BY <1>2, OneMoves DEF Idle
<1>4. mta'[session[s].mail].state = st
  BY <1>1 DEF Inv, FlowTyped, MtaRecord
<1>5. NoSilentLoss'
  BY <1>2, <1>4, NothingAccepted
<1> QED BY <1>3, <1>5

\* Its current recipient is dealt with.
LEMMA Settles ==
  ASSUME Inv, Inv', Kept, Alone, NoSilentLoss, HistoryGrows,
         NEW s \in Sessions, session[s].pc \notin {"idle", "rcpt"},
         session[s].at <= Len(session[s].env),
         NEW f \in FateRecord, Grown(FateOf(s), f), ServedAs(Current(s), f, past.off),
         Settle(s, f)
  PROVE  Kept' /\ Alone' /\ NoSilentLoss'
<1> DEFINE m == session[s].mail
           y == Advance(s)
<1>1. /\ m \in Mail /\ Slot(s) \in Slots /\ session[s] \in SessionState
      /\ \A k \in 1 .. Len(session[s].env) : session[s].env[k] \in Slots
  BY CurrentType DEF Inv, FlowTyped, SessionState
<1>2. /\ y.pc = "next" /\ y.mail = m /\ y.env = session[s].env
      /\ y.at = session[s].at + 1 /\ y.offered = session[s].offered /\ ~y.out
  BY <1>1 DEF Advance, SessionState
<1>3. KeptAs(session[s], mta[m], fate[m], past.off)
  BY DEF Kept, SessionKept
<1>4. KeptAs(session[s], mta[m], fate'[m], past'.off)
  BY KeptForever DEF Kept, Settle
<1>5. fate'[m][Slot(s)] = f
  BY <1>1 DEF Settle, Inv, FlowTyped
<1>6. ServedAs(Current(s), f, past'.off)
  BY DEF ServedAs, HistoryGrows
<1>7. ASSUME NEW k \in 1 .. Len(y.env), k < y.at
      PROVE  ServedAs(m.rcpts[y.env[k]], fate'[m][y.env[k]], past'.off)
  <2>1. CASE k = session[s].at
    BY <1>2, <1>5, <1>6, <2>1 DEF Slot, Current
  <2>2. CASE k < session[s].at
    BY <1>2, <1>4, <2>2 DEF KeptAs
  <2> QED BY <1>1, <1>2, <1>7, <2>1, <2>2 DEF SessionState
<1>8. KeptAs(y, mta[m], fate'[m], past'.off)
  BY <1>2, <1>3, <1>7 DEF KeptAs
<1>9. Kept' /\ Alone'
  BY <1>2, <1>8, OneMoves DEF Settle
<1>10. NoSilentLoss'
  BY NothingAccepted DEF Settle
<1> QED BY <1>9, <1>10

\* It goes on with the same recipient.
LEMMA GoesOn ==
  ASSUME Inv, Inv', Kept, Alone, NoSilentLoss, HistoryGrows,
         NEW s \in Sessions, session[s].pc \notin {"idle", "rcpt"},
         NEW y, session' = [session EXCEPT ![s] = y], UNCHANGED mta,
         y.pc \notin {"idle", "rcpt"}, y.mail = session[s].mail, y.env = session[s].env,
         y.at = session[s].at, y.offered = session[s].offered,
         y.out => /\ y.pc \in {"relaying", "replying"}
                  /\ fate'[session[s].mail][Slot(s)].relayed > 0
  PROVE  Kept' /\ Alone' /\ NoSilentLoss'
<1> DEFINE m == session[s].mail
<1>1. KeptAs(session[s], mta[m], fate'[m], past'.off)
  BY KeptForever DEF Kept
<1>2. KeptAs(y, mta[m], fate'[m], past'.off)
  BY <1>1 DEF KeptAs, Slot
<1>3. Kept' /\ Alone'
  BY <1>2, OneMoves
<1> QED BY <1>3, NothingAccepted
-----------------------------------------------------------------------------
(* Every step of a transaction.                                            *)

FlowInv == Kept /\ Alone /\ NoSilentLoss

LEMMA DeferKeeps ==
  ASSUME Inv, Inv', FlowInv, HistoryGrows, NEW s \in Sessions, session[s].pc # "idle", Defer(s)
  PROVE  FlowInv'
  BY Ends DEF Defer, FlowInv

LEMMA RefuseKeeps ==
  ASSUME Inv, Inv', FlowInv, HistoryGrows, NEW s \in Sessions,
         session[s].pc \notin {"idle", "rcpt"}, session[s].at <= Len(session[s].env),
         Current(s).kind = "reverse" \/ Current(s).addr \in past.off, Refuse(s)
  PROVE  FlowInv'
<1> DEFINE f == [FateOf(s) EXCEPT !.refused = TRUE]
<1>1. FateOf(s) \in FateRecord
  BY CurrentType
<1>2. f \in FateRecord
  BY <1>1 DEF FateRecord
<1>3. f.stored = FateOf(s).stored /\ f.relayed = FateOf(s).relayed /\ f.refused
  BY <1>1 DEF FateRecord
<1>4. Grown(FateOf(s), f) /\ ServedAs(Current(s), f, past.off)
  BY <1>1, <1>3 DEF FateRecord, Grown, ServedAs
<1>5. Settle(s, f)
  BY DEF Refuse
<1> HIDE DEF f
<1> QED BY <1>2, <1>4, <1>5, Settles DEF FlowInv

LEMMA StoreKeeps ==
  ASSUME Inv, Inv', FlowInv, HistoryGrows, NEW s \in Sessions,
         session[s].pc \in {"parsing", "relaying"}, Store(s)
  PROVE  FlowInv'
<1>1. CASE box[session[s].box] # None
  <2>1. PICK f \in FateRecord : Grown(FateOf(s), f) /\ f.stored > 0 /\ Settle(s, f)
    BY <1>1, StoredFate
  <2>2. session[s].at <= Len(session[s].env)
    BY DEF Inv, FlowTyped, SessionsOK, SessionOK, Serving
  <2>3. ServedAs(Current(s), f, past.off)
    BY <2>1 DEF ServedAs
  <2> QED BY <2>1, <2>2, <2>3, Settles DEF FlowInv
<1>2. CASE box[session[s].box] = None
  BY <1>2, DeferKeeps DEF Store
<1> QED BY <1>1, <1>2

\* The relay has taken the copy before sendMail resolves.
LEMMA RelayedKeeps ==
  ASSUME Inv, Inv', FlowInv, HistoryGrows, NEW s \in Sessions,
         session[s].pc \in {"relaying", "replying"}, session[s].out, Settle(s, FateOf(s))
  PROVE  FlowInv'
<1>1. session[s].at <= Len(session[s].env)
  BY DEF Inv, FlowTyped, SessionsOK, SessionOK, Serving
<1>2. FateOf(s) \in FateRecord
  BY <1>1, CurrentType
<1>3. Grown(FateOf(s), FateOf(s))
  BY <1>2 DEF Grown, FateRecord
<1>4. FateOf(s).relayed > 0
  BY DEF FlowInv, Kept, SessionKept, KeptAs, FateOf, Slot
<1>5. ServedAs(Current(s), FateOf(s), past.off)
  BY <1>4 DEF ServedAs
<1> QED BY <1>1, <1>2, <1>3, <1>5, Settles DEF FlowInv

LEMMA ResolveKeeps ==
  ASSUME Inv, Inv', FlowInv, HistoryGrows, NEW s \in Sessions, Resolve(s)
  PROVE  FlowInv'
<1>1. PICK b, row : session' = [session EXCEPT ![s].pc = "parsing", ![s].box = b, ![s].row = row]
  BY DEF Resolve
<1> DEFINE y == [session[s] EXCEPT !.pc = "parsing", !.box = b, !.row = row]
<1>2. session[s].pc = "next" /\ session[s] \in SessionState
  BY DEF Resolve, HasRcpt, Inv, FlowTyped
<1>3. /\ y.pc = "parsing" /\ y.mail = session[s].mail /\ y.env = session[s].env
      /\ y.at = session[s].at /\ y.offered = session[s].offered /\ y.out = session[s].out
  BY <1>2 DEF SessionState
<1>4. ~session[s].out
  BY <1>2 DEF FlowInv, Kept, SessionKept, KeptAs
<1>5. session' = [session EXCEPT ![s] = y]
  BY <1>1 DEF Inv, FlowTyped
<1> HIDE DEF y
<1> QED BY <1>2, <1>3, <1>4, <1>5, GoesOn DEF FlowInv, Resolve

LEMMA ForwardKeeps ==
  ASSUME Inv, Inv', FlowInv, HistoryGrows, NEW s \in Sessions, Forward(s)
  PROVE  FlowInv'
<1> DEFINE y == [session[s] EXCEPT !.pc = "relaying",
                                   !.to = target[session[s].row.target].email]
<1>2. session[s].pc = "parsing" /\ session[s] \in SessionState
  BY DEF Forward, Inv, FlowTyped
<1>3. /\ y.pc = "relaying" /\ y.mail = session[s].mail /\ y.env = session[s].env
      /\ y.at = session[s].at /\ y.offered = session[s].offered /\ y.out = session[s].out
  BY <1>2 DEF SessionState
<1>4. ~session[s].out
  BY <1>2 DEF FlowInv, Kept, SessionKept, KeptAs
<1>5. session' = [session EXCEPT ![s] = y]
  BY DEF Forward, Inv, FlowTyped
<1> HIDE DEF y
<1> QED BY <1>2, <1>3, <1>4, <1>5, GoesOn DEF FlowInv, Forward

LEMMA RelayTakesKeeps ==
  ASSUME Inv, Inv', FlowInv, HistoryGrows, NEW s \in Sessions, RelayTakes(s)
  PROVE  FlowInv'
<1> DEFINE y == [session[s] EXCEPT !.out = TRUE]
<1>2. session[s].pc \in {"relaying", "replying"} /\ session[s] \in SessionState
  BY DEF RelayTakes, Inv, FlowTyped
<1>3. /\ y.pc = session[s].pc /\ y.mail = session[s].mail /\ y.env = session[s].env
      /\ y.at = session[s].at /\ y.offered = session[s].offered
  BY <1>2 DEF SessionState
<1>4. fate'[session[s].mail][Slot(s)].relayed > 0
  BY RelayTakesGrows
<1>5. session' = [session EXCEPT ![s] = y]
  BY DEF RelayTakes, Inv, FlowTyped
<1> HIDE DEF y
<1> QED BY <1>2, <1>3, <1>4, <1>5, GoesOn DEF FlowInv, RelayTakes

LEMMA ReplyStartKeeps ==
  ASSUME Inv, Inv', FlowInv, HistoryGrows, NEW s \in Sessions, ReplyStart(s)
  PROVE  FlowInv'
<1> DEFINE y == [session[s] EXCEPT !.pc = "verifying", !.to = OwnerOf(Current(s).addr)]
<1>2. session[s].pc = "next" /\ session[s] \in SessionState
  BY DEF ReplyStart, HasRcpt, Inv, FlowTyped
<1>3. /\ y.pc = "verifying" /\ y.mail = session[s].mail /\ y.env = session[s].env
      /\ y.at = session[s].at /\ y.offered = session[s].offered /\ y.out = session[s].out
  BY <1>2 DEF SessionState
<1>4. ~session[s].out
  BY <1>2 DEF FlowInv, Kept, SessionKept, KeptAs
<1>5. session' = [session EXCEPT ![s] = y]
  BY DEF ReplyStart, Inv, FlowTyped
<1> HIDE DEF y
<1> QED BY <1>2, <1>3, <1>4, <1>5, GoesOn DEF FlowInv, ReplyStart

LEMMA ReplyCheckedKeeps ==
  ASSUME Inv, Inv', FlowInv, HistoryGrows, NEW s \in Sessions, ReplyChecked(s)
  PROVE  FlowInv'
<1>1. session[s].pc = "verifying" /\ session[s] \in SessionState
  BY DEF ReplyChecked, Inv, FlowTyped
<1>2. session[s].at <= Len(session[s].env) /\ Current(s).kind = "reverse"
  BY <1>1 DEF Inv, FlowTyped, SessionsOK, SessionOK, Serving, Current, Slot
<1>3. CASE Refuse(s)
  BY <1>1, <1>2, <1>3, RefuseKeeps
<1>4. CASE session' = [session EXCEPT ![s].pc = "replying", ![s].to = Current(s).contact]
           /\ UNCHANGED mta
  <2> DEFINE y == [session[s] EXCEPT !.pc = "replying", !.to = Current(s).contact]
  <2>1. /\ y.pc = "replying" /\ y.mail = session[s].mail /\ y.env = session[s].env
        /\ y.at = session[s].at /\ y.offered = session[s].offered /\ y.out = session[s].out
    BY <1>1 DEF SessionState
  <2>2. ~session[s].out
    BY <1>1 DEF FlowInv, Kept, SessionKept, KeptAs
  <2>3. session' = [session EXCEPT ![s] = y]
    BY <1>4 DEF Inv, FlowTyped
  <2> HIDE DEF y
  <2> QED BY <1>1, <1>4, <2>1, <2>2, <2>3, GoesOn DEF FlowInv
<1> QED BY <1>3, <1>4 DEF ReplyChecked

\* resolveRecipient finds nothing: the address is one that stopped receiving.
LEMMA UnknownKeeps ==
  ASSUME Inv, Inv', FlowInv, OffRemembered, HistoryGrows, NEW s \in Sessions, Unknown(s)
  PROVE  FlowInv'
<1>1. /\ session[s].pc = "next" /\ session[s].at <= Len(session[s].env)
      /\ Current(s).kind # "reverse" /\ ~Deliverable(Current(s)) /\ Refuse(s)
  BY DEF Unknown, HasRcpt
<1>2. Current(s).addr \in past.off
  BY <1>1, CurrentType DEF Deliverable, OffRemembered
<1> QED BY <1>1, <1>2, RefuseKeeps

\* The loop is over: every recipient is bounced or in the envelope, and served.
LEMMA AcceptKeeps ==
  ASSUME Inv, Inv', FlowInv, HistoryGrows, NEW s \in Sessions, Accept(s)
  PROVE  FlowInv'
<1> DEFINE m == session[s].mail
<1>1. /\ m \in Mail /\ session[s].pc = "next" /\ session[s] \in SessionState
      /\ session[s].at > Len(session[s].env) /\ fate' = fate /\ past' = past
      /\ mta[m] \in MtaRecord
  BY DEF Accept, Inv, FlowTyped, SessionsOK, SessionOK
<1>2. \A n \in Mail : n # m => mta'[n] = mta[n]
  BY <1>1 DEF Accept, Inv, FlowTyped
<1>3. mta'[m].bounced = mta[m].bounced
  BY <1>1 DEF Accept, Inv, FlowTyped, MtaRecord
<1>4. Kept' /\ Alone'
  BY <1>1, <1>2, OneMoves DEF Accept, Idle, FlowInv
<1>5. KeptAs(session[s], mta[m], fate[m], past.off)
  BY <1>1 DEF FlowInv, Kept, SessionKept
<1>6. ASSUME NEW i \in 1 .. Len(m.rcpts) \ mta[m].bounced
      PROVE  ServedAs(m.rcpts[i], fate[m][i], past.off)
  <2>1. Len(m.rcpts) \in Nat /\ session[s].offered \in Nat
    BY <1>1, MailType DEF Slots, SessionState
  <2>2. i < session[s].offered
    BY <1>1, <1>5, <2>1 DEF KeptAs
  <2>3. PICK k \in 1 .. Len(session[s].env) : session[s].env[k] = i
    BY <1>5, <2>2 DEF KeptAs
  <2>4. k < session[s].at
    BY <1>1 DEF SessionState
  <2> QED BY <1>5, <2>3, <2>4 DEF KeptAs
<1>7. ASSUME NEW n \in Mail, mta'[n].state = "accepted",
             NEW i \in 1 .. Len(n.rcpts) \ mta'[n].bounced
      PROVE  ServedAs(n.rcpts[i], fate'[n][i], past'.off)
  <2>1. CASE n = m
    BY <1>1, <1>3, <1>6, <1>7, <2>1
  <2>2. CASE n # m
    BY <1>2, <1>7, <2>2, AcceptedStays DEF FlowInv
  <2> QED BY <2>1, <2>2
<1>8. NoSilentLoss'
  BY <1>7 DEF NoSilentLoss, ServedAs
<1> QED BY <1>4, <1>8 DEF FlowInv

\* A queued message is in no transaction.
LEMMA OfferKeeps ==
  ASSUME Inv, Inv', FlowInv, HistoryGrows, NEW s \in Sessions, NEW m \in Mail, Offer(s, m)
  PROVE  FlowInv'
<1> DEFINE x == [Idle EXCEPT !.pc = "rcpt", !.mail = m, !.offered = 1]
<1>1. /\ x.pc = "rcpt" /\ x.mail = m /\ x.env = <<>> /\ x.at = 1 /\ x.offered = 1 /\ ~x.out
  BY DEF Idle
<1>2. session' = [session EXCEPT ![s] = x] /\ session[s].pc = "idle" /\ mta[m].state = "queued"
  BY DEF Offer
<1> HIDE DEF x
<1>3. \A t \in Sessions : session'[t] = IF t = s THEN x ELSE session[t]
  BY <1>2 DEF Inv, FlowTyped
<1>4. \A n \in Mail : n # m => mta'[n] = mta[n]
  BY DEF Offer, Inv, FlowTyped
<1>5. mta'[m].state = "open"
  BY DEF Offer, Inv, FlowTyped, MtaRecord
<1>6. \A t \in Sessions :
        session[t].pc # "idle" => session[t].mail \in Mail /\ session[t].mail # m
  BY <1>2 DEF FlowInv, Kept, SessionKept, KeptAs, Inv, FlowTyped, SessionsOK, SessionOK
<1>7. ASSUME NEW t \in Sessions PROVE SessionKept(t)'
  <2>1. CASE t = s
    <3>1. 1 .. Len(x.env) = {}
      BY <1>1
    <3>2. KeptAs(x, mta'[m], fate'[m], past'.off)
      BY <1>1, <1>5, <3>1 DEF KeptAs
    <3> QED BY <1>1, <1>3, <2>1, <3>2 DEF SessionKept
  <2>2. CASE t # s /\ session[t].pc # "idle"
    <3>1. mta'[session[t].mail] = mta[session[t].mail]
      BY <1>4, <1>6, <2>2
    <3>2. KeptAs(session[t], mta'[session[t].mail], fate'[session[t].mail], past'.off)
      BY <2>2, <3>1, KeptForever DEF FlowInv, Kept
    <3> QED BY <1>3, <2>2, <3>2 DEF SessionKept
  <2>3. CASE t # s /\ session[t].pc = "idle"
    BY <1>3, <2>3 DEF SessionKept
  <2> QED BY <2>1, <2>2, <2>3
<1>8. Alone'
  BY <1>1, <1>3, <1>6 DEF Alone, FlowInv
<1>9. NoSilentLoss'
  BY <1>4, <1>5, NothingAccepted DEF FlowInv
<1> QED BY <1>7, <1>8, <1>9 DEF FlowInv, Kept

LEMMA RcptToKeeps ==
  ASSUME Inv, Inv', FlowInv, HistoryGrows, NEW s \in Sessions, RcptTo(s)
  PROVE  FlowInv'
<1> DEFINE m == session[s].mail
           i == session[s].offered
<1>1. /\ m \in Mail /\ session[s].pc = "rcpt" /\ i \in Nat /\ i <= Len(m.rcpts)
      /\ session[s].env \in Seq(Slots) /\ session[s] \in SessionState /\ mta[m] \in MtaRecord
      /\ Len(m.rcpts) \in Nat
  <2>1. session[s] \in SessionState /\ SessionOK(session[s]) /\ session[s].pc = "rcpt"
    BY DEF RcptTo, Inv, FlowTyped, SessionsOK
  <2>2. m \in Mail /\ i \in Nat /\ session[s].env \in Seq(Slots)
    BY <2>1 DEF SessionOK, SessionState
  <2>3. Len(m.rcpts) \in Nat /\ mta[m] \in MtaRecord
    BY <2>2, MailType DEF Slots, Inv, FlowTyped
  <2> QED BY <2>1, <2>2, <2>3 DEF RcptTo
<1>2. KeptAs(session[s], mta[m], fate'[m], past'.off)
  <2>1. KeptAs(session[s], mta[m], fate[m], past.off)
    BY <1>1 DEF FlowInv, Kept, SessionKept
  <2> QED BY <2>1 DEF RcptTo
<1>3. session[s].at = 1 /\ ~session[s].out
  BY <1>1, <1>2 DEF KeptAs
<1>4. CASE /\ session' = [session EXCEPT ![s].env = Append(@, i), ![s].offered = i + 1]
           /\ UNCHANGED mta
  <2> DEFINE y == [session[s] EXCEPT !.env = Append(@, i), !.offered = i + 1]
  <2>1. /\ y.pc = "rcpt" /\ y.mail = m /\ y.env = Append(session[s].env, i)
        /\ y.at = 1 /\ y.offered = i + 1 /\ ~y.out
    BY <1>1, <1>3 DEF SessionState
  <2>2. session' = [session EXCEPT ![s] = y]
    BY <1>4 DEF Inv, FlowTyped
  <2> HIDE DEF y
  <2>3. /\ Len(y.env) = Len(session[s].env) + 1 /\ y.env[Len(y.env)] = i
        /\ \A k \in 1 .. Len(session[s].env) : y.env[k] = session[s].env[k]
    BY <1>1, <2>1
  <2>4. Len(session[s].env) \in Nat
    BY <1>1
  <2>5. ASSUME NEW j \in 1 .. Len(m.rcpts), j < y.offered
        PROVE  j \in mta[m].bounced \/ \E k \in 1 .. Len(y.env) : y.env[k] = j
    <3>1. CASE j = i
      BY <2>3, <2>4, <3>1
    <3>2. CASE j < i
      BY <1>2, <2>3, <2>4, <3>2, SMTT(30) DEF KeptAs
    <3> QED BY <1>1, <2>1, <2>5, <3>1, <3>2
  <2>6. \A k \in 1 .. Len(y.env) : ~(k < y.at)
    BY <2>1
  <2>7. KeptAs(y, mta'[m], fate'[m], past'.off)
    BY <1>2, <1>4, <2>1, <2>5, <2>6 DEF KeptAs
  <2>8. Kept' /\ Alone'
    BY <1>1, <1>4, <2>1, <2>2, <2>7, OneMoves DEF FlowInv
  <2> QED BY <1>4, <2>8, NothingAccepted DEF FlowInv
<1>5. CASE /\ session' = [session EXCEPT ![s].offered = i + 1]
           /\ mta' = [mta EXCEPT ![m].bounced = @ \cup {i}]
  <2> DEFINE y == [session[s] EXCEPT !.offered = i + 1]
  <2>1. /\ y.pc = "rcpt" /\ y.mail = m /\ y.env = session[s].env
        /\ y.at = 1 /\ y.offered = i + 1 /\ ~y.out
    BY <1>1, <1>3 DEF SessionState
  <2>2. session' = [session EXCEPT ![s] = y]
    BY <1>5 DEF Inv, FlowTyped
  <2> HIDE DEF y
  <2>3. /\ mta'[m].state = mta[m].state /\ mta'[m].bounced = mta[m].bounced \cup {i}
        /\ \A n \in Mail : n # m => mta'[n] = mta[n]
    BY <1>1, <1>5 DEF Inv, FlowTyped, MtaRecord
  <2>4. ASSUME NEW j \in 1 .. Len(m.rcpts), j < y.offered
        PROVE  j \in mta'[m].bounced \/ \E k \in 1 .. Len(y.env) : y.env[k] = j
    <3>1. CASE j = i
      BY <2>3, <3>1
    <3>2. CASE j < i
      BY <1>2, <2>1, <2>3, <3>2 DEF KeptAs
    <3> QED BY <1>1, <2>1, <2>4, <3>1, <3>2
  <2>5. KeptAs(y, mta'[m], fate'[m], past'.off)
    BY <1>2, <2>1, <2>3, <2>4 DEF KeptAs
  <2>6. Kept' /\ Alone'
    BY <1>1, <2>1, <2>2, <2>3, <2>5, OneMoves DEF FlowInv
  <2>7. mta[m].state = "open"
    BY <1>2 DEF KeptAs
  <2> QED BY <2>3, <2>6, <2>7, NothingAccepted DEF FlowInv
<1> QED BY <1>4, <1>5 DEF RcptTo

LEMMA TransactionKeeps ==
  ASSUME Inv, Inv', FlowInv, OffRemembered, HistoryGrows, NEW s \in Sessions,
         Handle(s) \/ Dialogue(s)
  PROVE  FlowInv'
<1>1. CASE Dialogue(s)
  <2>1. CASE Abandon(s)
    BY <2>1, Ends DEF Abandon, RcptsDone, FlowInv
  <2>2. CASE Data(s)
    <3>0. session[s].pc = "rcpt" /\ session[s] \in SessionState
      BY <2>2 DEF Data, RcptsDone, Inv, FlowTyped
    <3>1. CASE Defer(s)
      BY <3>0, <3>1, DeferKeeps
    <3>2. CASE session' = [session EXCEPT ![s].pc = "next"] /\ UNCHANGED mta
      <4> DEFINE y == [session[s] EXCEPT !.pc = "next"]
                 m == session[s].mail
      <4>1. /\ y.pc = "next" /\ y.mail = m /\ y.env = session[s].env
            /\ y.at = session[s].at /\ y.offered = session[s].offered /\ y.out = session[s].out
        BY <3>0 DEF SessionState
      <4>2. session' = [session EXCEPT ![s] = y] /\ session[s].offered > Len(m.rcpts)
        BY <2>2, <3>2 DEF Data, RcptsDone, Inv, FlowTyped
      <4> HIDE DEF y
      <4>3. KeptAs(session[s], mta[m], fate'[m], past'.off)
        BY <2>2, <3>0 DEF Data, FlowInv, Kept, SessionKept
      <4>4. KeptAs(y, mta'[m], fate'[m], past'.off)
        BY <3>0, <3>2, <4>1, <4>2, <4>3 DEF KeptAs
      <4>5. Kept' /\ Alone'
        BY <3>0, <3>2, <4>1, <4>2, <4>4, OneMoves DEF FlowInv
      <4> QED BY <3>2, <4>5, NothingAccepted DEF FlowInv
    <3> QED BY <2>2, <3>1, <3>2 DEF Data
  <2> QED BY <1>1, <2>1, <2>2, OfferKeeps, RcptToKeeps DEF Dialogue
<1>2. CASE StoreParsed(s) \/ ForwardFails(s)
  BY <1>2, StoreKeeps DEF StoreParsed, ForwardFails
<1>3. CASE Forwarded(s)
  BY <1>3, StoreKeeps, RelayedKeeps DEF Forwarded
<1>4. CASE Replied(s)
  BY <1>4, RelayedKeeps DEF Replied
<1>5. CASE ReplyFails(s)
  BY <1>5, DeferKeeps DEF ReplyFails
<1>6. CASE ReplyRefused(s)
  BY <1>6, RefuseKeeps DEF ReplyRefused, HasRcpt
<1> QED
  BY <1>1, <1>2, <1>3, <1>4, <1>5, <1>6, AcceptKeeps, UnknownKeeps, ResolveKeeps, ForwardKeeps,
     RelayTakesKeeps, ReplyStartKeeps, ReplyCheckedKeeps
  DEF Handle
-----------------------------------------------------------------------------
(* The process dies; the owner, the clock.                                 *)

LEMMA CrashKeeps ==
  ASSUME Inv, Inv', FlowInv, HistoryGrows, Crash
  PROVE  FlowInv'
<1>1. \A s \in Sessions : session'[s].pc = "idle"
  BY DEF Crash, Idle
<1>2. Kept' /\ Alone'
  BY <1>1 DEF Kept, SessionKept, Alone
<1>3. ASSUME NEW m \in Mail, mta'[m].state = "accepted" PROVE mta'[m] = mta[m]
  <2>1. mta[m] \in MtaRecord
    BY DEF Inv, FlowTyped
  <2>2. [mta[m] EXCEPT !.state = "queued"].state = "queued"
    BY <2>1 DEF MtaRecord
  <2> QED BY <1>3, <2>2 DEF Crash
<1> QED BY <1>2, <1>3, NothingAccepted DEF FlowInv

\* A step that leaves the transactions and the remote MTAs alone.
LEMMA OutsideKeeps ==
  ASSUME Inv, Inv', FlowInv, HistoryGrows, UNCHANGED <<session, mta>>
  PROVE  FlowInv'
<1>1. ASSUME NEW t \in Sessions PROVE SessionKept(t)'
  <2>1. CASE session[t].pc # "idle"
    BY <2>1, KeptForever DEF SessionKept, FlowInv, Kept
  <2>2. CASE session[t].pc = "idle"
    BY <2>2 DEF SessionKept
  <2> QED BY <2>1, <2>2
<1>2. Alone'
  BY DEF Alone, FlowInv
<1> QED BY <1>1, <1>2, NothingAccepted DEF FlowInv, Kept

\* What an edit makes unreachable is written into the history by the same step.
LEMMA EditRemembers ==
  ASSUME Inv, Edit
  PROVE  OffRemembered' /\ past.off \subseteq past'.off
<1>1. past'.off = past.off
        \cup {h \in Homes : \A i \in BoxIds : box'[i] # h}
        \cup {x \in Aliases : alias'[x] = None \/ alias'[x].abused \/ alias'[x].expired}
  BY DEF Edit, Remembered
<1> QED BY <1>1 DEF OffRemembered, Live

LEMMA StepHistory ==
  ASSUME Inv, OffRemembered, [Next]_vars
  PROVE  HistoryGrows /\ OffRemembered'
<1>1. CASE Owner
  <2>1. Edit
    BY <1>1 DEF Owner, FlagAlias, DeleteAlias, ExpireAlias, PatchAlias, VerifyTarget,
       DeleteTarget, AddTarget, DeleteMailbox, SetRule, NewMailbox, Entitle
  <2> QED BY <2>1, EditRemembers, SameFates DEF HistoryGrows, Edit
<1>2. CASE UNCHANGED <<tables, past>> /\ FatesGrow
  BY <1>2 DEF tables, HistoryGrows, OffRemembered, Live
<1>3. ASSUME NEW s \in Sessions, Handle(s) \/ Dialogue(s)
      PROVE  UNCHANGED <<tables, past>>
  BY <1>3 DEF Handle, Accept, Unknown, Resolve, Forward, StoreParsed, RelayTakes, Forwarded,
     ForwardFails, ReplyRefused, ReplyStart, ReplyChecked, Replied, ReplyFails,
     Dialogue, Offer, RcptTo, Abandon, Data
<1>4. CASE UNCHANGED <<tables, past, fate>>
  BY <1>2, <1>4, SameFates
<1> QED
  BY <1>1, <1>2, <1>3, <1>4, TransactionGrows DEF Next, vars, Crash, EventAges

LEMMA CustodyStep == Inv /\ CustodyInv /\ [Next]_vars => CustodyInv'
<1> SUFFICES ASSUME Inv, CustodyInv, [Next]_vars PROVE CustodyInv'
  OBVIOUS
<1>1. Inv' /\ HistoryGrows /\ OffRemembered' /\ FlowInv /\ OffRemembered
  BY NextTypes, StepHistory DEF CustodyInv, FlowInv
<1>2. CASE UNCHANGED <<session, mta>>
  BY <1>1, <1>2, OutsideKeeps DEF FlowInv, CustodyInv
<1>3. CASE Owner
  <2>1. UNCHANGED <<session, mta>>
    BY <1>3 DEF Owner, FlagAlias, DeleteAlias, ExpireAlias, PatchAlias, VerifyTarget,
       DeleteTarget, AddTarget, DeleteMailbox, SetRule, NewMailbox, Entitle, Edit
  <2> QED BY <1>2, <2>1
<1>4. CASE Crash
  BY <1>1, <1>4, CrashKeeps DEF FlowInv, CustodyInv
<1>5. ASSUME NEW s \in Sessions, Handle(s) \/ Dialogue(s) PROVE CustodyInv'
  BY <1>1, <1>5, TransactionKeeps DEF FlowInv, CustodyInv
<1> QED BY <1>2, <1>3, <1>4, <1>5 DEF Next, vars, EventAges

LEMMA CustodyInit == Init => CustodyInv
<1> SUFFICES ASSUME Init PROVE CustodyInv
  OBVIOUS
<1>1. \A s \in Sessions : session[s].pc = "idle"
  BY DEF Init, Idle
<1>2. \A m \in Mail : mta[m].state = "queued"
  BY DEF Init
<1>3. PICK d \in Databases : Boot(d)
  BY DEF Init
<1>4. past.off =
        {h \in Homes : \A i \in BoxIds : box[i] # h}
        \cup {x \in Aliases : alias[x] = None \/ alias[x].abused \/ alias[x].expired}
  BY <1>3 DEF Boot, Remembered
<1>5. OffRemembered
  BY <1>4 DEF OffRemembered, Live
<1> QED BY <1>1, <1>2, <1>5 DEF CustodyInv, Kept, SessionKept, Alone, NoSilentLoss

\* "Mail is never silently lost" (ingest.ts, smtp.ts): once a message is answered
\* 250, each accepted recipient has a copy somewhere or was dropped on purpose.
THEOREM MailNeverSilentlyLost == Spec => []NoSilentLoss
<1>1. CustodyInv => NoSilentLoss
  BY DEF CustodyInv
<1> QED BY <1>1, CustodyInit, CustodyStep, TypesInvariant, PTL DEF Spec
-----------------------------------------------------------------------------
(***************************************************************************)
(* One attempt makes at most one copy of each kind, and the handlers       *)
(* implement Custody, for every instance of Delivery.                      *)
(*                                                                         *)
(* CopiesOnlyByRetry is not inductive: that a recipient has fewer copies   *)
(* than attempts when its copy is made follows from the envelope, in which *)
(* each recipient stands once, and from the loop, which has not passed it  *)
(* in this attempt. Fresh says that of each open transaction.              *)
(*                                                                         *)
(* A step of a transaction is of one of the seven kinds below. Each kind   *)
(* is then shown to keep the invariant and to be a step of Custody.        *)
(***************************************************************************)

\* What is true of a transaction x with a message, of which the remote MTA knows
\* mt and whose recipients have the fates f.
FreshAs(x, mt, f) ==
  /\ \A k \in 1 .. Len(x.env) : x.env[k] \notin mt.bounced
  /\ \A j, k \in 1 .. Len(x.env) : x.env[j] = x.env[k] => j = k
  /\ \A k \in 1 .. Len(x.env) : k >= x.at => f[x.env[k]].stored < mt.tries
  /\ \A k \in 1 .. Len(x.env) :
       k > x.at \/ (k = x.at /\ ~x.out) => f[x.env[k]].relayed < mt.tries
  /\ x.pc = "rcpt" =>
       /\ \A k \in 1 .. Len(x.env) : x.env[k] < x.offered
       /\ \A i \in Slots : f[i].stored < mt.tries /\ f[i].relayed < mt.tries

SessionFresh(s) ==
  session[s].pc # "idle" =>
    FreshAs(session[s], mta[session[s].mail], fate[session[s].mail])

Fresh == \A s \in Sessions : SessionFresh(s)

\* Only a recipient of the message is ever returned.
BouncedOK == \A m \in Mail : mta[m].bounced \subseteq 1 .. Len(m.rcpts)

CopiesInv == Fresh /\ BouncedOK /\ CopiesOnlyByRetry
-----------------------------------------------------------------------------
(* The steps of a transaction.                                             *)

\* RCPT TO accepts the recipient, or returns it.
Takes(s, i) ==
  /\ session[s].pc = "rcpt" /\ i = session[s].offered /\ i \in 1 .. Len(session[s].mail.rcpts)
  /\ i \notin mta[session[s].mail].bounced
  /\ session' = [session EXCEPT ![s].env = Append(@, i), ![s].offered = i + 1]
  /\ UNCHANGED <<mta, fate>>

Returns(s, i) ==
  /\ session[s].pc = "rcpt" /\ i = session[s].offered /\ i \in 1 .. Len(session[s].mail.rcpts)
  /\ mta' = [mta EXCEPT ![session[s].mail].bounced = @ \cup {i}]
  /\ session' = [session EXCEPT ![s].offered = i + 1]
  /\ UNCHANGED fate

\* The transaction ends, and the message is in the state st.
Ended(s, st) ==
  /\ session[s].pc # "idle"
  /\ st = "accepted" => session[s].pc = "next" /\ session[s].at > Len(session[s].env)
  /\ st = "bounced" => RcptsDone(s) /\ session[s].env = <<>>
  /\ session' = [session EXCEPT ![s] = Idle]
  /\ mta' = [mta EXCEPT ![session[s].mail].state = st]
  /\ UNCHANGED fate

\* It goes on with the same recipient: nothing was copied.
Continues(s, y) ==
  /\ session[s].pc # "idle"
  /\ y.pc \notin {"idle", "rcpt"} /\ y.mail = session[s].mail /\ y.env = session[s].env
  /\ y.at = session[s].at /\ y.out = session[s].out
  /\ session' = [session EXCEPT ![s] = y]
  /\ UNCHANGED <<mta, fate>>

\* It is done with the recipient, whose fate is now f: as before, stored or refused.
Done(s, f) ==
  /\ session[s].pc \notin {"idle", "rcpt"} /\ session[s].at <= Len(session[s].env)
  /\ f.relayed = FateOf(s).relayed
  /\ \/ f.stored = FateOf(s).stored /\ f.refused = FateOf(s).refused
     \/ f.stored = FateOf(s).stored + 1 /\ f.refused = FateOf(s).refused
     \/ f.stored = FateOf(s).stored /\ f.refused
  /\ Settle(s, f)

LEMMA StoreKinds ==
  ASSUME Inv, NEW s \in Sessions, session[s].pc \in {"parsing", "relaying"}, Store(s)
  PROVE  Ended(s, "queued") \/ \E f \in FateRecord : Done(s, f)
<1>1. SessionOK(session[s])
  BY DEF Inv, FlowTyped, SessionsOK
<1>2. session[s].pc # "idle" /\ session[s].at <= Len(session[s].env) /\ session[s].box \in BoxIds
  BY <1>1 DEF SessionOK, Serving
<1>3. CASE box[session[s].box] # None
  <2> DEFINE f == [FateOf(s) EXCEPT !.stored = @ + 1, !.homes = @ \cup {box[session[s].box]}]
  <2>1. box[session[s].box] \in Homes /\ FateOf(s) \in FateRecord
    BY <1>2, <1>3, CurrentType DEF Inv, TablesTyped
  <2>2. /\ FateOf(s).stored + 1 \in Nat
        /\ FateOf(s).homes \cup {box[session[s].box]} \in SUBSET Homes
    BY <2>1 DEF FateRecord
  <2>3. f \in FateRecord
    BY <2>1, <2>2 DEF FateRecord
  <2>4. f.stored = FateOf(s).stored + 1 /\ f.relayed = FateOf(s).relayed /\ f.refused = FateOf(s).refused
    BY <2>1 DEF FateRecord
  <2>5. Settle(s, f)
    BY <1>3 DEF Store
  <2> HIDE DEF f
  <2> QED BY <1>2, <2>3, <2>4, <2>5 DEF Done
<1>4. CASE box[session[s].box] = None
  BY <1>2, <1>4 DEF Store, Defer, Ended
<1> QED BY <1>3, <1>4

LEMMA RefuseKind ==
  ASSUME Inv, NEW s \in Sessions, session[s].pc \notin {"idle", "rcpt"},
         session[s].at <= Len(session[s].env), Refuse(s)
  PROVE  \E f \in FateRecord : Done(s, f)
<1> DEFINE f == [FateOf(s) EXCEPT !.refused = TRUE]
<1>1. FateOf(s) \in FateRecord
  BY CurrentType
<1>2. f \in FateRecord
  BY <1>1 DEF FateRecord
<1>3. f.stored = FateOf(s).stored /\ f.relayed = FateOf(s).relayed /\ f.refused
  BY <1>1 DEF FateRecord
<1>4. Settle(s, f)
  BY DEF Refuse
<1> HIDE DEF f
<1> QED BY <1>2, <1>3, <1>4 DEF Done

LEMMA RelayedKind ==
  ASSUME Inv, NEW s \in Sessions, session[s].pc \in {"relaying", "replying"},
         Settle(s, FateOf(s))
  PROVE  \E f \in FateRecord : Done(s, f)
<1>1. session[s].at <= Len(session[s].env)
  BY DEF Inv, FlowTyped, SessionsOK, SessionOK, Serving
<1>2. FateOf(s) \in FateRecord
  BY <1>1, CurrentType
<1> QED BY <1>1, <1>2 DEF Done

LEMMA RcptToKinds ==
  ASSUME Inv, NEW s \in Sessions, RcptTo(s)
  PROVE  \E i \in Slots : Takes(s, i) \/ Returns(s, i)
<1> DEFINE m == session[s].mail
           i == session[s].offered
<1>1. m \in Mail /\ i \in Nat \ {0}
  BY DEF RcptTo, Inv, FlowTyped, SessionsOK, SessionOK
<1>2. Len(m.rcpts) \in Nat
  BY <1>1, MailType DEF Slots
<1>3. i \in 1 .. Len(m.rcpts)
  BY <1>1, <1>2 DEF RcptTo
<1>4. i \in Slots
  BY <1>1, <1>3, RcptType
<1>5. Takes(s, i) \/ Returns(s, i)
  BY <1>3 DEF RcptTo, Takes, Returns
<1> QED BY <1>4, <1>5

\* The steps that only move a transaction on.
LEMMA ContinueKinds ==
  ASSUME Inv, NEW s \in Sessions,
         \/ Resolve(s) \/ Forward(s) \/ ReplyStart(s)
         \/ ReplyChecked(s) /\ UNCHANGED <<mta, fate>>
            /\ session' = [session EXCEPT ![s].pc = "replying", ![s].to = Current(s).contact]
         \/ Data(s) /\ session' = [session EXCEPT ![s].pc = "next"] /\ UNCHANGED mta
  PROVE  \E y : Continues(s, y)
<1>0. session[s] \in SessionState /\ session \in [Sessions -> SessionState]
  BY DEF Inv, FlowTyped
<1>1. CASE Resolve(s)
  <2>1. PICK b, row : session' = [session EXCEPT ![s].pc = "parsing", ![s].box = b, ![s].row = row]
    BY <1>1 DEF Resolve
  <2> DEFINE y == [session[s] EXCEPT !.pc = "parsing", !.box = b, !.row = row]
  <2>2. /\ y.pc = "parsing" /\ y.mail = session[s].mail /\ y.env = session[s].env
        /\ y.at = session[s].at /\ y.out = session[s].out
    BY <1>0 DEF SessionState
  <2>3. session' = [session EXCEPT ![s] = y]
    BY <1>0, <2>1
  <2> HIDE DEF y
  <2> QED BY <1>1, <2>2, <2>3 DEF Continues, Resolve, HasRcpt
<1>2. CASE Forward(s)
  <2> DEFINE to == target[session[s].row.target].email
             y == [session[s] EXCEPT !.pc = "relaying", !.to = to]
  <2>2. /\ y.pc = "relaying" /\ y.mail = session[s].mail /\ y.env = session[s].env
        /\ y.at = session[s].at /\ y.out = session[s].out
    BY <1>0 DEF SessionState
  <2>3. session' = [session EXCEPT ![s] = y]
    BY <1>0, <1>2 DEF Forward
  <2> HIDE DEF y
  <2> QED BY <1>2, <2>2, <2>3 DEF Continues, Forward
<1>3. CASE ReplyStart(s)
  <2> DEFINE y == [session[s] EXCEPT !.pc = "verifying", !.to = OwnerOf(Current(s).addr)]
  <2>2. /\ y.pc = "verifying" /\ y.mail = session[s].mail /\ y.env = session[s].env
        /\ y.at = session[s].at /\ y.out = session[s].out
    BY <1>0 DEF SessionState
  <2>3. session' = [session EXCEPT ![s] = y]
    BY <1>0, <1>3 DEF ReplyStart
  <2> HIDE DEF y
  <2> QED BY <1>3, <2>2, <2>3 DEF Continues, ReplyStart, HasRcpt
<1>4. CASE /\ ReplyChecked(s) /\ UNCHANGED <<mta, fate>>
           /\ session' = [session EXCEPT ![s].pc = "replying", ![s].to = Current(s).contact]
  <2> DEFINE y == [session[s] EXCEPT !.pc = "replying", !.to = Current(s).contact]
  <2>2. /\ y.pc = "replying" /\ y.mail = session[s].mail /\ y.env = session[s].env
        /\ y.at = session[s].at /\ y.out = session[s].out
    BY <1>0 DEF SessionState
  <2>3. session' = [session EXCEPT ![s] = y]
    BY <1>0, <1>4
  <2> HIDE DEF y
  <2> QED BY <1>4, <2>2, <2>3 DEF Continues, ReplyChecked
<1>5. CASE Data(s) /\ session' = [session EXCEPT ![s].pc = "next"] /\ UNCHANGED mta
  <2> DEFINE y == [session[s] EXCEPT !.pc = "next"]
  <2>2. /\ y.pc = "next" /\ y.mail = session[s].mail /\ y.env = session[s].env
        /\ y.at = session[s].at /\ y.out = session[s].out
    BY <1>0 DEF SessionState
  <2>3. session' = [session EXCEPT ![s] = y]
    BY <1>0, <1>5
  <2> HIDE DEF y
  <2> QED BY <1>5, <2>2, <2>3 DEF Continues, Data, RcptsDone
<1> QED BY <1>1, <1>2, <1>3, <1>4, <1>5

LEMMA TransactionKinds ==
  ASSUME Inv, NEW s \in Sessions, Handle(s) \/ Dialogue(s)
  PROVE  \/ \E m \in Mail : Offer(s, m)
         \/ \E i \in Slots : Takes(s, i) \/ Returns(s, i)
         \/ \E st \in {"queued", "accepted", "bounced"} : Ended(s, st)
         \/ \E y : Continues(s, y)
         \/ \E f \in FateRecord : Done(s, f)
         \/ RelayTakes(s)
<1>1. CASE RcptTo(s)
  BY <1>1, RcptToKinds
<1>2. CASE Abandon(s)
  BY <1>2 DEF Abandon, Ended, RcptsDone
<1>3. CASE Data(s)
  <2>1. CASE Defer(s)
    BY <1>3, <2>1 DEF Data, Defer, Ended, RcptsDone
  <2>2. CASE session' = [session EXCEPT ![s].pc = "next"] /\ UNCHANGED mta
    BY <1>3, <2>2, ContinueKinds
  <2> QED BY <1>3, <2>1, <2>2 DEF Data
<1>4. CASE Accept(s)
  BY <1>4 DEF Accept, Ended
<1>5. CASE Resolve(s) \/ Forward(s) \/ ReplyStart(s)
  BY <1>5, ContinueKinds
<1>6. CASE StoreParsed(s) \/ ForwardFails(s)
  BY <1>6, StoreKinds DEF StoreParsed, ForwardFails
<1>7. CASE Unknown(s) \/ ReplyRefused(s)
  BY <1>7, RefuseKind DEF Unknown, ReplyRefused, HasRcpt
<1>8. CASE Forwarded(s)
  BY <1>8, StoreKinds, RelayedKind DEF Forwarded
<1>9. CASE Replied(s)
  BY <1>9, RelayedKind DEF Replied
<1>10. CASE ReplyFails(s)
  BY <1>10 DEF ReplyFails, Defer, Ended
<1>11. CASE ReplyChecked(s)
  <2>1. CASE Refuse(s)
    <3>1. session[s].pc \notin {"idle", "rcpt"} /\ session[s].at <= Len(session[s].env)
      BY <1>11 DEF ReplyChecked, Inv, FlowTyped, SessionsOK, SessionOK, Serving
    <3> QED BY <2>1, <3>1, RefuseKind
  <2>2. CASE /\ session' = [session EXCEPT ![s].pc = "replying", ![s].to = Current(s).contact]
             /\ UNCHANGED <<mta, fate>>
    BY <1>11, <2>2, ContinueKinds
  <2> QED BY <1>11, <2>1, <2>2 DEF ReplyChecked
<1> QED
  BY <1>1, <1>2, <1>3, <1>4, <1>5, <1>6, <1>7, <1>8, <1>9, <1>10, <1>11 DEF Handle, Dialogue
-----------------------------------------------------------------------------
(* What a step of one transaction leaves of the others.                    *)

\* Transaction s becomes x, and only its own message is touched.
LEMMA OneFresh ==
  ASSUME Inv, Alone, Fresh, NEW s \in Sessions, session[s].pc # "idle",
         NEW x, session' = [session EXCEPT ![s] = x],
         \A m \in Mail : m # session[s].mail => mta'[m] = mta[m] /\ fate'[m] = fate[m],
         x.pc # "idle" => FreshAs(x, mta'[x.mail], fate'[x.mail])
  PROVE  Fresh'
<1>1. \A t \in Sessions : session'[t] = IF t = s THEN x ELSE session[t]
  BY DEF Inv, FlowTyped
<1>2. ASSUME NEW t \in Sessions PROVE SessionFresh(t)'
  <2>1. CASE t = s
    BY <1>1, <2>1 DEF SessionFresh
  <2>2. CASE t # s /\ session[t].pc # "idle"
    <3>1. session[t].mail # session[s].mail /\ session[t].mail \in Mail
      BY <2>2 DEF Alone, Inv, FlowTyped, SessionsOK, SessionOK
    <3> QED BY <1>1, <2>2, <3>1 DEF SessionFresh, Fresh
  <2>3. CASE t # s /\ session[t].pc = "idle"
    BY <1>1, <2>3 DEF SessionFresh
  <2> QED BY <2>1, <2>2, <2>3
<1> QED BY <1>2 DEF Fresh

\* The facts about an open transaction and its message that the kinds use.
LEMMA OpenFacts ==
  ASSUME Inv, Kept, Fresh, NEW s \in Sessions, session[s].pc # "idle"
  PROVE  /\ session[s] \in SessionState /\ session[s].mail \in Mail
         /\ mta[session[s].mail] \in MtaRecord /\ mta[session[s].mail].state = "open"
         /\ FreshAs(session[s], mta[session[s].mail], fate[session[s].mail])
         /\ \A k \in 1 .. Len(session[s].env) :
              /\ session[s].env[k] \in 1 .. Len(session[s].mail.rcpts)
              /\ session[s].env[k] \in Slots
         /\ \A i \in Slots : fate[session[s].mail][i] \in FateRecord
<1>1. session[s] \in SessionState /\ SessionOK(session[s])
  BY DEF Inv, FlowTyped, SessionsOK
<1>2. session[s].mail \in Mail
  BY <1>1 DEF SessionOK
<1>3. \A k \in 1 .. Len(session[s].env) :
        /\ session[s].env[k] \in 1 .. Len(session[s].mail.rcpts)
        /\ session[s].env[k] \in Slots
  BY <1>1, <1>2, RcptType DEF SessionOK
<1>4. mta[session[s].mail].state = "open"
  BY DEF Kept, SessionKept, KeptAs
<1> QED BY <1>1, <1>2, <1>3, <1>4 DEF Inv, FlowTyped, Fresh, SessionFresh
-----------------------------------------------------------------------------
(* Each kind keeps the invariant.                                          *)

LEMMA OfferFresh ==
  ASSUME Inv, Kept, CopiesInv, NEW s \in Sessions, NEW m \in Mail, Offer(s, m)
  PROVE  CopiesInv'
<1> DEFINE x == [Idle EXCEPT !.pc = "rcpt", !.mail = m, !.offered = 1]
<1>1. x.pc = "rcpt" /\ x.mail = m /\ x.env = <<>> /\ x.offered = 1
  BY DEF Idle
<1>2. session' = [session EXCEPT ![s] = x] /\ mta[m].state = "queued" /\ fate' = fate
  BY DEF Offer
<1> HIDE DEF x
<1>3. \A t \in Sessions : session'[t] = IF t = s THEN x ELSE session[t]
  BY <1>2 DEF Inv, FlowTyped
<1>4. /\ \A n \in Mail : n # m => mta'[n] = mta[n]
      /\ mta'[m].tries = mta[m].tries + 1 /\ mta'[m].bounced = mta[m].bounced
      /\ \A n \in Mail : mta[n].tries \in Nat
  BY DEF Offer, Inv, FlowTyped, MtaRecord
<1>5. \A n \in Mail : \A i \in Slots : fate[n][i].stored \in Nat /\ fate[n][i].relayed \in Nat
  BY DEF Inv, FlowTyped, FateRecord
<1>6. FreshAs(x, mta'[m], fate'[m])
  <2>1. 1 .. Len(x.env) = {}
    BY <1>1
  <2>2. \A i \in Slots : fate'[m][i].stored < mta'[m].tries /\ fate'[m][i].relayed < mta'[m].tries
    BY <1>2, <1>4, <1>5 DEF CopiesInv, CopiesOnlyByRetry
  <2> QED BY <1>1, <2>1, <2>2 DEF FreshAs
<1>7. ASSUME NEW t \in Sessions PROVE SessionFresh(t)'
  <2>1. CASE t = s
    BY <1>1, <1>3, <1>6, <2>1 DEF SessionFresh
  <2>2. CASE t # s /\ session[t].pc # "idle"
    <3>1. session[t].mail \in Mail /\ session[t].mail # m
      BY <1>2, <2>2 DEF Kept, SessionKept, KeptAs, Inv, FlowTyped, SessionsOK, SessionOK
    <3> QED BY <1>2, <1>3, <1>4, <2>2, <3>1 DEF CopiesInv, Fresh, SessionFresh
  <2>3. CASE t # s /\ session[t].pc = "idle"
    BY <1>3, <2>3 DEF SessionFresh
  <2> QED BY <2>1, <2>2, <2>3
<1>8. CopiesOnlyByRetry'
  BY <1>2, <1>4, <1>5 DEF CopiesInv, CopiesOnlyByRetry
<1>9. BouncedOK'
  BY <1>4 DEF CopiesInv, BouncedOK
<1> QED BY <1>7, <1>8, <1>9 DEF CopiesInv, Fresh

LEMMA TakesFresh ==
  ASSUME Inv, Kept, Alone, CopiesInv, NEW s \in Sessions, NEW i \in Slots, Takes(s, i)
  PROVE  CopiesInv'
<1> DEFINE y == [session[s] EXCEPT !.env = Append(@, i), !.offered = i + 1]
           m == session[s].mail
           n == Len(session[s].env)
<1>0. session[s].pc = "rcpt" /\ i = session[s].offered /\ i \notin mta[m].bounced
  BY DEF Takes
<1>1. /\ session[s] \in SessionState /\ m \in Mail /\ FreshAs(session[s], mta[m], fate[m])
      /\ \A k \in 1 .. n : session[s].env[k] \in Slots
  BY <1>0, OpenFacts DEF CopiesInv
<1>2. /\ y.pc = "rcpt" /\ y.mail = m /\ y.env = Append(session[s].env, i)
      /\ y.offered = i + 1
  BY <1>0, <1>1 DEF SessionState
<1>3. session' = [session EXCEPT ![s] = y] /\ UNCHANGED <<mta, fate>>
  BY DEF Takes, Inv, FlowTyped
<1> HIDE DEF y
<1>4. /\ n \in Nat /\ Len(y.env) = n + 1 /\ y.env[n + 1] = i
      /\ \A k \in 1 .. n : y.env[k] = session[s].env[k]
  BY <1>1, <1>2 DEF SessionState
<1>5. ASSUME NEW k \in 1 .. Len(y.env)
      PROVE  y.env[k] = IF k = n + 1 THEN i ELSE session[s].env[k]
  BY <1>4
<1>6. \A k \in 1 .. n : session[s].env[k] < i
  BY <1>0, <1>1 DEF FreshAs
<1>7. i \in Nat /\ \A k \in 1 .. n : session[s].env[k] \in Nat
  BY <1>1 DEF Slots
<1>8. \A k \in 1 .. Len(y.env) : y.env[k] \in Slots /\ y.env[k] < y.offered
  BY <1>1, <1>2, <1>4, <1>5, <1>6, <1>7
<1>9. \A k \in 1 .. Len(y.env) : y.env[k] \notin mta[m].bounced
  BY <1>0, <1>1, <1>4, <1>5 DEF FreshAs
<1>10. ASSUME NEW j \in 1 .. Len(y.env), NEW k \in 1 .. Len(y.env), y.env[j] = y.env[k]
       PROVE  j = k
  <2>1. \A a, b \in 1 .. n : session[s].env[a] = session[s].env[b] => a = b
    BY <1>1 DEF FreshAs
  <2>2. \A a \in 1 .. n : session[s].env[a] # i
    BY <1>6, <1>7
  <2>3. (j \in 1 .. n \/ j = n + 1) /\ (k \in 1 .. n \/ k = n + 1)
    BY <1>4
  <2>4. /\ y.env[j] = IF j = n + 1 THEN i ELSE session[s].env[j]
        /\ y.env[k] = IF k = n + 1 THEN i ELSE session[s].env[k]
    BY <1>5
  <2> QED BY <1>4, <1>10, <2>1, <2>2, <2>3, <2>4
<1>11. \A j \in Slots : fate[m][j].stored < mta[m].tries /\ fate[m][j].relayed < mta[m].tries
  BY <1>0, <1>1 DEF FreshAs
<1>12. FreshAs(y, mta'[m], fate'[m])
  BY <1>2, <1>3, <1>8, <1>9, <1>10, <1>11 DEF FreshAs
<1>13. Fresh'
  BY <1>0, <1>2, <1>3, <1>12, OneFresh DEF CopiesInv
<1> QED BY <1>3, <1>13 DEF CopiesInv, BouncedOK, CopiesOnlyByRetry

LEMMA ReturnsFresh ==
  ASSUME Inv, Kept, Alone, CopiesInv, NEW s \in Sessions, NEW i \in Slots, Returns(s, i)
  PROVE  CopiesInv'
<1> DEFINE y == [session[s] EXCEPT !.offered = i + 1]
           m == session[s].mail
<1>0. session[s].pc = "rcpt" /\ i = session[s].offered /\ i \in 1 .. Len(m.rcpts)
  BY DEF Returns
<1>1. /\ session[s] \in SessionState /\ m \in Mail /\ FreshAs(session[s], mta[m], fate[m])
      /\ \A k \in 1 .. Len(session[s].env) : session[s].env[k] \in Slots
  BY <1>0, OpenFacts DEF CopiesInv
<1>2. /\ y.pc = "rcpt" /\ y.mail = m /\ y.env = session[s].env
      /\ y.offered = i + 1 /\ y.at = session[s].at /\ y.out = session[s].out
  BY <1>0, <1>1 DEF SessionState
<1>3. session' = [session EXCEPT ![s] = y] /\ UNCHANGED fate
  BY DEF Returns, Inv, FlowTyped
<1> HIDE DEF y
<1>4. /\ mta'[m].tries = mta[m].tries /\ mta'[m].bounced = mta[m].bounced \cup {i}
      /\ \A x \in Mail : x # m => mta'[x] = mta[x]
  BY <1>1 DEF Returns, Inv, FlowTyped, MtaRecord
<1>5. \A k \in 1 .. Len(session[s].env) : session[s].env[k] < i /\ session[s].env[k] \in Nat
  BY <1>0, <1>1 DEF FreshAs, Slots
<1>6. i \in Nat
  BY DEF Slots
<1>7. /\ \A k \in 1 .. Len(y.env) : y.env[k] \notin mta'[m].bounced
      /\ \A k \in 1 .. Len(y.env) : y.env[k] < y.offered
  BY <1>1, <1>2, <1>4, <1>5, <1>6 DEF FreshAs
<1>8. FreshAs(y, mta'[m], fate'[m])
  BY <1>0, <1>1, <1>2, <1>3, <1>4, <1>7 DEF FreshAs
<1>9. Fresh'
  BY <1>0, <1>2, <1>3, <1>4, <1>8, OneFresh DEF CopiesInv
<1>10. BouncedOK'
  BY <1>0, <1>1, <1>4 DEF CopiesInv, BouncedOK
<1>11. CopiesOnlyByRetry'
  BY <1>1, <1>3, <1>4 DEF CopiesInv, CopiesOnlyByRetry
<1> QED BY <1>9, <1>10, <1>11 DEF CopiesInv

LEMMA EndedFresh ==
  ASSUME Inv, Kept, Alone, CopiesInv, NEW s \in Sessions,
         NEW st \in {"queued", "accepted", "bounced"}, Ended(s, st)
  PROVE  CopiesInv'
<1> DEFINE m == session[s].mail
<1>1. session[s].pc # "idle" /\ m \in Mail /\ fate' = fate /\ Idle.pc = "idle"
  BY OpenFacts DEF Ended, CopiesInv, Idle
<1>2. /\ \A x \in Mail : x # m => mta'[x] = mta[x]
      /\ mta'[m].tries = mta[m].tries /\ mta'[m].bounced = mta[m].bounced
  BY <1>1 DEF Ended, Inv, FlowTyped, MtaRecord
<1>3. Fresh'
  BY <1>1, <1>2, OneFresh DEF Ended, CopiesInv
<1>4. BouncedOK'
  BY <1>1, <1>2 DEF CopiesInv, BouncedOK
<1>5. CopiesOnlyByRetry'
  BY <1>1, <1>2 DEF CopiesInv, CopiesOnlyByRetry
<1> QED BY <1>3, <1>4, <1>5 DEF CopiesInv

LEMMA ContinuesFresh ==
  ASSUME Inv, Kept, Alone, CopiesInv, NEW s \in Sessions, NEW y, Continues(s, y)
  PROVE  CopiesInv'
<1>1. FreshAs(session[s], mta[session[s].mail], fate[session[s].mail])
  BY OpenFacts DEF Continues, CopiesInv
<1>2. FreshAs(y, mta'[y.mail], fate'[y.mail])
  BY <1>1 DEF FreshAs, Continues
<1>3. Fresh'
  BY <1>2, OneFresh DEF Continues, CopiesInv
<1> QED BY <1>3 DEF CopiesInv, BouncedOK, CopiesOnlyByRetry, Continues

LEMMA DoneFresh ==
  ASSUME Inv, Kept, Alone, CopiesInv, NEW s \in Sessions, NEW f \in FateRecord, Done(s, f)
  PROVE  CopiesInv'
<1> DEFINE m == session[s].mail
           x == session[s]
           y == Advance(s)
<1>0. x.pc \notin {"idle", "rcpt"} /\ x.at <= Len(x.env) /\ Settle(s, f)
  BY DEF Done
<1>1. /\ x \in SessionState /\ m \in Mail /\ FreshAs(x, mta[m], fate[m])
      /\ \A k \in 1 .. Len(x.env) : x.env[k] \in Slots
      /\ mta[m] \in MtaRecord
  BY <1>0, OpenFacts DEF CopiesInv
<1>2. y.pc = "next" /\ y.mail = m /\ y.env = x.env /\ y.at = x.at + 1 /\ ~y.out
  BY <1>1 DEF Advance, SessionState
<1>3. x.at \in 1 .. Len(x.env) /\ x.at \in Nat /\ Len(x.env) \in Nat
  BY <1>0, <1>1 DEF SessionState
<1>4. Slot(s) \in Slots /\ FateOf(s) \in FateRecord /\ Slot(s) = x.env[x.at]
  BY <1>0, CurrentType DEF Slot
<1>5. /\ \A n \in Mail : n # m => fate'[n] = fate[n]
      /\ \A i \in Slots : fate'[m][i] = IF i = Slot(s) THEN f ELSE fate[m][i]
      /\ mta' = mta
  BY <1>0, <1>1, <1>4 DEF Settle, Inv, FlowTyped
<1>6. session' = [session EXCEPT ![s] = y]
  BY <1>0 DEF Settle
<1> HIDE DEF y
<1>7. \A k \in 1 .. Len(x.env) : k >= y.at => x.env[k] # Slot(s) /\ k > x.at
  <2>1. \A j, k \in 1 .. Len(x.env) : x.env[j] = x.env[k] => j = k
    BY <1>1 DEF FreshAs
  <2> QED BY <1>2, <1>3, <1>4, <2>1
<1>8. \A k \in 1 .. Len(y.env) : k >= y.at => fate'[m][y.env[k]].stored < mta'[m].tries
  <2>1. \A k \in 1 .. Len(x.env) : k >= x.at => fate[m][x.env[k]].stored < mta[m].tries
    BY <1>1 DEF FreshAs
  <2> QED BY <1>1, <1>2, <1>3, <1>5, <1>7, <2>1
<1>9. \A k \in 1 .. Len(y.env) :
        k > y.at \/ (k = y.at /\ ~y.out) => fate'[m][y.env[k]].relayed < mta'[m].tries
  <2>1. \A k \in 1 .. Len(x.env) : k > x.at => fate[m][x.env[k]].relayed < mta[m].tries
    BY <1>1 DEF FreshAs
  <2>2. \A k \in 1 .. Len(x.env) : k > y.at \/ k = y.at => k >= y.at
    BY <1>2, <1>3
  <2> QED BY <1>1, <1>2, <1>3, <1>5, <1>7, <2>1, <2>2
<1>10. FreshAs(y, mta'[m], fate'[m])
  <2>1. /\ \A k \in 1 .. Len(y.env) : y.env[k] \notin mta'[m].bounced
        /\ \A j, k \in 1 .. Len(y.env) : y.env[j] = y.env[k] => j = k
    BY <1>1, <1>2, <1>5 DEF FreshAs
  <2> QED BY <1>2, <1>8, <1>9, <2>1 DEF FreshAs
<1>11. Fresh'
  BY <1>0, <1>2, <1>5, <1>6, <1>10, OneFresh DEF CopiesInv
<1>12. f.stored <= mta[m].tries /\ f.relayed <= mta[m].tries
  <2>1. FateOf(s).stored < mta[m].tries
    BY <1>1, <1>3, <1>4 DEF FreshAs, FateOf
  <2>2. FateOf(s).relayed <= mta[m].tries
    BY <1>1, <1>4 DEF CopiesInv, CopiesOnlyByRetry, FateOf
  <2> QED BY <1>1, <1>4, <2>1, <2>2 DEF Done, MtaRecord, FateRecord
<1>13. CopiesOnlyByRetry'
  BY <1>5, <1>12 DEF CopiesInv, CopiesOnlyByRetry
<1>14. BouncedOK'
  BY <1>5 DEF CopiesInv, BouncedOK
<1> QED BY <1>11, <1>13, <1>14 DEF CopiesInv

\* The fate after the relay has taken the copy.
LEMMA RelayedFate ==
  ASSUME Inv, NEW s \in Sessions, RelayTakes(s)
  PROVE  \E f \in FateRecord :
           /\ f.stored = FateOf(s).stored /\ f.relayed = FateOf(s).relayed + 1
           /\ f.refused = FateOf(s).refused /\ f.to = FateOf(s).to \cup {session[s].to}
           /\ \A m \in Mail : \A i \in Slots :
                fate'[m][i] = IF m = session[s].mail /\ i = Slot(s) THEN f ELSE fate[m][i]
<1> DEFINE f == [FateOf(s) EXCEPT !.relayed = @ + 1, !.to = @ \cup {session[s].to}]
           m == session[s].mail
<1>1. session[s].pc # "idle" /\ session[s].at <= Len(session[s].env) /\ session[s].to \in Emails
  BY DEF RelayTakes, Inv, FlowTyped, SessionsOK, SessionOK, Serving
<1>2. m \in Mail /\ Slot(s) \in Slots /\ FateOf(s) \in FateRecord
  BY <1>1, CurrentType
<1>3. /\ f.stored = FateOf(s).stored /\ f.relayed = FateOf(s).relayed + 1
      /\ f.refused = FateOf(s).refused /\ f.to = FateOf(s).to \cup {session[s].to}
  BY <1>2 DEF FateRecord
<1>4. FateOf(s).relayed + 1 \in Nat /\ FateOf(s).to \cup {session[s].to} \in SUBSET Emails
  BY <1>1, <1>2 DEF FateRecord
<1>5. f \in FateRecord
  BY <1>2, <1>4 DEF FateRecord
<1>6. fate' = [fate EXCEPT ![m] = [fate[m] EXCEPT ![Slot(s)] = f]]
  BY <1>2 DEF RelayTakes, Inv, FlowTyped, FateOf
<1> HIDE DEF f
<1>7. \A n \in Mail : \A i \in Slots :
        fate'[n][i] = IF n = m /\ i = Slot(s) THEN f ELSE fate[n][i]
  BY <1>2, <1>6 DEF Inv, FlowTyped
<1> QED BY <1>3, <1>5, <1>7

LEMMA RelayTakesFresh ==
  ASSUME Inv, Kept, Alone, CopiesInv, NEW s \in Sessions, RelayTakes(s)
  PROVE  CopiesInv'
<1> DEFINE m == session[s].mail
           x == session[s]
           y == [session[s] EXCEPT !.out = TRUE]
<1>0. /\ x.pc \in {"relaying", "replying"} /\ x.at <= Len(x.env) /\ ~x.out /\ mta' = mta
      /\ session' = [session EXCEPT ![s] = y]
  BY DEF RelayTakes, Inv, FlowTyped, SessionsOK, SessionOK, Serving
<1>1. /\ x \in SessionState /\ m \in Mail /\ FreshAs(x, mta[m], fate[m])
      /\ \A k \in 1 .. Len(x.env) : x.env[k] \in Slots
      /\ mta[m] \in MtaRecord
  BY <1>0, OpenFacts DEF CopiesInv
<1>2. y.pc = x.pc /\ y.mail = m /\ y.env = x.env /\ y.at = x.at /\ y.out
  BY <1>1 DEF SessionState
<1> HIDE DEF y
<1>3. x.at \in 1 .. Len(x.env) /\ x.at \in Nat /\ Len(x.env) \in Nat
  BY <1>0, <1>1 DEF SessionState
<1>4. Slot(s) \in Slots /\ FateOf(s) \in FateRecord /\ Slot(s) = x.env[x.at]
  BY <1>0, CurrentType DEF Slot
<1>5. PICK f \in FateRecord :
        /\ f.stored = FateOf(s).stored /\ f.relayed = FateOf(s).relayed + 1
        /\ \A n \in Mail : \A i \in Slots :
             fate'[n][i] = IF n = m /\ i = Slot(s) THEN f ELSE fate[n][i]
  BY RelayedFate
<1>6. \A n \in Mail : n # m => fate'[n] = fate[n]
  BY <1>1 DEF RelayTakes, Inv, FlowTyped
<1>7. \A j, k \in 1 .. Len(x.env) : x.env[j] = x.env[k] => j = k
  BY <1>1 DEF FreshAs
<1>8. \A k \in 1 .. Len(y.env) : k >= y.at => fate'[m][y.env[k]].stored < mta'[m].tries
  <2>1. \A k \in 1 .. Len(x.env) : k >= x.at => fate[m][x.env[k]].stored < mta[m].tries
    BY <1>1 DEF FreshAs
  <2>2. ASSUME NEW k \in 1 .. Len(x.env) PROVE fate'[m][x.env[k]].stored = fate[m][x.env[k]].stored
    <3>1. x.env[k] \in Slots
      BY <1>1
    <3>2. CASE x.env[k] = Slot(s)
      BY <1>1, <1>5, <3>1, <3>2 DEF FateOf
    <3>3. CASE x.env[k] # Slot(s)
      BY <1>1, <1>5, <3>1, <3>3
    <3> QED BY <3>2, <3>3
  <2> HIDE DEF m, x
  <2> QED BY <1>0, <1>2, <2>1, <2>2
<1>9. \A k \in 1 .. Len(y.env) :
        k > y.at \/ (k = y.at /\ ~y.out) => fate'[m][y.env[k]].relayed < mta'[m].tries
  <2>1. \A k \in 1 .. Len(x.env) : k > x.at => fate[m][x.env[k]].relayed < mta[m].tries
    BY <1>1 DEF FreshAs
  <2>2. \A k \in 1 .. Len(x.env) : k > x.at => x.env[k] # Slot(s)
    BY <1>3, <1>4, <1>7
  <2> QED BY <1>0, <1>1, <1>2, <1>5, <2>1, <2>2
<1>10. FreshAs(y, mta'[m], fate'[m])
  <2>1. /\ \A k \in 1 .. Len(y.env) : y.env[k] \notin mta'[m].bounced
        /\ \A j, k \in 1 .. Len(y.env) : y.env[j] = y.env[k] => j = k
    BY <1>0, <1>1, <1>2 DEF FreshAs
  <2> QED BY <1>0, <1>2, <1>8, <1>9, <2>1 DEF FreshAs
<1>11. Fresh'
  BY <1>0, <1>2, <1>6, <1>10, OneFresh DEF CopiesInv
<1>12. FateOf(s).relayed < mta[m].tries /\ FateOf(s).stored < mta[m].tries
  BY <1>0, <1>1, <1>3, <1>4, SMTT(30) DEF FreshAs, FateOf
<1>13. f.stored <= mta[m].tries /\ f.relayed <= mta[m].tries
  BY <1>1, <1>4, <1>5, <1>12 DEF MtaRecord, FateRecord
<1>14. CopiesOnlyByRetry'
  BY <1>0, <1>5, <1>13 DEF CopiesInv, CopiesOnlyByRetry
<1>15. BouncedOK'
  BY <1>0 DEF CopiesInv, BouncedOK
<1> QED BY <1>11, <1>14, <1>15 DEF CopiesInv

LEMMA CopiesStep == Inv /\ CustodyInv /\ CopiesInv /\ [Next]_vars => CopiesInv'
<1> SUFFICES ASSUME Inv, CustodyInv, CopiesInv, [Next]_vars PROVE CopiesInv'
  OBVIOUS
<1>0. Kept /\ Alone
  BY DEF CustodyInv
<1>1. CASE UNCHANGED <<session, mta, fate>>
  BY <1>1 DEF CopiesInv, Fresh, SessionFresh, BouncedOK, CopiesOnlyByRetry
<1>2. CASE Owner
  <2>1. UNCHANGED <<session, mta, fate>>
    BY <1>2 DEF Owner, FlagAlias, DeleteAlias, ExpireAlias, PatchAlias, VerifyTarget,
       DeleteTarget, AddTarget, DeleteMailbox, SetRule, NewMailbox, Entitle, Edit
  <2> QED BY <1>1, <2>1
<1>3. CASE Crash
  <2>1. \A s \in Sessions : session'[s].pc = "idle"
    BY <1>3 DEF Crash, Idle
  <2>2. fate' = fate
    BY <1>3 DEF Crash
  <2>3. \A m \in Mail : mta'[m].tries = mta[m].tries /\ mta'[m].bounced = mta[m].bounced
    BY <1>3 DEF Crash, Inv, FlowTyped, MtaRecord
  <2> QED BY <2>1, <2>2, <2>3 DEF CopiesInv, Fresh, SessionFresh, BouncedOK, CopiesOnlyByRetry
<1>4. ASSUME NEW s \in Sessions, Handle(s) \/ Dialogue(s) PROVE CopiesInv'
  BY <1>0, <1>4, TransactionKinds, OfferFresh, TakesFresh, ReturnsFresh, EndedFresh,
     ContinuesFresh, DoneFresh, RelayTakesFresh
<1> QED BY <1>1, <1>2, <1>3, <1>4 DEF Next, vars, EventAges

LEMMA CopiesInit == Init => CopiesInv
  BY DEF Init, CopiesInv, Fresh, SessionFresh, Idle, BouncedOK, CopiesOnlyByRetry, NoFate

\* A recipient is copied once per attempt at most, of each kind: a retry of the
\* whole message is the only way to a second copy (smtp.ts, ingest.ts).
THEOREM OneCopyPerAttempt == Spec => []CopiesOnlyByRetry
<1>1. CopiesInv => CopiesOnlyByRetry
  BY DEF CopiesInv
<1> QED BY <1>1, CopiesInit, CopiesStep, CustodyInit, CustodyStep, TypesInvariant, PTL DEF Spec
-----------------------------------------------------------------------------
(* The state of Custody, as Delivery's C substitutes it.                   *)

holderV == [m \in Mail |-> mta[m].state]
triesV == [m \in Mail |-> mta[m].tries]
returnedV == [m \in Mail |-> mta[m].bounced]
copiesV ==
  [m \in Mail |-> [i \in 1 .. Len(m.rcpts) |-> [k \in {"stored", "relayed"} |-> fate[m][i][k]]]]
refusedV == [m \in Mail |-> {i \in 1 .. Len(m.rcpts) : fate[m][i].refused}]

\* A step that Custody does not see.
LEMMA Unseen ==
  ASSUME UNCHANGED <<holderV, triesV, returnedV, copiesV, refusedV>>
  PROVE  UNCHANGED C!vars
  BY DEF holderV, triesV, returnedV, copiesV, refusedV, C!vars

LEMMA SameMta ==
  ASSUME UNCHANGED mta
  PROVE  UNCHANGED <<holderV, triesV, returnedV>>
  BY DEF holderV, triesV, returnedV

LEMMA SameFate ==
  ASSUME UNCHANGED fate
  PROVE  UNCHANGED <<copiesV, refusedV>>
  BY DEF copiesV, refusedV

\* The fate of recipient j of message n is now f.
LEMMA OneFate ==
  ASSUME Inv, NEW n \in Mail, NEW j \in 1 .. Len(n.rcpts), NEW f \in FateRecord,
         \A m \in Mail : \A i \in Slots :
           fate'[m][i] = IF m = n /\ i = j THEN f ELSE fate[m][i]
  PROVE  /\ f.stored = fate[n][j].stored /\ f.relayed = fate[n][j].relayed
            => copiesV' = copiesV
         /\ f.stored = fate[n][j].stored + 1 /\ f.relayed = fate[n][j].relayed
            => copiesV' = [copiesV EXCEPT ![n][j]["stored"] = @ + 1]
         /\ f.stored = fate[n][j].stored /\ f.relayed = fate[n][j].relayed + 1
            => copiesV' = [copiesV EXCEPT ![n][j]["relayed"] = @ + 1]
         /\ f.refused = fate[n][j].refused => refusedV' = refusedV
         /\ f.refused => refusedV' = [refusedV EXCEPT ![n] = @ \cup {j}]
<1> DEFINE K == {"stored", "relayed"}
           cell(g) == [k \in K |-> g[k]]
           row(m) == [i \in 1 .. Len(m.rcpts) |-> cell(fate[m][i])]
           rowN == [i \in 1 .. Len(n.rcpts) |-> IF i = j THEN cell(f) ELSE cell(fate[n][i])]
<1>1. \A m \in Mail : \A i \in 1 .. Len(m.rcpts) :
        /\ i \in Slots
        /\ fate'[m][i] = IF m = n /\ i = j THEN f ELSE fate[m][i]
  BY RcptType
<1>2. copiesV = [m \in Mail |-> row(m)]
  BY DEF copiesV
<1>3. copiesV' = [m \in Mail |-> IF m = n THEN rowN ELSE row(m)]
  <2>1. \A m \in Mail : [i \in 1 .. Len(m.rcpts) |-> cell(fate'[m][i])] = IF m = n THEN rowN ELSE row(m)
    <3>1. ASSUME NEW m \in Mail, NEW i \in 1 .. Len(m.rcpts)
          PROVE  cell(fate'[m][i]) = IF m = n /\ i = j THEN cell(f) ELSE cell(fate[m][i])
      <4> HIDE DEF cell
      <4> QED BY <1>1
    <3> HIDE DEF cell
    <3> QED BY <3>1
  <2>2. copiesV' = [m \in Mail |-> [i \in 1 .. Len(m.rcpts) |-> cell(fate'[m][i])]]
    BY DEF copiesV
  <2> HIDE DEF cell, row, rowN
  <2> QED BY <2>1, <2>2
<1>4. rowN = [row(n) EXCEPT ![j] = cell(f)]
  <2> HIDE DEF cell
  <2> QED OBVIOUS
<1>5. copiesV' = [copiesV EXCEPT ![n] = rowN]
  <2> HIDE DEF cell, row, rowN
  <2> QED BY <1>2, <1>3
<1>6. copiesV[n] = row(n) /\ row(n)[j] = cell(fate[n][j])
  <2>1. copiesV[n] = row(n)
    <3> HIDE DEF cell, row, rowN
    <3> QED BY <1>2
  <2> HIDE DEF cell
  <2> QED BY <2>1
<1>7. /\ cell(f)["stored"] = f.stored /\ cell(f)["relayed"] = f.relayed
      /\ cell(fate[n][j])["stored"] = fate[n][j].stored
      /\ cell(fate[n][j])["relayed"] = fate[n][j].relayed
  OBVIOUS
<1>8. f.stored = fate[n][j].stored /\ f.relayed = fate[n][j].relayed => copiesV' = copiesV
  <2> SUFFICES ASSUME f.stored = fate[n][j].stored /\ f.relayed = fate[n][j].relayed
               PROVE  copiesV' = copiesV
    OBVIOUS
  <2>1. cell(f) = cell(fate[n][j])
    OBVIOUS
  <2>2. rowN = row(n)
    <3> HIDE DEF cell
    <3> QED BY <2>1
  <2> HIDE DEF cell, row, rowN
  <2> QED BY <1>2, <1>3, <2>2
<1>9. f.stored = fate[n][j].stored + 1 /\ f.relayed = fate[n][j].relayed
      => copiesV' = [copiesV EXCEPT ![n][j]["stored"] = @ + 1]
  <2> SUFFICES ASSUME f.stored = fate[n][j].stored + 1 /\ f.relayed = fate[n][j].relayed
               PROVE  copiesV' = [copiesV EXCEPT ![n][j]["stored"] = @ + 1]
    OBVIOUS
  <2>1. cell(f) = [cell(fate[n][j]) EXCEPT !["stored"] = @ + 1]
    OBVIOUS
  <2> HIDE DEF cell, row, rowN
  <2> QED BY <1>4, <1>5, <1>6, <2>1
<1>10. f.stored = fate[n][j].stored /\ f.relayed = fate[n][j].relayed + 1
       => copiesV' = [copiesV EXCEPT ![n][j]["relayed"] = @ + 1]
  <2> SUFFICES ASSUME f.stored = fate[n][j].stored /\ f.relayed = fate[n][j].relayed + 1
               PROVE  copiesV' = [copiesV EXCEPT ![n][j]["relayed"] = @ + 1]
    OBVIOUS
  <2>1. cell(f) = [cell(fate[n][j]) EXCEPT !["relayed"] = @ + 1]
    OBVIOUS
  <2> HIDE DEF cell, row, rowN
  <2> QED BY <1>4, <1>5, <1>6, <2>1
<1>11. f.refused = fate[n][j].refused => refusedV' = refusedV
  BY <1>1 DEF refusedV
<1>12. f.refused => refusedV' = [refusedV EXCEPT ![n] = @ \cup {j}]
  <2> DEFINE now(m) == {i \in 1 .. Len(m.rcpts) : fate[m][i].refused}
             next(m) == {i \in 1 .. Len(m.rcpts) : fate'[m][i].refused}
  <2> SUFFICES ASSUME f.refused PROVE refusedV' = [refusedV EXCEPT ![n] = @ \cup {j}]
    OBVIOUS
  <2>1. \A m \in Mail : m # n => next(m) = now(m)
    BY <1>1
  <2>2. next(n) = now(n) \cup {j}
    BY <1>1
  <2>3. refusedV = [m \in Mail |-> now(m)] /\ refusedV' = [m \in Mail |-> next(m)]
    BY DEF refusedV
  <2> HIDE DEF now, next
  <2> QED BY <2>1, <2>2, <2>3
<1> HIDE DEF K, cell, row, rowN
<1> QED BY <1>8, <1>9, <1>10, <1>11, <1>12

LEMMA Finds ==
  ASSUME Inv, Kept, CopiesInv, NEW s \in Sessions, session[s].pc # "idle",
         session[s].at <= Len(session[s].env)
  PROVE  LET m == session[s].mail
             i == Slot(s)
         IN  /\ m \in Mail /\ i \in 1 .. Len(m.rcpts) /\ i \in Slots
             /\ holderV[m] = "open" /\ i \notin returnedV[m] /\ triesV[m] = mta[m].tries
             /\ copiesV[m][i]["stored"] = FateOf(s).stored
             /\ copiesV[m][i]["relayed"] = FateOf(s).relayed
             /\ FateOf(s).stored < mta[m].tries
             /\ ~session[s].out => FateOf(s).relayed < mta[m].tries
<1> DEFINE m == session[s].mail
           i == Slot(s)
<1>1. /\ session[s] \in SessionState /\ m \in Mail /\ mta[m].state = "open"
      /\ FreshAs(session[s], mta[m], fate[m])
  BY OpenFacts DEF CopiesInv
<1>2. i \in 1 .. Len(m.rcpts) /\ i \in Slots
  BY CurrentType
<1>3. session[s].at \in 1 .. Len(session[s].env) /\ session[s].at \in Nat
  BY <1>1 DEF SessionState
<1>4. i \notin mta[m].bounced /\ fate[m][i].stored < mta[m].tries
  BY <1>1, <1>3 DEF FreshAs, Slot
<1>5. ~session[s].out => fate[m][i].relayed < mta[m].tries
  BY <1>1, <1>3 DEF FreshAs, Slot
<1>6. /\ holderV[m] = "open" /\ returnedV[m] = mta[m].bounced /\ triesV[m] = mta[m].tries
  BY <1>1 DEF holderV, returnedV, triesV
<1>7. copiesV[m][i] = [k \in {"stored", "relayed"} |-> fate[m][i][k]]
  <2> DEFINE cell(n, j) == [k \in {"stored", "relayed"} |-> fate[n][j][k]]
  <2>1. copiesV = [n \in Mail |-> [j \in 1 .. Len(n.rcpts) |-> cell(n, j)]]
    BY DEF copiesV
  <2> HIDE DEF cell
  <2>2. copiesV[m][i] = cell(m, i)
    BY <1>1, <1>2, <2>1
  <2> QED BY <2>2 DEF cell
<1>8. copiesV[m][i]["stored"] = fate[m][i].stored /\ copiesV[m][i]["relayed"] = fate[m][i].relayed
  BY <1>7
<1> QED BY <1>1, <1>2, <1>4, <1>5, <1>6, <1>8 DEF FateOf
-----------------------------------------------------------------------------
(* Each kind is a step of Custody, or one that Custody does not see.       *)

LEMMA OfferOpens ==
  ASSUME Inv, NEW s \in Sessions, NEW m \in Mail, Offer(s, m)
  PROVE  C!Open(m)
<1>1. mta[m] \in MtaRecord /\ mta[m].state = "queued" /\ mta[m].tries < MaxTries /\ fate' = fate
  BY DEF Offer, Inv, FlowTyped
<1>2. /\ mta'[m].state = "open" /\ mta'[m].tries = mta[m].tries + 1
      /\ mta'[m].bounced = mta[m].bounced
      /\ \A n \in Mail : n # m => mta'[n] = mta[n]
  BY <1>1 DEF Offer, Inv, FlowTyped, MtaRecord
<1>3. holderV' = [holderV EXCEPT ![m] = "open"] /\ triesV' = [triesV EXCEPT ![m] = @ + 1]
  BY <1>2 DEF holderV, triesV
<1>4. returnedV' = returnedV
  BY <1>2 DEF returnedV
<1>5. UNCHANGED <<copiesV, refusedV>>
  BY <1>1, SameFate
<1>6. holderV[m] = "queued" /\ triesV[m] < MaxTries
  BY <1>1 DEF holderV, triesV
<1> QED
  BY <1>3, <1>4, <1>5, <1>6 DEF C!Open, holderV, triesV, returnedV, copiesV, refusedV

LEMMA ReturnsReturn ==
  ASSUME Inv, Kept, Fresh, NEW s \in Sessions, NEW i \in Slots, Returns(s, i)
  PROVE  C!Return(session[s].mail, i)
<1> DEFINE m == session[s].mail
<1>1. m \in Mail /\ mta[m] \in MtaRecord /\ mta[m].state = "open" /\ fate' = fate
  BY OpenFacts DEF Returns
<1>2. /\ mta'[m].state = mta[m].state /\ mta'[m].tries = mta[m].tries
      /\ mta'[m].bounced = mta[m].bounced \cup {i}
      /\ \A n \in Mail : n # m => mta'[n] = mta[n]
  BY <1>1 DEF Returns, Inv, FlowTyped, MtaRecord
<1>3. holderV' = holderV /\ triesV' = triesV
  BY <1>2 DEF holderV, triesV
<1>4. returnedV' = [returnedV EXCEPT ![m] = @ \cup {i}]
  BY <1>1, <1>2 DEF returnedV
<1>5. UNCHANGED <<copiesV, refusedV>>
  BY <1>1, SameFate
<1>6. holderV[m] = "open"
  BY <1>1 DEF holderV
<1> QED
  BY <1>3, <1>4, <1>5, <1>6 DEF C!Return, holderV, triesV, returnedV, copiesV, refusedV

\* What the loop has served is served for Custody.
LEMMA ServedPart ==
  ASSUME Inv, NEW m \in Mail, NEW i \in 1 .. Len(m.rcpts), NEW off,
         ServedAs(m.rcpts[i], fate[m][i], off)
  PROVE  C!Served(m, i)
<1>1. \/ fate[m][i].stored > 0 \/ fate[m][i].relayed > 0 \/ fate[m][i].refused
  BY DEF ServedAs
<1>2. CASE fate[m][i].refused
  BY <1>2 DEF C!Served
<1>3. CASE fate[m][i].stored > 0 \/ fate[m][i].relayed > 0
  <2> DEFINE cell(n, j) == [k \in {"stored", "relayed"} |-> fate[n][j][k]]
  <2>1. copiesV = [n \in Mail |-> [j \in 1 .. Len(n.rcpts) |-> cell(n, j)]]
    BY DEF copiesV
  <2> HIDE DEF cell
  <2>2. copiesV[m][i] = cell(m, i)
    BY <2>1
  <2>3. copiesV[m][i]["stored"] > 0 \/ copiesV[m][i]["relayed"] > 0
    BY <1>3, <2>2 DEF cell
  <2>4. \E k \in {"stored", "relayed"} : copiesV[m][i][k] > 0
    BY <2>3
  <2> QED BY <2>4 DEF C!Served, C!CopyKinds, copiesV
<1> QED BY <1>1, <1>2, <1>3

LEMMA EndedAnswers ==
  ASSUME Inv, Kept, CopiesInv, NEW s \in Sessions,
         NEW st \in {"queued", "accepted", "bounced"}, Ended(s, st)
  PROVE  \/ C!Answer(session[s].mail) \/ C!Bounce(session[s].mail)
         \/ C!GiveBack({session[s].mail})
<1> DEFINE m == session[s].mail
           x == session[s]
<1>1. /\ m \in Mail /\ mta[m] \in MtaRecord /\ mta[m].state = "open" /\ fate' = fate
      /\ x \in SessionState /\ x.pc # "idle"
  BY OpenFacts DEF Ended, CopiesInv
<1>2. /\ mta'[m].state = st /\ mta'[m].tries = mta[m].tries /\ mta'[m].bounced = mta[m].bounced
      /\ \A n \in Mail : n # m => mta'[n] = mta[n]
  BY <1>1 DEF Ended, Inv, FlowTyped, MtaRecord
<1>3. triesV' = triesV /\ returnedV' = returnedV
  BY <1>2 DEF triesV, returnedV
<1>4. holderV' = [holderV EXCEPT ![m] = st] /\ holderV[m] = "open"
  BY <1>1, <1>2 DEF holderV
<1>5. UNCHANGED <<copiesV, refusedV>>
  BY <1>1, SameFate
<1>6. KeptAs(x, mta[m], fate[m], past.off)
  BY <1>1 DEF Kept, SessionKept
<1>7. CASE st = "queued"
  <2>1. holderV' = [n \in Mail |-> IF n \in {m} THEN "queued" ELSE holderV[n]]
    BY <1>4, <1>7 DEF holderV
  <2> QED BY <1>3, <1>4, <1>5, <2>1
          DEF C!GiveBack, holderV, triesV, returnedV, copiesV, refusedV
<1>8. CASE st = "accepted"
  <2>1. x.pc = "next" /\ x.at > Len(x.env)
    BY <1>8 DEF Ended
  <2>2. ASSUME NEW i \in 1 .. Len(m.rcpts), i \notin returnedV[m]
        PROVE  C!Served(m, i)
    <3>1. i \notin mta[m].bounced
      BY <1>1, <2>2 DEF returnedV
    <3>2. i < x.offered
      <4>1. x.offered > Len(m.rcpts) /\ x.offered \in Nat /\ Len(m.rcpts) \in Nat
        BY <1>1, <1>6, <2>1, MailType DEF KeptAs, SessionState, Slots
      <4> QED BY <4>1
    <3>3. PICK k \in 1 .. Len(x.env) : x.env[k] = i
      BY <1>6, <3>1, <3>2 DEF KeptAs
    <3>4. k < x.at
      BY <1>1, <2>1 DEF SessionState
    <3>5. ServedAs(m.rcpts[i], fate[m][i], past.off)
      BY <1>6, <3>3, <3>4 DEF KeptAs
    <3> QED BY <1>1, <3>5, ServedPart
  <2>3. \A i \in [n \in Mail |-> 1 .. Len(n.rcpts)][m] \ returnedV[m] : C!Served(m, i)
    BY <1>1, <2>2
  <2> QED BY <1>3, <1>4, <1>5, <1>8, <2>3
          DEF C!Answer, holderV, triesV, returnedV, copiesV, refusedV
<1>9. CASE st = "bounced"
  <2>1. x.pc = "rcpt" /\ x.offered > Len(m.rcpts) /\ x.env = <<>>
    BY <1>9 DEF Ended, RcptsDone
  <2>2. \A i \in 1 .. Len(m.rcpts) : i \in mta[m].bounced
    <3>1. x.offered \in Nat /\ Len(m.rcpts) \in Nat
      BY <1>1, MailType DEF SessionState, Slots
    <3>2. 1 .. Len(x.env) = {}
      BY <2>1
    <3> QED BY <1>6, <2>1, <3>1, <3>2 DEF KeptAs
  <2>3. returnedV[m] = 1 .. Len(m.rcpts)
    BY <1>1, <2>2 DEF returnedV, CopiesInv, BouncedOK
  <2>4. returnedV[m] = [n \in Mail |-> 1 .. Len(n.rcpts)][m]
    BY <1>1, <2>3
  <2> QED BY <1>3, <1>4, <1>5, <1>9, <2>4
          DEF C!Bounce, holderV, triesV, returnedV, copiesV, refusedV
<1> QED BY <1>7, <1>8, <1>9

LEMMA RelayTakesCopies ==
  ASSUME Inv, Kept, CopiesInv, NEW s \in Sessions, RelayTakes(s)
  PROVE  C!Copy(session[s].mail, Slot(s), "relayed")
<1> DEFINE m == session[s].mail
           i == Slot(s)
<1>1. session[s].pc # "idle" /\ session[s].at <= Len(session[s].env) /\ ~session[s].out /\ mta' = mta
  BY DEF RelayTakes, Inv, FlowTyped, SessionsOK, SessionOK, Serving
<1>2. /\ m \in Mail /\ i \in 1 .. Len(m.rcpts)
      /\ holderV[m] = "open" /\ i \notin returnedV[m]
      /\ copiesV[m][i]["relayed"] < triesV[m]
  BY <1>1, Finds
<1>3. PICK f \in FateRecord :
        /\ f.stored = FateOf(s).stored /\ f.relayed = FateOf(s).relayed + 1
        /\ f.refused = FateOf(s).refused
        /\ \A n \in Mail : \A j \in Slots :
             fate'[n][j] = IF n = m /\ j = i THEN f ELSE fate[n][j]
  BY RelayedFate
<1>4. copiesV' = [copiesV EXCEPT ![m][i]["relayed"] = @ + 1] /\ refusedV' = refusedV
  BY <1>2, <1>3, OneFate DEF FateOf
<1>5. UNCHANGED <<holderV, triesV, returnedV>>
  BY <1>1, SameMta
<1> QED BY <1>2, <1>4, <1>5 DEF C!Copy, holderV, triesV, returnedV, copiesV, refusedV

LEMMA DoneCopies ==
  ASSUME Inv, Kept, CopiesInv, NEW s \in Sessions, NEW f \in FateRecord, Done(s, f)
  PROVE  \/ UNCHANGED C!vars
         \/ C!Copy(session[s].mail, Slot(s), "stored")
         \/ C!Refuse(session[s].mail, Slot(s))
<1> DEFINE m == session[s].mail
           i == Slot(s)
<1>1. /\ session[s].pc # "idle" /\ session[s].at <= Len(session[s].env) /\ mta' = mta
      /\ fate' = [fate EXCEPT ![m][i] = f]
  BY DEF Done, Settle
<1>2. /\ m \in Mail /\ i \in 1 .. Len(m.rcpts) /\ i \in Slots
      /\ holderV[m] = "open" /\ i \notin returnedV[m]
      /\ copiesV[m][i]["stored"] < triesV[m]
  BY <1>1, Finds
<1>3. \A n \in Mail : \A j \in Slots :
        fate'[n][j] = IF n = m /\ j = i THEN f ELSE fate[n][j]
  BY <1>1, <1>2 DEF Inv, FlowTyped
<1>4. UNCHANGED <<holderV, triesV, returnedV>>
  BY <1>1, SameMta
<1>5. CASE f.stored = FateOf(s).stored /\ f.relayed = FateOf(s).relayed /\ f.refused = FateOf(s).refused
  <2>1. copiesV' = copiesV /\ refusedV' = refusedV
    BY <1>2, <1>3, <1>5, OneFate DEF FateOf
  <2> QED BY <1>4, <2>1, Unseen
<1>6. CASE f.stored = FateOf(s).stored + 1 /\ f.relayed = FateOf(s).relayed /\ f.refused = FateOf(s).refused
  <2>1. copiesV' = [copiesV EXCEPT ![m][i]["stored"] = @ + 1] /\ refusedV' = refusedV
    BY <1>2, <1>3, <1>6, OneFate DEF FateOf
  <2> QED BY <1>2, <1>4, <2>1 DEF C!Copy, holderV, triesV, returnedV, copiesV, refusedV
<1>7. CASE f.stored = FateOf(s).stored /\ f.relayed = FateOf(s).relayed /\ f.refused
  <2>1. copiesV' = copiesV /\ refusedV' = [refusedV EXCEPT ![m] = @ \cup {i}]
    BY <1>2, <1>3, <1>7, OneFate DEF FateOf
  <2> QED BY <1>2, <1>4, <2>1 DEF C!Refuse, holderV, triesV, returnedV, copiesV, refusedV
<1> QED BY <1>5, <1>6, <1>7 DEF Done

LEMMA TransactionImplements ==
  ASSUME Inv, Kept, CopiesInv, NEW s \in Sessions, Handle(s) \/ Dialogue(s)
  PROVE  [C!Next]_C!vars
<1>1. ASSUME NEW m \in Mail, Offer(s, m) PROVE C!Next
  BY <1>1, OfferOpens DEF C!Next
<1>2. ASSUME NEW i \in Slots, Takes(s, i) PROVE UNCHANGED C!vars
  BY <1>2, SameMta, SameFate, Unseen DEF Takes
<1>3. ASSUME NEW i \in Slots, Returns(s, i) PROVE C!Next
  <2>1. session[s].mail \in Mail /\ i \in 1 .. Len(session[s].mail.rcpts)
    BY <1>3, OpenFacts DEF Returns, CopiesInv
  <2>2. C!Return(session[s].mail, i)
    BY <1>3, ReturnsReturn DEF CopiesInv
  <2>3. i \in [m \in Mail |-> 1 .. Len(m.rcpts)][session[s].mail]
    BY <2>1
  <2> QED BY <2>1, <2>2, <2>3 DEF C!Next
<1>4. ASSUME NEW st \in {"queued", "accepted", "bounced"}, Ended(s, st) PROVE C!Next
  <2>1. session[s].mail \in Mail
    BY <1>4, OpenFacts DEF Ended, CopiesInv
  <2>2. {session[s].mail} \in SUBSET Mail
    BY <2>1
  <2>3. C!Answer(session[s].mail) \/ C!Bounce(session[s].mail) \/ C!GiveBack({session[s].mail})
    BY <1>4, EndedAnswers
  <2> QED BY <2>1, <2>2, <2>3 DEF C!Next, C!Answer, C!Bounce, C!GiveBack
<1>5. ASSUME NEW y, Continues(s, y) PROVE UNCHANGED C!vars
  BY <1>5, SameMta, SameFate, Unseen DEF Continues
<1>6. ASSUME session[s].pc # "idle", session[s].at <= Len(session[s].env)
      PROVE  /\ session[s].mail \in Mail
             /\ Slot(s) \in [m \in Mail |-> 1 .. Len(m.rcpts)][session[s].mail]
  BY <1>6, CurrentType
<1>7. ASSUME NEW f \in FateRecord, Done(s, f) PROVE [C!Next]_C!vars
  <2>1. session[s].mail \in Mail /\ Slot(s) \in [m \in Mail |-> 1 .. Len(m.rcpts)][session[s].mail]
    BY <1>6, <1>7 DEF Done
  <2>2. "stored" \in C!CopyKinds
    BY DEF C!CopyKinds
  <2> QED BY <1>7, <2>1, <2>2, DoneCopies DEF C!Next, C!Copy, C!Refuse
<1>8. ASSUME RelayTakes(s) PROVE C!Next
  <2>1. session[s].mail \in Mail /\ Slot(s) \in [m \in Mail |-> 1 .. Len(m.rcpts)][session[s].mail]
    BY <1>6, <1>8 DEF RelayTakes, Inv, FlowTyped, SessionsOK, SessionOK, Serving
  <2>2. "relayed" \in C!CopyKinds
    BY DEF C!CopyKinds
  <2> QED BY <1>8, <2>1, <2>2, RelayTakesCopies DEF C!Next, C!Copy
<1> QED BY <1>1, <1>2, <1>3, <1>4, <1>5, <1>7, <1>8, TransactionKinds

LEMMA CrashGivesBack ==
  ASSUME Inv, Crash
  PROVE  C!Next
<1> DEFINE ms == {m \in Mail : mta[m].state = "open"}
<1>1. /\ \A m \in Mail : mta'[m].state = IF m \in ms THEN "queued" ELSE mta[m].state
      /\ \A m \in Mail : mta'[m].tries = mta[m].tries /\ mta'[m].bounced = mta[m].bounced
  BY DEF Crash, Inv, FlowTyped, MtaRecord
<1>2. /\ holderV' = [m \in Mail |-> IF m \in ms THEN "queued" ELSE holderV[m]]
      /\ \A m \in ms : holderV[m] = "open"
  BY <1>1 DEF holderV
<1>3. triesV' = triesV /\ returnedV' = returnedV
  BY <1>1 DEF triesV, returnedV
<1>4. UNCHANGED <<copiesV, refusedV>>
  BY SameFate DEF Crash
<1>5. C!GiveBack(ms)
  BY <1>2, <1>3, <1>4 DEF C!GiveBack, holderV, triesV, returnedV, copiesV, refusedV
<1>6. ms \in SUBSET Mail
  OBVIOUS
<1> HIDE DEF ms
<1> QED BY <1>5, <1>6 DEF C!Next, C!GiveBack

LEMMA StepImplements ==
  Inv /\ CustodyInv /\ CopiesInv /\ [Next]_vars => [C!Next]_C!vars
<1> SUFFICES ASSUME Inv, CustodyInv, CopiesInv, [Next]_vars PROVE [C!Next]_C!vars
  OBVIOUS
<1>1. CASE UNCHANGED <<mta, fate>>
  BY <1>1, SameMta, SameFate, Unseen
<1>2. CASE Owner
  <2>1. UNCHANGED <<mta, fate>>
    BY <1>2 DEF Owner, FlagAlias, DeleteAlias, ExpireAlias, PatchAlias, VerifyTarget,
       DeleteTarget, AddTarget, DeleteMailbox, SetRule, NewMailbox, Entitle, Edit
  <2> QED BY <1>1, <2>1
<1>3. CASE Crash
  BY <1>3, CrashGivesBack
<1>4. ASSUME NEW s \in Sessions, Handle(s) \/ Dialogue(s) PROVE [C!Next]_C!vars
  BY <1>4, TransactionImplements DEF CustodyInv
<1>5. CASE (\E k \in Kinds : EventAges(k)) \/ UNCHANGED vars
  <2>1. UNCHANGED <<mta, fate>>
    BY <1>5 DEF EventAges, vars
  <2> QED BY <1>1, <2>1
<1> QED BY <1>2, <1>3, <1>4, <1>5 DEF Next

LEMMA InitImplements == Init => C!Init
<1> SUFFICES ASSUME Init PROVE C!Init
  OBVIOUS
<1>1. \A m \in Mail : mta[m].state = "queued" /\ mta[m].tries = 0 /\ mta[m].bounced = {}
  BY DEF Init
<1>2. \A m \in Mail : \A i \in 1 .. Len(m.rcpts) : i \in Slots /\ fate[m][i] = NoFate
  BY RcptType DEF Init
<1>3. NoFate.stored = 0 /\ NoFate.relayed = 0 /\ NoFate.refused = FALSE
  BY DEF NoFate
<1>4. holderV = [m \in Mail |-> "queued"] /\ triesV = [m \in Mail |-> 0] /\ returnedV = [m \in Mail |-> {}]
  BY <1>1 DEF holderV, triesV, returnedV
<1>5. refusedV = [m \in Mail |-> {}]
  BY <1>2, <1>3 DEF refusedV
<1>6. copiesV = [m \in Mail |-> [i \in 1 .. Len(m.rcpts) |-> [k \in {"stored", "relayed"} |-> 0]]]
  <2>1. \A m \in Mail : \A i \in 1 .. Len(m.rcpts) : \A k \in {"stored", "relayed"} : fate[m][i][k] = 0
    BY <1>2, <1>3
  <2> QED BY <2>1 DEF copiesV
<1> QED
  BY <1>4, <1>5, <1>6 DEF C!Init, C!CopyKinds, holderV, triesV, returnedV, copiesV, refusedV

\* The handlers of smtp.ts, ingest.ts and forwarding.ts implement the promise of a
\* mail server: whatever the interleaving of awaits, edits, relay errors and
\* crashes, each step they make is one Custody allows, or one it does not see.
THEOREM HandlersImplementCustody == Spec => ImplementsCustody
<1>1. Init => C!Init
  BY InitImplements
<1>2. Inv /\ CustodyInv /\ CopiesInv /\ [Next]_vars => [C!Next]_C!vars
  BY StepImplements
<1> QED
  BY <1>1, <1>2, CopiesInit, CopiesStep, CustodyInit, CustodyStep, TypesInvariant, PTL
  DEF Spec, ImplementsCustody, C!Spec
-----------------------------------------------------------------------------
\* A step of the owner or the clock leaves every transaction alone.
LEMMA OwnerOutside ==
  ASSUME Owner
  PROVE  UNCHANGED <<outbound, session, mta, fate>>
  BY DEF Owner, FlagAlias, DeleteAlias, ExpireAlias, PatchAlias, VerifyTarget, DeleteTarget,
     AddTarget, DeleteMailbox, SetRule, NewMailbox, Entitle, Edit
-----------------------------------------------------------------------------
(* Reverse aliases and the alias rows they belong to.                      *)

LEMMA ReverseKeptByRow ==
  ASSUME Inv, ReverseHasAlias, NEW a \in Aliases, NEW row \in AliasRow, SetAlias(a, row)
  PROVE  ReverseHasAlias'
<1>1. row # None
  BY ConstantsOK
<1>2. \A x \in Aliases : alias'[x] = IF x = a THEN row ELSE alias[x]
  BY DEF SetAlias, Inv, TablesTyped
<1>3. reverse' = reverse /\ reverse \subseteq Aliases \X Emails
  BY DEF SetAlias, Inv, TablesTyped
<1> QED BY <1>1, <1>2, <1>3 DEF ReverseHasAlias

\* Forward is the only handler that writes the table, and it has just read the
\* alias row again through the foreign key.
LEMMA ReverseKeptByHandlers ==
  ASSUME Inv, ReverseHasAlias, NEW s \in Sessions, Handle(s) \/ Dialogue(s)
  PROVE  ReverseHasAlias'
<1>1. CASE Forward(s)
  <2>1. alias[Current(s).addr] # None /\ alias' = alias
    BY <1>1 DEF Forward, CanForward, tables
  <2>2. \A r \in reverse' : r \in reverse \/ r[1] = Current(s).addr
    BY <1>1 DEF Forward, Minted
  <2> QED BY <2>1, <2>2 DEF ReverseHasAlias
<1>2. CASE ~Forward(s)
  <2>1. UNCHANGED <<alias, reverse>>
    BY <1>2 DEF Handle, Accept, Unknown, Resolve, StoreParsed, RelayTakes, Forwarded,
       ForwardFails, ReplyRefused, ReplyStart, ReplyChecked, Replied, ReplyFails,
       Dialogue, Offer, RcptTo, Abandon, Data, tables
  <2> QED BY <2>1 DEF ReverseHasAlias
<1> QED BY <1>1, <1>2

LEMMA ReverseKeptByOwner ==
  ASSUME Inv, ReverseHasAlias, Owner
  PROVE  ReverseHasAlias'
<1>0. reverse \subseteq Aliases \X Emails /\ alias \in [Aliases -> AliasRow \cup {None}]
  BY DEF Inv, TablesTyped
<1>1. ASSUME NEW a \in Aliases, FlagAlias(a) PROVE ReverseHasAlias'
  <2>1. alias[a] \in AliasRow
    BY <1>0, <1>1 DEF FlagAlias
  <2>2. [alias[a] EXCEPT !.abused = ~@] \in AliasRow
    BY <2>1 DEF AliasRow
  <2> QED BY <1>1, <2>2, ReverseKeptByRow DEF FlagAlias
<1>2. ASSUME NEW a \in Aliases, ExpireAlias(a) PROVE ReverseHasAlias'
  <2>1. alias[a] \in AliasRow
    BY <1>0, <1>2 DEF ExpireAlias
  <2>2. [alias[a] EXCEPT !.expired = TRUE] \in AliasRow
    BY <2>1 DEF AliasRow
  <2> QED BY <1>2, <2>2, ReverseKeptByRow DEF ExpireAlias
<1>3. ASSUME NEW a \in Aliases, NEW md \in Modes, NEW t \in TargetIds \cup {None},
             PatchAlias(a, md, t)
      PROVE  ReverseHasAlias'
  <2>1. alias[a] \in AliasRow
    BY <1>0, <1>3 DEF PatchAlias
  <2>2. [alias[a] EXCEPT !.mode = md, !.target = t] \in AliasRow
    BY <2>1 DEF AliasRow
  <2> QED BY <1>3, <2>2, ReverseKeptByRow DEF PatchAlias
<1>4. ASSUME NEW a \in Aliases, DeleteAlias(a) PROVE ReverseHasAlias'
  <2>1. \A x \in Aliases : x # a => alias'[x] = alias[x]
    BY <1>0, <1>4 DEF DeleteAlias
  <2>2. \A r \in reverse' : r \in reverse /\ r[1] # a /\ r[1] \in Aliases
    BY <1>0, <1>4 DEF DeleteAlias
  <2> QED BY <2>1, <2>2 DEF ReverseHasAlias
<1>5. ASSUME NEW t \in TargetIds, DeleteTarget(t) PROVE ReverseHasAlias'
  <2>1. ASSUME NEW x \in Aliases, alias[x] # None PROVE alias'[x] # None
    <3>1. alias[x] \in AliasRow
      BY <1>0, <2>1
    <3>2. [alias[x] EXCEPT !.target = None] \in AliasRow
      BY <3>1 DEF AliasRow
    <3> QED BY <1>5, <2>1, <3>2, ConstantsOK DEF DeleteTarget
  <2>2. reverse' = reverse
    BY <1>5 DEF DeleteTarget
  <2> QED BY <1>0, <2>1, <2>2 DEF ReverseHasAlias
<1>6. ASSUME NEW b \in BoxIds, DeleteMailbox(b) PROVE ReverseHasAlias'
  <2> DEFINE gone == {a \in Aliases : alias[a] # None /\ alias[a].box = b}
  <2>1. \A x \in Aliases : x \notin gone => alias'[x] = alias[x]
    BY <1>6 DEF DeleteMailbox
  <2>2. \A r \in reverse' : r \in reverse /\ r[1] \notin gone /\ r[1] \in Aliases
    BY <1>0, <1>6 DEF DeleteMailbox
  <2> QED BY <2>1, <2>2 DEF ReverseHasAlias
<1>7. CASE UNCHANGED <<alias, reverse>>
  BY <1>7 DEF ReverseHasAlias
<1> QED
  BY <1>1, <1>2, <1>3, <1>4, <1>5, <1>6, <1>7
  DEF Owner, VerifyTarget, AddTarget, SetRule, NewMailbox, Entitle

\* Reverse aliases never outlive their alias, although a handler that read the
\* row before its awaits creates them after (forwarding.ts, db.ts foreign keys).
THEOREM ReverseAliasesOwned == Spec => []ReverseHasAlias
<1>1. Init => ReverseHasAlias
  BY DatabasesOK DEF Init, Boot, ReverseHasAlias
<1>2. Inv /\ ReverseHasAlias /\ [Next]_vars => ReverseHasAlias'
  <2> SUFFICES ASSUME Inv, ReverseHasAlias, [Next]_vars PROVE ReverseHasAlias'
    OBVIOUS
  <2>1. CASE UNCHANGED vars
    BY <2>1 DEF vars, tables, ReverseHasAlias
  <2>2. CASE Crash \/ \E k \in Kinds : EventAges(k)
    BY <2>2 DEF Crash, EventAges, tables, ReverseHasAlias
  <2> QED BY <2>1, <2>2, ReverseKeptByHandlers, ReverseKeptByOwner DEF Next
<1> QED BY <1>1, <1>2, TypesInvariant, PTL DEF Spec
-----------------------------------------------------------------------------
(* Where the steps of a transaction lead.                                  *)

\* Where a transaction is after it has dealt with its recipient or gave up.
LEMMA Leaves ==
  ASSUME Inv, NEW s \in Sessions,
         \/ Defer(s)
         \/ \E f \in FateRecord : Settle(s, f)
         \/ Refuse(s) \/ Store(s)
  PROVE  \E x : x.pc \in {"idle", "next"} /\ session' = [session EXCEPT ![s] = x]
<1>1. Idle.pc = "idle"
  BY DEF Idle
<1>2. Advance(s).pc = "next"
  BY DEF Advance, Inv, FlowTyped, SessionState
<1>3. session' = [session EXCEPT ![s] = Idle] \/ session' = [session EXCEPT ![s] = Advance(s)]
  BY DEF Defer, Settle, Refuse, Store
<1> QED BY <1>1, <1>2, <1>3

\* The phases in which nothing has been decided about a copy leaving the server.
Undecided == {"idle", "rcpt", "next", "parsing"}

LEMMA Moves ==
  ASSUME Inv, NEW s \in Sessions, Handle(s) \/ Dialogue(s)
  PROVE  \E x : /\ session' = [session EXCEPT ![s] = x]
                /\ \/ x.pc \in Undecided
                   \/ Forward(s) /\ x.pc = "relaying"
                   \/ ReplyStart(s) /\ x.pc = "verifying"
                   \/ ReplyChecked(s) /\ x.pc = "replying"
                   \/ RelayTakes(s) /\ x.pc = session[s].pc
<1> USE DEF Undecided
<1>0. session[s] \in SessionState
  BY DEF Inv, FlowTyped
<1>1. CASE Defer(s) \/ Refuse(s) \/ Store(s) \/ \E f \in FateRecord : Settle(s, f)
  BY <1>1, Leaves
<1>2. CASE Accept(s) \/ Abandon(s)
  <2>1. session' = [session EXCEPT ![s] = Idle] /\ Idle.pc = "idle"
    BY <1>2 DEF Accept, Abandon, Idle
  <2> QED BY <2>1
<1>3. CASE \E m \in Mail : Offer(s, m)
  <2>1. PICK m \in Mail : Offer(s, m)
    BY <1>3
  <2>2. [Idle EXCEPT !.pc = "rcpt", !.mail = m, !.offered = 1].pc = "rcpt"
    BY DEF Idle
  <2> QED BY <2>1, <2>2 DEF Offer
<1>4. CASE RcptTo(s)
  <2> DEFINE i == session[s].offered
             y == [session[s] EXCEPT !.env = Append(@, i), !.offered = i + 1]
             z == [session[s] EXCEPT !.offered = i + 1]
  <2>1. y.pc = "rcpt" /\ z.pc = "rcpt"
    BY <1>0, <1>4 DEF RcptTo, SessionState
  <2>2. \/ session' = [session EXCEPT ![s] = y]
        \/ session' = [session EXCEPT ![s] = z]
    BY <1>4 DEF RcptTo, Inv, FlowTyped
  <2> HIDE DEF y, z
  <2> QED BY <2>1, <2>2
<1>5. CASE session' = [session EXCEPT ![s].pc = "next"]
  <2> DEFINE y == [session[s] EXCEPT !.pc = "next"]
  <2>1. y.pc = "next" /\ session' = [session EXCEPT ![s] = y]
    BY <1>0, <1>5 DEF SessionState, Inv, FlowTyped
  <2> QED BY <2>1
<1>6. CASE Resolve(s)
  <2>1. PICK b, row : session' = [session EXCEPT ![s].pc = "parsing", ![s].box = b, ![s].row = row]
    BY <1>6 DEF Resolve
  <2> DEFINE y == [session[s] EXCEPT !.pc = "parsing", !.box = b, !.row = row]
  <2>2. y.pc = "parsing" /\ session' = [session EXCEPT ![s] = y]
    BY <1>0, <2>1 DEF SessionState, Inv, FlowTyped
  <2> QED BY <2>2
<1>7. CASE RelayTakes(s)
  <2> DEFINE y == [session[s] EXCEPT !.out = TRUE]
  <2>1. y.pc = session[s].pc /\ session' = [session EXCEPT ![s] = y]
    BY <1>0, <1>7 DEF RelayTakes, SessionState, Inv, FlowTyped
  <2> HIDE DEF y
  <2> QED BY <1>7, <2>1
<1>8. CASE ReplyStart(s)
  <2> DEFINE y == [session[s] EXCEPT !.pc = "verifying", !.to = OwnerOf(Current(s).addr)]
  <2>1. y.pc = "verifying" /\ session' = [session EXCEPT ![s] = y]
    BY <1>0, <1>8 DEF ReplyStart, SessionState, Inv, FlowTyped
  <2> HIDE DEF y
  <2> QED BY <1>8, <2>1
<1>9. CASE ReplyChecked(s) /\ ~Refuse(s)
  <2> DEFINE y == [session[s] EXCEPT !.pc = "replying", !.to = Current(s).contact]
  <2>1. y.pc = "replying" /\ session' = [session EXCEPT ![s] = y]
    BY <1>0, <1>9 DEF ReplyChecked, SessionState, Inv, FlowTyped
  <2> HIDE DEF y
  <2> QED BY <1>9, <2>1
<1>10. CASE Replied(s) \/ (Forwarded(s) /\ ~Store(s))
  <2>1. session[s].at <= Len(session[s].env) /\ session[s].pc # "idle"
    BY <1>10 DEF Replied, Forwarded, Inv, FlowTyped, SessionsOK, SessionOK, Serving
  <2>2. FateOf(s) \in FateRecord
    BY <2>1, CurrentType
  <2> QED BY <1>1, <1>10, <2>2 DEF Replied, Forwarded
<1>11. CASE Forward(s)
  <2> DEFINE y == [session[s] EXCEPT !.pc = "relaying",
                                     !.to = target[session[s].row.target].email]
  <2>1. y.pc = "relaying" /\ session' = [session EXCEPT ![s] = y]
    BY <1>0, <1>11 DEF Forward, SessionState, Inv, FlowTyped
  <2> QED BY <1>11, <2>1
<1>12. CASE Data(s)
  BY <1>1, <1>5, <1>12 DEF Data
<1> QED
  BY <1>1, <1>2, <1>3, <1>4, <1>5, <1>6, <1>7, <1>8, <1>9, <1>10, <1>11, <1>12
  DEF Handle, Dialogue, Unknown, StoreParsed, ForwardFails, ReplyRefused, ReplyFails
-----------------------------------------------------------------------------
(* The hourly limit of forwards.                                           *)

\* The transactions whose forward is at the relay: each passed the check of the
\* limit and has not been counted yet.
Relaying == {s \in Sessions : session[s].pc = "relaying"}

\* What the limit really bounds: the events recorded and those about to be.
\* ForwardsBounded alone is not inductive, because it says nothing of the latter.
ForwardsInFlight ==
  outbound["forward"] + Cardinality(Relaying) <= ForwardMax + Cardinality(Sessions) - 1

LEMMA RelayingFinite ==
  /\ IsFiniteSet(Relaying) /\ Cardinality(Relaying) \in Nat
  /\ Cardinality(Relaying) <= Cardinality(Sessions)
  /\ Cardinality(Sessions) \in Nat
<1>1. IsFiniteSet(Sessions) /\ Relaying \subseteq Sessions
  BY ConstantsOK DEF Relaying
<1> QED BY <1>1, FS_Subset, FS_CardinalityType

\* No transaction starts to relay, and no forward is recorded.
LEMMA NoneRelays ==
  ASSUME Inv, ForwardsInFlight, outbound' \in [Kinds -> Nat],
         outbound'["forward"] <= outbound["forward"],
         \A s \in Sessions : session'[s].pc = "relaying" => session[s].pc = "relaying"
  PROVE  ForwardsInFlight'
<1>1. Relaying' \subseteq Relaying
  BY DEF Relaying
<1>2. Cardinality(Relaying') \in Nat /\ Cardinality(Relaying') <= Cardinality(Relaying)
  BY <1>1, RelayingFinite, FS_Subset, FS_CardinalityType
<1>3. outbound["forward"] \in Nat /\ outbound'["forward"] \in Nat /\ ForwardMax \in Nat
  BY ConstantsOK DEF Inv, FlowTyped, Kinds
<1> QED BY <1>2, <1>3, RelayingFinite DEF ForwardsInFlight

\* One transaction moves on, and not to the relay.
LEMMA OneLeaves ==
  ASSUME Inv, NEW s \in Sessions, NEW x, session' = [session EXCEPT ![s] = x],
         x.pc = "relaying" => session[s].pc = "relaying"
  PROVE  \A t \in Sessions : session'[t].pc = "relaying" => session[t].pc = "relaying"
  BY DEF Inv, FlowTyped

LEMMA OneAtTheRelayLess ==
  ASSUME Inv, ForwardsInFlight, NEW s \in Sessions, session[s].pc = "relaying",
         NEW x, session' = [session EXCEPT ![s] = x], x.pc # "relaying",
         outbound' = [outbound EXCEPT !["forward"] = @ + 1]
  PROVE  ForwardsInFlight'
<1>1. Relaying' = Relaying \ {s} /\ s \in Relaying
  BY DEF Relaying, Inv, FlowTyped
<1>2. Cardinality(Relaying') = Cardinality(Relaying) - 1
  BY <1>1, RelayingFinite, FS_RemoveElement
<1>3. outbound["forward"] \in Nat /\ outbound'["forward"] = outbound["forward"] + 1
  BY DEF Inv, FlowTyped, Kinds
<1> QED BY <1>2, <1>3, RelayingFinite, ConstantsOK DEF ForwardsInFlight

\* Every step of a transaction but Forward and Forwarded.
LEMMA StepsAside ==
  ASSUME Inv, ForwardsInFlight, NEW s \in Sessions, Handle(s) \/ Dialogue(s),
         ~Forward(s), ~Forwarded(s)
  PROVE  ForwardsInFlight'
<1>0. session[s] \in SessionState /\ outbound \in [Kinds -> Nat]
  BY DEF Inv, FlowTyped
<1>1. PICK x : /\ x.pc = "relaying" => session[s].pc = "relaying"
               /\ session' = [session EXCEPT ![s] = x]
  BY Moves DEF Undecided, ReplyStart, ReplyChecked
<1>2. \A t \in Sessions : session'[t].pc = "relaying" => session[t].pc = "relaying"
  BY <1>1, OneLeaves
<1>3. outbound' \in [Kinds -> Nat] /\ outbound'["forward"] <= outbound["forward"]
  <2>1. CASE Replied(s)
    BY <1>0, <2>1 DEF Replied, Kinds
  <2>2. CASE ~Replied(s)
    <3>1. outbound' = outbound
      BY <2>2 DEF Handle, Accept, Unknown, Resolve, StoreParsed, RelayTakes, ForwardFails,
         ReplyRefused, ReplyStart, ReplyChecked, ReplyFails, Dialogue, Offer, RcptTo, Abandon, Data
    <3> QED BY <1>0, <3>1 DEF Kinds
  <2> QED BY <2>1, <2>2
<1> QED BY <1>2, <1>3, NoneRelays

\* The hourly forward limit is overshot by at most one forward per concurrent
\* transaction: it is read before the relay and recorded after it (forwarding.ts).
THEOREM ForwardLimitHolds == Spec => []ForwardsBounded
<1>1. Init => ForwardsInFlight
  <2> SUFFICES ASSUME Init PROVE ForwardsInFlight
    OBVIOUS
  <2>1. Relaying = {} /\ outbound["forward"] = 0
    BY DEF Init, Relaying, Idle, Kinds
  <2>2. Cardinality(Relaying) = 0 /\ Cardinality(Sessions) > 0
    BY <2>1, ConstantsOK, FS_EmptySet, RelayingFinite
  <2> QED BY <2>1, <2>2, RelayingFinite, ConstantsOK DEF ForwardsInFlight
<1>2. Inv /\ ForwardsInFlight /\ [Next]_vars => ForwardsInFlight'
  <2> SUFFICES ASSUME Inv, ForwardsInFlight, [Next]_vars PROVE ForwardsInFlight'
    OBVIOUS
  <2>1. CASE UNCHANGED <<outbound, session>>
    BY <2>1 DEF ForwardsInFlight, Relaying
  <2>2. ASSUME NEW s \in Sessions, Forward(s) PROVE ForwardsInFlight'
    <3>1. outbound' = outbound /\ outbound["forward"] < ForwardMax
      BY <2>2 DEF Forward, CanForward
    <3>2. Relaying' \subseteq Sessions
      BY DEF Relaying
    <3>3. Cardinality(Relaying') \in Nat /\ Cardinality(Relaying') <= Cardinality(Sessions)
      BY <3>2, ConstantsOK, FS_Subset, FS_CardinalityType
    <3>4. outbound["forward"] \in Nat
      BY DEF Inv, FlowTyped, Kinds
    <3> QED BY <3>1, <3>3, <3>4, RelayingFinite, ConstantsOK DEF ForwardsInFlight
  <2>3. ASSUME NEW s \in Sessions, Forwarded(s) PROVE ForwardsInFlight'
    <3>1. session[s].at <= Len(session[s].env) /\ session[s].pc = "relaying"
      BY <2>3 DEF Forwarded, Inv, FlowTyped, SessionsOK, SessionOK, Serving
    <3>2. FateOf(s) \in FateRecord
      BY <3>1, CurrentType
    <3>3. PICK x : x.pc \in {"idle", "next"} /\ session' = [session EXCEPT ![s] = x]
      BY <2>3, <3>2, Leaves DEF Forwarded
    <3> QED BY <2>3, <3>1, <3>3, OneAtTheRelayLess DEF Forwarded
  <2>4. CASE Crash
    <3>1. \A s \in Sessions : session'[s].pc = "idle"
      BY <2>4 DEF Crash, Idle
    <3>2. outbound' = outbound /\ outbound["forward"] \in Nat
      BY <2>4 DEF Crash, Inv, FlowTyped, Kinds
    <3>3. outbound' \in [Kinds -> Nat] /\ outbound'["forward"] <= outbound["forward"]
      BY <3>2 DEF Inv, FlowTyped
    <3> QED BY <3>1, <3>3, NoneRelays
  <2>5. ASSUME NEW k \in Kinds, EventAges(k) PROVE ForwardsInFlight'
    <3>1. outbound[k] - 1 \in Nat /\ outbound \in [Kinds -> Nat]
      BY <2>5 DEF EventAges, Inv, FlowTyped
    <3>2. outbound' \in [Kinds -> Nat] /\ outbound'["forward"] <= outbound["forward"]
      BY <2>5, <3>1 DEF EventAges, Kinds
    <3> QED BY <2>5, <3>2, NoneRelays DEF EventAges
  <2> QED BY <2>1, <2>2, <2>3, <2>4, <2>5, StepsAside, OwnerOutside DEF Next, vars
<1>3. Inv /\ ForwardsInFlight => ForwardsBounded
  <2> SUFFICES ASSUME Inv, ForwardsInFlight PROVE ForwardsBounded
    OBVIOUS
  <2>1. outbound["forward"] \in Nat
    BY DEF Inv, FlowTyped, Kinds
  <2> QED BY <2>1, RelayingFinite, ConstantsOK DEF ForwardsInFlight, ForwardsBounded
<1> QED BY <1>1, <1>2, <1>3, TypesInvariant, PTL DEF Spec
-----------------------------------------------------------------------------
(* What leaves the server.                                                 *)

\* What was checked before the awaits, of the transaction x, still counts when the
\* relay takes its message: the history p has it.
AskedAs(x, p) ==
  LET r == x.mail.rcpts[x.env[x.at]]
  IN  /\ x.pc = "relaying" =>
           /\ r.kind = "alias" /\ x.to \in p.verified /\ x.mail.from \in p.trusted
           /\ ~x.mail.dmarcFail /\ ~x.mail.looped
      /\ x.pc = "verifying" => r.kind = "reverse" /\ <<r.addr, x.to>> \in p.owners
      /\ x.pc = "replying" =>
           /\ r.kind = "reverse" /\ x.to = r.contact
           /\ x.mail.authentic /\ <<r.addr, x.mail.from>> \in p.owners

Asked == \A s \in Sessions : AskedAs(session[s], past)

\* What the tables allow now has been recorded as allowed.
AllowedRemembered ==
  /\ \A i \in BoxIds : whitelist[i] \subseteq past.trusted
  /\ \A t \in TargetIds : Verified(t) => target[t].email \in past.verified
  /\ \A a \in Aliases : OwnerOf(a) # None => <<a, OwnerOf(a)>> \in past.owners

\* A recipient whose copy no relay has taken has been sent nowhere.
NowhereYet ==
  \A m \in Mail : \A i \in Slots : fate[m][i].relayed = 0 => fate[m][i].to = {}

OutboundInv == Asked /\ AllowedRemembered /\ NowhereYet /\ OutboundOnlyAsAsked

PastGrows ==
  /\ past.off \subseteq past'.off /\ past.trusted \subseteq past'.trusted
  /\ past.verified \subseteq past'.verified /\ past.owners \subseteq past'.owners

LEMMA EditRecords ==
  ASSUME Inv, Inv', Edit
  PROVE  AllowedRemembered' /\ PastGrows
<1>1. /\ past'.trusted = past.trusted \cup UNION {whitelist'[i] : i \in BoxIds}
      /\ past'.verified = past.verified
           \cup {target'[i].email : i \in {j \in TargetIds : target'[j] # None /\ target'[j].verified}}
      /\ past'.owners = past.owners \cup
           {<<x, target'[alias'[x].target].email>> :
              x \in {y \in Aliases : /\ alias'[y] # None /\ alias'[y].target # None
                                     /\ target'[alias'[y].target] # None
                                     /\ target'[alias'[y].target].verified}}
      /\ past.off \subseteq past'.off
  BY DEF Edit, Remembered
<1>2. \A i \in BoxIds : whitelist'[i] \subseteq past'.trusted
  BY <1>1
<1>3. ASSUME NEW t \in TargetIds, Verified(t)'
      PROVE  target'[t].email \in past'.verified
  BY <1>1, <1>3 DEF Verified
<1>4. ASSUME NEW a \in Aliases, OwnerOf(a)' # None
      PROVE  <<a, OwnerOf(a)'>> \in past'.owners
  <2>1. /\ alias'[a] # None /\ alias'[a].target # None
        /\ target'[alias'[a].target] # None /\ target'[alias'[a].target].verified
        /\ OwnerOf(a)' = target'[alias'[a].target].email
    BY <1>4 DEF OwnerOf, Verified
  <2> QED BY <1>1, <2>1
<1>5. PastGrows
  BY <1>1 DEF PastGrows
<1> QED BY <1>2, <1>3, <1>4, <1>5 DEF AllowedRemembered

LEMMA AskedForever ==
  ASSUME Asked, PastGrows, UNCHANGED session
  PROVE  Asked'
  BY DEF Asked, AskedAs, PastGrows

\* Fates that did not change as far as the relays go.
LEMMA SameRelays ==
  ASSUME Inv, Inv', NowhereYet, OutboundOnlyAsAsked, PastGrows,
         \A m \in Mail : \A i \in Slots : /\ fate'[m][i].relayed = fate[m][i].relayed
                                          /\ fate'[m][i].to = fate[m][i].to
  PROVE  NowhereYet' /\ OutboundOnlyAsAsked'
<1>1. NowhereYet'
  BY DEF NowhereYet
<1>2. \A m \in Mail : \A i \in 1 .. Len(m.rcpts) : i \in Slots
  BY RcptType
<1>3. OutboundOnlyAsAsked'
  BY <1>2 DEF OutboundOnlyAsAsked, PastGrows
<1> QED BY <1>1, <1>3

\* Every kind of step but RelayTakes leaves the relays alone: Settle is only ever
\* called with a fate that has the same relays.
LEMMA RelaysKept ==
  ASSUME Inv, NEW s \in Sessions, Handle(s) \/ Dialogue(s), ~RelayTakes(s)
  PROVE  \A m \in Mail : \A i \in Slots : /\ fate'[m][i].relayed = fate[m][i].relayed
                                          /\ fate'[m][i].to = fate[m][i].to
<1>1. CASE UNCHANGED fate
  BY <1>1
<1>2. ASSUME NEW f \in FateRecord, Settle(s, f), session[s].pc # "idle",
             session[s].at <= Len(session[s].env),
             f.relayed = FateOf(s).relayed, f.to = FateOf(s).to
      PROVE  \A m \in Mail : \A i \in Slots : /\ fate'[m][i].relayed = fate[m][i].relayed
                                              /\ fate'[m][i].to = fate[m][i].to
  <2>1. session[s].mail \in Mail /\ Slot(s) \in Slots
    BY <1>2, CurrentType
  <2>2. \A m \in Mail : \A i \in Slots :
          fate'[m][i] = IF m = session[s].mail /\ i = Slot(s) THEN f ELSE fate[m][i]
    BY <1>2, <2>1 DEF Settle, Inv, FlowTyped
  <2> QED BY <1>2, <2>2 DEF FateOf
<1>3. ASSUME Refuse(s), session[s].pc # "idle", session[s].at <= Len(session[s].env)
      PROVE  \A m \in Mail : \A i \in Slots : /\ fate'[m][i].relayed = fate[m][i].relayed
                                              /\ fate'[m][i].to = fate[m][i].to
  <2> DEFINE f == [FateOf(s) EXCEPT !.refused = TRUE]
  <2>1. FateOf(s) \in FateRecord
    BY <1>3, CurrentType
  <2>2. f \in FateRecord /\ f.relayed = FateOf(s).relayed /\ f.to = FateOf(s).to /\ Settle(s, f)
    BY <1>3, <2>1 DEF FateRecord, Refuse
  <2> HIDE DEF f
  <2> QED BY <1>2, <1>3, <2>2
<1>4. ASSUME Store(s), session[s].pc \in {"parsing", "relaying"}
      PROVE  \A m \in Mail : \A i \in Slots : /\ fate'[m][i].relayed = fate[m][i].relayed
                                              /\ fate'[m][i].to = fate[m][i].to
  <2>1. /\ session[s].pc # "idle" /\ session[s].at <= Len(session[s].env)
        /\ session[s].box \in BoxIds
    BY <1>4 DEF Inv, FlowTyped, SessionsOK, SessionOK, Serving
  <2>2. CASE box[session[s].box] # None
    <3> DEFINE f == [FateOf(s) EXCEPT !.stored = @ + 1, !.homes = @ \cup {box[session[s].box]}]
    <3>1. box[session[s].box] \in Homes /\ FateOf(s) \in FateRecord
      BY <2>1, <2>2, CurrentType DEF Inv, TablesTyped
    <3>2. FateOf(s).stored + 1 \in Nat /\ FateOf(s).homes \cup {box[session[s].box]} \in SUBSET Homes
      BY <3>1 DEF FateRecord
    <3>3. f \in FateRecord /\ f.relayed = FateOf(s).relayed /\ f.to = FateOf(s).to
      BY <3>1, <3>2 DEF FateRecord
    <3>4. Settle(s, f)
      BY <1>4, <2>2 DEF Store
    <3> HIDE DEF f
    <3> QED BY <1>2, <2>1, <3>3, <3>4
  <2>3. CASE box[session[s].box] = None
    BY <1>1, <1>4, <2>3 DEF Store
  <2> QED BY <2>2, <2>3
<1>5. ASSUME Settle(s, FateOf(s)), session[s].pc \in {"relaying", "replying"}
      PROVE  \A m \in Mail : \A i \in Slots : /\ fate'[m][i].relayed = fate[m][i].relayed
                                              /\ fate'[m][i].to = fate[m][i].to
  <2>1. session[s].pc # "idle" /\ session[s].at <= Len(session[s].env)
    BY <1>5 DEF Inv, FlowTyped, SessionsOK, SessionOK, Serving
  <2> QED BY <1>2, <1>5, <2>1, CurrentType
<1>6. CASE Unknown(s) \/ ReplyRefused(s)
  BY <1>3, <1>6 DEF Unknown, ReplyRefused, HasRcpt
<1>7. CASE ReplyChecked(s)
  <2>1. session[s].pc # "idle" /\ session[s].at <= Len(session[s].env)
    BY <1>7 DEF ReplyChecked, Inv, FlowTyped, SessionsOK, SessionOK, Serving
  <2> QED BY <1>1, <1>3, <1>7, <2>1 DEF ReplyChecked
<1>8. CASE StoreParsed(s) \/ ForwardFails(s)
  BY <1>4, <1>8 DEF StoreParsed, ForwardFails
<1>9. CASE Forwarded(s) \/ Replied(s)
  BY <1>4, <1>5, <1>9 DEF Forwarded, Replied
<1> QED
  BY <1>1, <1>6, <1>7, <1>8, <1>9
  DEF Handle, Accept, Resolve, Forward, ReplyStart, ReplyFails, Dialogue, Offer, RcptTo, Abandon, Data

\* The relay takes the copy of a transaction that was asked to send it.
LEMMA RelayAsked ==
  ASSUME Inv, Inv', OutboundInv, PastGrows, NEW s \in Sessions, RelayTakes(s)
  PROVE  NowhereYet' /\ OutboundOnlyAsAsked'
<1> DEFINE m == session[s].mail
           j == Slot(s)
<1>1. /\ session[s].pc \in {"relaying", "replying"} /\ session[s].at <= Len(session[s].env)
      /\ session[s].pc # "idle"
  BY DEF RelayTakes, Inv, FlowTyped, SessionsOK, SessionOK, Serving
<1>2. m \in Mail /\ j \in 1 .. Len(m.rcpts) /\ j \in Slots /\ FateOf(s) \in FateRecord
  BY <1>1, CurrentType
<1>3. PICK f \in FateRecord :
        /\ f.relayed = FateOf(s).relayed + 1 /\ f.to = FateOf(s).to \cup {session[s].to}
        /\ \A n \in Mail : \A i \in Slots :
             fate'[n][i] = IF n = m /\ i = j THEN f ELSE fate[n][i]
  BY RelayedFate
<1>4. AskedAs(session[s], past)
  BY DEF OutboundInv, Asked
<1>5. FateOf(s).relayed \in Nat /\ f.relayed > 0
  BY <1>2, <1>3 DEF FateRecord
<1>6. FateOf(s).relayed = 0 => FateOf(s).to = {}
  BY <1>2 DEF OutboundInv, NowhereYet, FateOf
<1>7. NowhereYet'
  BY <1>3, <1>5 DEF OutboundInv, NowhereYet
<1> DEFINE asked(n, i, g, p) ==
             \/ /\ n.rcpts[i].kind = "alias" /\ g.to \subseteq p.verified /\ n.from \in p.trusted
                /\ ~n.dmarcFail /\ ~n.looped
             \/ /\ n.rcpts[i].kind = "reverse" /\ g.to = {n.rcpts[i].contact}
                /\ n.authentic /\ <<n.rcpts[i].addr, n.from>> \in p.owners
<1>8. FateOf(s).relayed > 0 => asked(m, j, FateOf(s), past)
  BY <1>2 DEF OutboundInv, OutboundOnlyAsAsked, FateOf
<1>9. asked(m, j, f, past')
  <2>1. CASE session[s].pc = "relaying"
    <3>1. /\ m.rcpts[j].kind = "alias" /\ session[s].to \in past.verified /\ m.from \in past.trusted
          /\ ~m.dmarcFail /\ ~m.looped
      BY <1>4, <2>1 DEF AskedAs, Slot
    <3>2. FateOf(s).to \subseteq past.verified
      BY <1>5, <1>6, <1>8, <3>1
    <3> QED BY <1>3, <3>1, <3>2 DEF PastGrows
  <2>2. CASE session[s].pc = "replying"
    <3>1. /\ m.rcpts[j].kind = "reverse" /\ session[s].to = m.rcpts[j].contact
          /\ m.authentic /\ <<m.rcpts[j].addr, m.from>> \in past.owners
      BY <1>4, <2>2 DEF AskedAs, Slot
    <3>2. FateOf(s).to \subseteq {m.rcpts[j].contact}
      BY <1>5, <1>6, <1>8, <3>1
    <3>3. f.to = {m.rcpts[j].contact}
      BY <1>3, <3>1, <3>2
    <3> QED BY <3>1, <3>3 DEF PastGrows
  <2> QED BY <1>1, <2>1, <2>2
<1>10. ASSUME NEW n \in Mail, NEW i \in 1 .. Len(n.rcpts), fate'[n][i].relayed > 0
       PROVE  asked(n, i, fate'[n][i], past')
  <2>0. i \in Slots
    BY RcptType
  <2>1. CASE n = m /\ i = j
    <3>1. fate'[n][i] = f
      BY <1>3, <2>0, <2>1
    <3> HIDE DEF asked
    <3> QED BY <1>9, <2>1, <3>1
  <2>2. CASE ~(n = m /\ i = j)
    <3>1. fate'[n][i] = fate[n][i]
      BY <1>3, <2>0, <2>2
    <3>2. asked(n, i, fate[n][i], past)
      BY <1>10, <3>1 DEF OutboundInv, OutboundOnlyAsAsked
    <3> QED BY <3>1, <3>2 DEF PastGrows
  <2> QED BY <2>1, <2>2
<1>11. OutboundOnlyAsAsked'
  BY <1>10 DEF OutboundOnlyAsAsked
<1> QED BY <1>7, <1>11

\* The three steps that decide to let something leave.
LEMMA DecisionAsked ==
  ASSUME Inv, OutboundInv, NEW s \in Sessions, NEW x, session' = [session EXCEPT ![s] = x],
         \/ Forward(s) /\ x.pc = "relaying"
         \/ ReplyStart(s) /\ x.pc = "verifying"
         \/ ReplyChecked(s) /\ x.pc = "replying"
         \/ RelayTakes(s)
  PROVE  AskedAs(x, past)
<1>0. /\ session[s] \in SessionState /\ SessionOK(session[s]) /\ session'[s] = x
      /\ session \in [Sessions -> SessionState]
  BY DEF Inv, FlowTyped, SessionsOK
<1>1. AskedAs(session[s], past)
  BY DEF OutboundInv, Asked
<1>2. CASE Forward(s)
  <2> DEFINE y == [session[s] EXCEPT !.pc = "relaying",
                                     !.to = target[session[s].row.target].email]
  <2>1. session' = [session EXCEPT ![s] = y] /\ x = y
    BY <1>0, <1>2 DEF Forward
  <2>2. /\ x.pc = "relaying" /\ x.mail = session[s].mail /\ x.env = session[s].env
        /\ x.at = session[s].at /\ x.to = target[session[s].row.target].email
    BY <1>0, <2>1 DEF SessionState
  <2>3. /\ session[s].pc = "parsing" /\ session[s].row # None
        /\ session[s].mail.from \in whitelist[session[s].box]
        /\ ~session[s].mail.dmarcFail /\ ~session[s].mail.looped
        /\ Verified(session[s].row.target)
    BY <1>2 DEF Forward, CanForward, WantsForward
  <2>4. session[s].row \in AliasRow /\ session[s].box \in BoxIds
    BY <1>0, <2>3 DEF SessionState, SessionOK
  <2>5. session[s].row.target \in TargetIds
    BY <2>3, <2>4 DEF AliasRow, Verified
  <2>6. x.to \in past.verified /\ x.mail.from \in past.trusted
    BY <2>2, <2>3, <2>4, <2>5 DEF OutboundInv, AllowedRemembered
  <2>7. session[s].mail.rcpts[session[s].env[session[s].at]].kind = "alias"
    BY <1>0, <2>3 DEF SessionOK
  <2> QED BY <2>2, <2>3, <2>6, <2>7 DEF AskedAs
<1>3. CASE ReplyStart(s)
  <2> DEFINE y == [session[s] EXCEPT !.pc = "verifying", !.to = OwnerOf(Current(s).addr)]
  <2>1. session' = [session EXCEPT ![s] = y] /\ x = y
    BY <1>0, <1>3 DEF ReplyStart
  <2>2. /\ x.pc = "verifying" /\ x.mail = session[s].mail /\ x.env = session[s].env
        /\ x.at = session[s].at /\ x.to = OwnerOf(Current(s).addr)
    BY <1>0, <2>1 DEF SessionState
  <2>3. /\ Current(s).kind = "reverse" /\ OwnerOf(Current(s).addr) # None
        /\ Current(s).addr \in Aliases
    BY <1>3, CurrentType DEF ReplyStart, HasRcpt
  <2>4. <<Current(s).addr, x.to>> \in past.owners
    BY <2>2, <2>3 DEF OutboundInv, AllowedRemembered
  <2>5. x.mail.rcpts[x.env[x.at]] = Current(s)
    BY <2>2 DEF Current, Slot
  <2> QED BY <2>2, <2>3, <2>4, <2>5 DEF AskedAs
<1>4. CASE ReplyChecked(s) /\ x.pc = "replying"
  <2> DEFINE y == [session[s] EXCEPT !.pc = "replying", !.to = Current(s).contact]
  <2>0. ~Refuse(s)
    <3>1. Advance(s).pc = "next"
      BY <1>0 DEF Advance, SessionState
    <3> QED BY <1>0, <1>4, <3>1 DEF Refuse, Settle
  <2>1. session' = [session EXCEPT ![s] = y] /\ x = y
    BY <1>0, <1>4, <2>0 DEF ReplyChecked
  <2>2. /\ x.pc = "replying" /\ x.mail = session[s].mail /\ x.env = session[s].env
        /\ x.at = session[s].at /\ x.to = Current(s).contact
    BY <1>0, <2>1 DEF SessionState
  <2>3. /\ session[s].pc = "verifying" /\ session[s].mail.from = session[s].to
        /\ session[s].mail.authentic
    BY <1>4, <2>0 DEF ReplyChecked
  <2>4. Current(s).kind = "reverse" /\ <<Current(s).addr, session[s].mail.from>> \in past.owners
    BY <1>1, <2>3 DEF AskedAs, Current, Slot
  <2>5. x.mail.rcpts[x.env[x.at]] = Current(s)
    BY <2>2 DEF Current, Slot
  <2> QED BY <2>2, <2>3, <2>4, <2>5 DEF AskedAs
<1>5. CASE RelayTakes(s)
  <2> DEFINE y == [session[s] EXCEPT !.out = TRUE]
  <2>1. session' = [session EXCEPT ![s] = y] /\ x = y
    BY <1>0, <1>5 DEF RelayTakes
  <2>2. /\ x.pc = session[s].pc /\ x.mail = session[s].mail /\ x.env = session[s].env
        /\ x.at = session[s].at /\ x.to = session[s].to
    BY <1>0, <2>1 DEF SessionState
  <2> QED BY <1>1, <2>2 DEF AskedAs
<1> QED BY <1>2, <1>3, <1>4, <1>5

LEMMA TransactionAsked ==
  ASSUME Inv, Inv', OutboundInv, NEW s \in Sessions, Handle(s) \/ Dialogue(s)
  PROVE  OutboundInv'
<1>1. UNCHANGED <<tables, past>>
  BY DEF Handle, Accept, Unknown, Resolve, Forward, StoreParsed, RelayTakes, Forwarded,
     ForwardFails, ReplyRefused, ReplyStart, ReplyChecked, Replied, ReplyFails,
     Dialogue, Offer, RcptTo, Abandon, Data
<1>2. PastGrows
  BY <1>1 DEF PastGrows
<1>3. AllowedRemembered'
  BY <1>1 DEF OutboundInv, AllowedRemembered, tables, Verified, OwnerOf
<1>4. NowhereYet' /\ OutboundOnlyAsAsked'
  BY <1>2, RelaysKept, SameRelays, RelayAsked DEF OutboundInv
<1>5. Asked'
  <2>1. PICK x : /\ session' = [session EXCEPT ![s] = x]
                 /\ \/ x.pc \in Undecided
                    \/ Forward(s) /\ x.pc = "relaying"
                    \/ ReplyStart(s) /\ x.pc = "verifying"
                    \/ ReplyChecked(s) /\ x.pc = "replying"
                    \/ RelayTakes(s) /\ x.pc = session[s].pc
    BY Moves
  <2>2. AskedAs(x, past)
    <3>1. CASE x.pc \in Undecided
      BY <3>1 DEF Undecided, AskedAs
    <3>2. CASE x.pc \notin Undecided
      BY <2>1, <3>2, DecisionAsked
    <3> QED BY <3>1, <3>2
  <2>3. \A t \in Sessions : session'[t] = IF t = s THEN x ELSE session[t]
    BY <2>1 DEF Inv, FlowTyped
  <2> QED BY <1>1, <2>2, <2>3 DEF OutboundInv, Asked
<1> QED BY <1>3, <1>4, <1>5 DEF OutboundInv

LEMMA OutboundInit == Init => OutboundInv
<1> SUFFICES ASSUME Init PROVE OutboundInv
  OBVIOUS
<1>1. Asked
  BY DEF Init, Asked, AskedAs, Idle
<1>2. AllowedRemembered
  BY DEF Init, Boot, Remembered, AllowedRemembered, Verified, OwnerOf
<1>3. \A m \in Mail : \A i \in Slots : fate[m][i].relayed = 0 /\ fate[m][i].to = {}
  BY DEF Init, NoFate
<1>4. \A m \in Mail : \A i \in 1 .. Len(m.rcpts) : i \in Slots
  BY RcptType
<1>5. OutboundOnlyAsAsked
  BY <1>3, <1>4 DEF OutboundOnlyAsAsked
<1> QED BY <1>1, <1>2, <1>3, <1>5 DEF OutboundInv, NowhereYet

LEMMA OutboundStep == Inv /\ OutboundInv /\ [Next]_vars => OutboundInv'
<1> SUFFICES ASSUME Inv, OutboundInv, [Next]_vars PROVE OutboundInv'
  OBVIOUS
<1>0. Inv'
  BY NextTypes
<1>1. CASE Owner
  <2>1. Edit
    BY <1>1 DEF Owner, FlagAlias, DeleteAlias, ExpireAlias, PatchAlias, VerifyTarget,
       DeleteTarget, AddTarget, DeleteMailbox, SetRule, NewMailbox, Entitle
  <2>2. AllowedRemembered' /\ PastGrows
    BY <1>0, <2>1, EditRecords
  <2>3. NowhereYet' /\ OutboundOnlyAsAsked'
    BY <1>0, <2>1, <2>2, SameRelays DEF Edit, OutboundInv
  <2> QED BY <2>1, <2>2, <2>3, AskedForever DEF Edit, OutboundInv
<1>2. CASE UNCHANGED <<tables, past, fate, session>>
  BY <1>2 DEF tables, OutboundInv, Asked, AllowedRemembered, NowhereYet, OutboundOnlyAsAsked,
     Verified, OwnerOf
<1>3. CASE Crash
  <2>1. \A s \in Sessions : session'[s].pc = "idle"
    BY <1>3 DEF Crash, Idle
  <2>2. Asked'
    BY <2>1 DEF Asked, AskedAs
  <2>3. UNCHANGED <<tables, past, fate>>
    BY <1>3 DEF Crash
  <2> QED BY <2>2, <2>3 DEF tables, OutboundInv, AllowedRemembered, NowhereYet,
             OutboundOnlyAsAsked, Verified, OwnerOf
<1> QED BY <1>0, <1>1, <1>2, <1>3, TransactionAsked DEF Next, vars, EventAges

\* Nothing leaves the server but what its owner asked for (forwarding.ts): a forward
\* to an inbox the account once verified, from a trusted sender; a reply of the
\* authenticated owner to the contact of the reverse alias.
THEOREM NothingElseLeaves == Spec => []OutboundOnlyAsAsked
<1>1. OutboundInv => OutboundOnlyAsAsked
  BY DEF OutboundInv
<1> QED BY <1>1, OutboundInit, OutboundStep, TypesInvariant, PTL DEF Spec
-----------------------------------------------------------------------------
(* The hourly limit of replies.                                            *)

AllLive == past.off \cap Aliases = {}

\* The replies that the transactions past the check of the limit may still send.
Owed ==
  {p \in Sessions \X Slots :
     LET x == session[p[1]]
     IN  /\ x.pc \notin {"idle", "rcpt"}
         /\ \E k \in 1 .. Len(x.env) : k >= x.at /\ x.env[k] = p[2]
         /\ x.mail.rcpts[p[2]].kind = "reverse"}

\* What the limit really bounds: the events recorded and the replies still owed.
\* RepliesBounded says nothing of the latter and is not inductive.
RepliesInFlight ==
  AllLive => outbound["reply"] + Cardinality(Owed)
               <= ReplyMax + Cardinality(Sessions) * MaxRcpts - 1

\* A reverse alias that was accepted as a recipient stays one while no alias is
\* ever switched off: so the check at the end of DATA misses none of them.
EnvelopeKnown ==
  AllLive =>
    \A s \in Sessions : session[s].pc # "idle" =>
      \A k \in 1 .. Len(session[s].env) :
        LET r == session[s].mail.rcpts[session[s].env[k]]
        IN  r.kind = "reverse" => <<r.addr, r.contact>> \in reverse

ReplyInv == RepliesInFlight /\ EnvelopeKnown

LEMMA OwedFinite ==
  ASSUME NEW S \in SUBSET (Sessions \X Slots)
  PROVE  /\ IsFiniteSet(S) /\ Cardinality(S) \in Nat
         /\ Cardinality(S) <= Cardinality(Sessions) * MaxRcpts
         /\ Cardinality(Sessions) * MaxRcpts \in Nat
         /\ \A T \in SUBSET S : Cardinality(T) \in Nat /\ Cardinality(T) <= Cardinality(S)
<1>1. MaxRcpts \in Nat /\ MaxRcpts # 0
  BY ConstantsOK
<1>2. IsFiniteSet(Slots) /\ Cardinality(Slots) = MaxRcpts
  BY <1>1, FS_Interval DEF Slots
<1>3. IsFiniteSet(Sessions \X Slots)
      /\ Cardinality(Sessions \X Slots) = Cardinality(Sessions) * MaxRcpts
  BY <1>2, ConstantsOK, FS_Product
<1>4. IsFiniteSet(S) /\ Cardinality(S) <= Cardinality(Sessions \X Slots)
  BY <1>3, FS_Subset
<1>5. Cardinality(S) \in Nat /\ Cardinality(Sessions \X Slots) \in Nat
  BY <1>3, <1>4, FS_CardinalityType
<1>6. \A T \in SUBSET S : Cardinality(T) \in Nat /\ Cardinality(T) <= Cardinality(S)
  BY <1>4, FS_Subset, FS_CardinalityType
<1> QED BY <1>3, <1>4, <1>5, <1>6

\* No more replies are owed or recorded than before.
LEMMA NoneOwedMore ==
  ASSUME Inv, RepliesInFlight, outbound' \in [Kinds -> Nat],
         outbound'["reply"] <= outbound["reply"], past.off \subseteq past'.off,
         Owed' \subseteq Owed
  PROVE  RepliesInFlight'
<1> SUFFICES ASSUME AllLive'
             PROVE  outbound'["reply"] + Cardinality(Owed')
                      <= ReplyMax + Cardinality(Sessions) * MaxRcpts - 1
  BY DEF RepliesInFlight
<1>1. AllLive
  BY DEF AllLive
<1>2. Owed \in SUBSET (Sessions \X Slots)
  BY DEF Owed
<1>3. /\ Cardinality(Owed') \in Nat /\ Cardinality(Owed) \in Nat
      /\ Cardinality(Owed') <= Cardinality(Owed)
      /\ Cardinality(Sessions) * MaxRcpts \in Nat
  BY <1>2, OwedFinite
<1>4. outbound["reply"] \in Nat /\ outbound'["reply"] \in Nat /\ ReplyMax \in Nat
  BY ConstantsOK DEF Inv, FlowTyped, Kinds
<1> QED BY <1>1, <1>3, <1>4 DEF RepliesInFlight

\* One transaction becomes x and owes nothing it did not owe.
LEMMA OneOwesLess ==
  ASSUME Inv, NEW s \in Sessions, NEW x, session' = [session EXCEPT ![s] = x],
         \/ x.pc \in {"idle", "rcpt"}
         \/ /\ session[s].pc \notin {"idle", "rcpt"}
            /\ x.mail = session[s].mail /\ x.env = session[s].env
            /\ x.at \in Nat /\ x.at >= session[s].at
  PROVE  Owed' \subseteq Owed
<1>1. \A t \in Sessions : session'[t] = IF t = s THEN x ELSE session[t]
  BY DEF Inv, FlowTyped
<1>2. session[s].at \in Nat /\ session[s].env \in Seq(Slots)
  BY DEF Inv, FlowTyped, SessionState
<1> SUFFICES ASSUME NEW t \in Sessions, NEW i \in Slots, <<t, i>> \in Owed'
             PROVE  <<t, i>> \in Owed
  BY DEF Owed
<1>3. CASE t # s
  BY <1>1, <1>3 DEF Owed
<1>4. CASE t = s
  <2>1. /\ x.pc \notin {"idle", "rcpt"} /\ x.mail.rcpts[i].kind = "reverse"
        /\ \E k \in 1 .. Len(x.env) : k >= x.at /\ x.env[k] = i
    BY <1>1, <1>4 DEF Owed
  <2>2. \E k \in 1 .. Len(session[s].env) : k >= session[s].at /\ session[s].env[k] = i
    BY <1>2, <2>1
  <2> QED BY <1>4, <2>1, <2>2 DEF Owed
<1> QED BY <1>3, <1>4

\* Every step of a transaction but Data and Replied.
LEMMA OthersOweLess ==
  ASSUME Inv, RepliesInFlight, NEW s \in Sessions, Handle(s) \/ Dialogue(s), ~Data(s), ~Replied(s)
  PROVE  RepliesInFlight'
<1>0. /\ session[s] \in SessionState /\ session \in [Sessions -> SessionState]
      /\ outbound \in [Kinds -> Nat]
  BY DEF Inv, FlowTyped
<1>1. PICK x : /\ session' = [session EXCEPT ![s] = x]
               /\ \/ x.pc \in {"idle", "rcpt"}
                  \/ /\ session[s].pc \notin {"idle", "rcpt"}
                     /\ x.mail = session[s].mail /\ x.env = session[s].env
                     /\ x.at \in Nat /\ x.at >= session[s].at
  <2>1. CASE session[s].pc = "rcpt"
    <3>1. CASE RcptTo(s)
      <4> DEFINE i == session[s].offered
                 y == [session[s] EXCEPT !.env = Append(@, i), !.offered = i + 1]
                 z == [session[s] EXCEPT !.offered = i + 1]
      <4>1. y.pc = "rcpt" /\ z.pc = "rcpt"
        BY <1>0, <2>1 DEF SessionState
      <4>2. session' = [session EXCEPT ![s] = y] \/ session' = [session EXCEPT ![s] = z]
        BY <1>0, <3>1 DEF RcptTo
      <4> HIDE DEF y, z
      <4> QED BY <4>1, <4>2
    <3>2. CASE Abandon(s)
      <4>1. Idle.pc = "idle" /\ session' = [session EXCEPT ![s] = Idle]
        BY <3>2 DEF Abandon, Idle
      <4> QED BY <4>1
    <3> QED
      BY <2>1, <3>1, <3>2
      DEF Handle, Accept, Unknown, Resolve, Forward, StoreParsed, RelayTakes, Forwarded,
          ForwardFails, ReplyRefused, ReplyStart, ReplyChecked, ReplyFails, HasRcpt,
          Dialogue, Offer
  <2>2. CASE \E m \in Mail : Offer(s, m)
    <3>1. PICK m \in Mail : Offer(s, m)
      BY <2>2
    <3> DEFINE y == [Idle EXCEPT !.pc = "rcpt", !.mail = m, !.offered = 1]
    <3>2. y.pc = "rcpt" /\ session' = [session EXCEPT ![s] = y]
      BY <3>1 DEF Offer, Idle
    <3> HIDE DEF y
    <3> QED BY <3>2
  <2>3. CASE \E st \in {"queued", "accepted", "bounced"} : Ended(s, st)
    <3>1. Idle.pc = "idle" /\ session' = [session EXCEPT ![s] = Idle]
      BY <2>3 DEF Ended, Idle
    <3> QED BY <3>1
  <2>4. CASE session[s].pc # "rcpt" /\ \E y : Continues(s, y)
    <3>1. PICK y : Continues(s, y)
      BY <2>4
    <3>2. y.at \in Nat /\ y.at >= session[s].at
      BY <1>0, <3>1 DEF Continues, SessionState
    <3> QED BY <2>4, <3>1, <3>2 DEF Continues
  <2>5. CASE \E f \in FateRecord : Done(s, f)
    <3>1. session' = [session EXCEPT ![s] = Advance(s)] /\ session[s].pc \notin {"idle", "rcpt"}
      BY <2>5 DEF Done, Settle
    <3>2. /\ Advance(s).mail = session[s].mail /\ Advance(s).env = session[s].env
          /\ Advance(s).at = session[s].at + 1 /\ session[s].at \in Nat
      BY <1>0 DEF Advance, SessionState
    <3>3. Advance(s).at \in Nat /\ Advance(s).at >= session[s].at
      BY <3>2
    <3> QED BY <3>1, <3>2, <3>3
  <2>6. CASE RelayTakes(s)
    <3> DEFINE y == [session[s] EXCEPT !.out = TRUE]
    <3>1. /\ session' = [session EXCEPT ![s] = y] /\ session[s].pc \notin {"idle", "rcpt"}
          /\ y.mail = session[s].mail /\ y.env = session[s].env /\ y.at = session[s].at
      BY <1>0, <2>6 DEF RelayTakes, SessionState
    <3>2. y.at \in Nat /\ y.at >= session[s].at
      BY <1>0, <3>1 DEF SessionState
    <3> HIDE DEF y
    <3> QED BY <3>1, <3>2
  <2>7. \A i \in Slots : Takes(s, i) \/ Returns(s, i) => session[s].pc = "rcpt"
    BY DEF Takes, Returns
  <2> QED BY <2>1, <2>2, <2>3, <2>4, <2>5, <2>6, <2>7, TransactionKinds
<1>2. Owed' \subseteq Owed
  BY <1>1, OneOwesLess
<1>3. outbound' \in [Kinds -> Nat] /\ outbound'["reply"] <= outbound["reply"] /\ past' = past
  <2>1. CASE Forwarded(s)
    BY <1>0, <2>1 DEF Forwarded, Kinds
  <2>2. CASE ~Forwarded(s)
    <3>1. outbound' = outbound /\ past' = past
      BY <2>2 DEF Handle, Accept, Unknown, Resolve, Forward, StoreParsed, RelayTakes, ForwardFails,
         ReplyRefused, ReplyStart, ReplyChecked, ReplyFails, Dialogue, Offer, RcptTo, Abandon, Data
    <3> QED BY <1>0, <3>1 DEF Kinds
  <2> QED BY <2>1, <2>2
<1> QED BY <1>2, <1>3, NoneOwedMore

\* The check at the end of DATA: it is passed below the limit, or by a message that
\* owes no reply.
LEMMA DataOwes ==
  ASSUME Inv, Inv', OffRemembered, ReplyInv, NEW s \in Sessions, Data(s)
  PROVE  RepliesInFlight'
<1> SUFFICES ASSUME AllLive'
             PROVE  outbound'["reply"] + Cardinality(Owed')
                      <= ReplyMax + Cardinality(Sessions) * MaxRcpts - 1
  BY DEF RepliesInFlight
<1>0. /\ outbound' = outbound /\ past' = past /\ AllLive
      /\ outbound["reply"] \in Nat /\ ReplyMax \in Nat
      /\ session[s] \in SessionState /\ session \in [Sessions -> SessionState]
      /\ session[s].pc = "rcpt"
  BY ConstantsOK DEF Data, RcptsDone, AllLive, Inv, FlowTyped, Kinds
<1>1. /\ Owed' \in SUBSET (Sessions \X Slots) /\ Owed \in SUBSET (Sessions \X Slots)
  BY DEF Owed
<1>2. /\ Cardinality(Owed') \in Nat /\ Cardinality(Owed) \in Nat
      /\ Cardinality(Owed') <= Cardinality(Sessions) * MaxRcpts
      /\ Cardinality(Sessions) * MaxRcpts \in Nat
      /\ Owed' \subseteq Owed => Cardinality(Owed') <= Cardinality(Owed)
  BY <1>1, OwedFinite
<1>3. CASE Defer(s)
  <2>1. Idle.pc = "idle" /\ session' = [session EXCEPT ![s] = Idle]
    BY <1>3 DEF Defer, Idle
  <2>2. Owed' \subseteq Owed
    BY <2>1, OneOwesLess
  <2> QED BY <1>0, <1>2, <2>2 DEF ReplyInv, RepliesInFlight
<1>4. CASE outbound["reply"] < ReplyMax
  BY <1>0, <1>2, <1>4
<1>5. CASE session' = [session EXCEPT ![s].pc = "next"] /\ ~ReplyLimited(s)
           /\ ~(outbound["reply"] < ReplyMax)
  <2>1. ASSUME NEW k \in 1 .. Len(session[s].env),
               session[s].mail.rcpts[session[s].env[k]].kind = "reverse"
        PROVE  FALSE
    <3> DEFINE r == session[s].mail.rcpts[session[s].env[k]]
    <3>1. session[s].mail \in Mail /\ session[s].env[k] \in 1 .. Len(session[s].mail.rcpts)
      BY <1>0 DEF Inv, FlowTyped, SessionsOK, SessionOK
    <3>2. r.addr \in Aliases
      BY <2>1, <3>1, RcptType
    <3>3. Live(r.addr)
      BY <1>0, <3>2 DEF AllLive, OffRemembered
    <3>4. <<r.addr, r.contact>> \in reverse
      BY <1>0, <2>1 DEF ReplyInv, EnvelopeKnown
    <3>5. ActiveReverse(r)
      BY <3>3, <3>4 DEF ActiveReverse
    <3> QED BY <1>0, <1>5, <2>1, <3>5 DEF ReplyLimited
  <2> DEFINE y == [session[s] EXCEPT !.pc = "next"]
  <2>2. session' = [session EXCEPT ![s] = y] /\ y.mail = session[s].mail /\ y.env = session[s].env
    BY <1>0, <1>5 DEF SessionState
  <2> HIDE DEF y
  <2>3. \A t \in Sessions : session'[t] = IF t = s THEN y ELSE session[t]
    BY <1>0, <2>2
  <2>4. ASSUME NEW t \in Sessions, NEW i \in Slots, <<t, i>> \in Owed'
        PROVE  <<t, i>> \in Owed
    <3>1. CASE t # s
      BY <2>3, <2>4, <3>1 DEF Owed
    <3>2. CASE t = s
      BY <2>1, <2>2, <2>3, <2>4, <3>2 DEF Owed
    <3> QED BY <3>1, <3>2
  <2>5. Owed' \subseteq Owed
    BY <1>1, <2>4
  <2> QED BY <1>0, <1>2, <2>5 DEF ReplyInv, RepliesInFlight
<1> QED BY <1>3, <1>4, <1>5 DEF Data

\* A reply is recorded, and no longer owed.
LEMMA RepliedOwesLess ==
  ASSUME Inv, Inv', Kept, CopiesInv, OutboundInv, RepliesInFlight, NEW s \in Sessions, Replied(s)
  PROVE  RepliesInFlight'
<1> SUFFICES ASSUME AllLive'
             PROVE  outbound'["reply"] + Cardinality(Owed')
                      <= ReplyMax + Cardinality(Sessions) * MaxRcpts - 1
  BY DEF RepliesInFlight
<1> DEFINE p == <<s, Slot(s)>>
           y == Advance(s)
<1>0. /\ AllLive /\ outbound'["reply"] = outbound["reply"] + 1
      /\ outbound["reply"] \in Nat /\ ReplyMax \in Nat
      /\ session[s] \in SessionState /\ session \in [Sessions -> SessionState]
      /\ session[s].pc = "replying" /\ session' = [session EXCEPT ![s] = y]
  BY ConstantsOK DEF Replied, Settle, AllLive, Inv, FlowTyped, Kinds
<1>1. session[s].at \in 1 .. Len(session[s].env)
  <2>1. SessionOK(session[s])
    BY DEF Inv, FlowTyped, SessionsOK
  <2>2. session[s].at <= Len(session[s].env)
    BY <1>0, <2>1 DEF SessionOK, Serving
  <2>3. session[s].at \in Nat \ {0} /\ Len(session[s].env) \in Nat
    BY <1>0 DEF SessionState
  <2> QED BY <2>2, <2>3
<1>2. Slot(s) \in Slots /\ Slot(s) = session[s].env[session[s].at]
  BY <1>0, <1>1, CurrentType DEF Slot
<1>3. session[s].mail.rcpts[Slot(s)].kind = "reverse"
  BY <1>0 DEF OutboundInv, Asked, AskedAs, Slot
<1>4. p \in Owed
  <2>1. \E k \in 1 .. Len(session[s].env) : k >= session[s].at /\ session[s].env[k] = Slot(s)
    BY <1>1, <1>2
  <2> QED BY <1>0, <1>2, <1>3, <2>1 DEF Owed
<1>5. /\ y.pc = "next" /\ y.mail = session[s].mail /\ y.env = session[s].env
      /\ y.at = session[s].at + 1
  BY <1>0 DEF Advance, SessionState
<1> HIDE DEF y
<1>6. y.at \in Nat /\ y.at >= session[s].at
  BY <1>1, <1>5
<1>7. Owed' \subseteq Owed
  <2>1. session[s].pc \notin {"idle", "rcpt"}
    BY <1>0
  <2> QED BY <1>0, <1>5, <1>6, <2>1, OneOwesLess
<1>8. p \notin Owed'
  <2>1. session'[s] = y
    BY <1>0
  <2>2. \A j, k \in 1 .. Len(session[s].env) : session[s].env[j] = session[s].env[k] => j = k
    BY <1>0, OpenFacts DEF CopiesInv, FreshAs
  <2>3. ASSUME NEW k \in 1 .. Len(y.env), k >= y.at, y.env[k] = Slot(s)
        PROVE  FALSE
    BY <1>1, <1>2, <1>5, <2>2, <2>3
  <2> HIDE DEF y
  <2> QED BY <2>1, <2>3 DEF Owed
<1>9. Owed \in SUBSET (Sessions \X Slots) /\ Owed' \in SUBSET Owed
  BY <1>7 DEF Owed
<1>10. /\ IsFiniteSet(Owed) /\ Cardinality(Owed) \in Nat /\ Cardinality(Owed') \in Nat
       /\ Cardinality(Sessions) * MaxRcpts \in Nat
  BY <1>9, OwedFinite
<1>11. Cardinality(Owed \ {p}) = Cardinality(Owed) - 1
  BY <1>4, <1>10, FS_RemoveElement
<1>12. Cardinality(Owed') <= Cardinality(Owed) - 1
  <2>1. Owed' \in SUBSET (Owed \ {p})
    BY <1>7, <1>8
  <2>2. Owed \ {p} \in SUBSET (Sessions \X Slots)
    BY <1>9
  <2> QED BY <1>11, <2>1, <2>2, OwedFinite
<1> QED BY <1>0, <1>10, <1>12 DEF RepliesInFlight
-----------------------------------------------------------------------------
(* The envelope's reverse aliases stay known.                              *)

\* Nothing but a step that switches an alias off for good takes a reverse alias away.
LEMMA ReverseGrows ==
  ASSUME Inv, Inv', [Next]_vars, AllLive'
  PROVE  AllLive /\ reverse \subseteq reverse'
<1>1. past.off \subseteq past'.off
  <2>1. CASE Owner
    <3>1. Edit
      BY <2>1 DEF Owner, FlagAlias, DeleteAlias, ExpireAlias, PatchAlias, VerifyTarget,
         DeleteTarget, AddTarget, DeleteMailbox, SetRule, NewMailbox, Entitle
    <3> QED BY <3>1, EditRecords DEF PastGrows
  <2>2. CASE UNCHANGED past
    BY <2>2
  <2>3. ASSUME NEW s \in Sessions, Handle(s) \/ Dialogue(s) PROVE UNCHANGED past
    BY <2>3 DEF Handle, Accept, Unknown, Resolve, Forward, StoreParsed, RelayTakes, Forwarded,
       ForwardFails, ReplyRefused, ReplyStart, ReplyChecked, Replied, ReplyFails,
       Dialogue, Offer, RcptTo, Abandon, Data
  <2> QED BY <2>1, <2>2, <2>3 DEF Next, vars, Crash, EventAges
<1>2. AllLive
  BY <1>1 DEF AllLive
<1>3. reverse \subseteq Aliases \X Emails
  BY DEF Inv, TablesTyped
<1>4. ASSUME NEW a \in Aliases, Edit, alias'[a] = None PROVE FALSE
  BY <1>4 DEF Edit, Remembered, AllLive
<1>5. ASSUME NEW a \in Aliases, DeleteAlias(a) PROVE FALSE
  <2>1. alias'[a] = None
    BY <1>5 DEF DeleteAlias, Inv, TablesTyped
  <2> QED BY <1>4, <1>5, <2>1 DEF DeleteAlias
<1>6. ASSUME NEW b \in BoxIds, DeleteMailbox(b) PROVE reverse \subseteq reverse'
  <2> DEFINE gone == {a \in Aliases : alias[a] # None /\ alias[a].box = b}
  <2>1. \A a \in gone : alias'[a] = None
    BY <1>6 DEF DeleteMailbox
  <2>2. gone = {}
    BY <1>4, <1>6, <2>1 DEF DeleteMailbox
  <2>3. reverse' = {r \in reverse : r[1] \notin gone}
    BY <1>6 DEF DeleteMailbox
  <2> HIDE DEF gone
  <2> QED BY <2>2, <2>3
<1>7. ASSUME NEW s \in Sessions, Handle(s) \/ Dialogue(s) PROVE reverse \subseteq reverse'
  <2>1. CASE Forward(s)
    BY <2>1 DEF Forward, Minted
  <2>2. CASE ~Forward(s)
    BY <1>7, <2>2 DEF Handle, Accept, Unknown, Resolve, StoreParsed, RelayTakes, Forwarded,
       ForwardFails, ReplyRefused, ReplyStart, ReplyChecked, Replied, ReplyFails,
       Dialogue, Offer, RcptTo, Abandon, Data
  <2> QED BY <2>1, <2>2
<1>8. ASSUME Owner PROVE reverse \subseteq reverse'
  BY <1>5, <1>6, <1>8 DEF Owner, FlagAlias, ExpireAlias, PatchAlias, SetAlias, VerifyTarget,
     DeleteTarget, AddTarget, SetRule, NewMailbox, Entitle
<1> QED BY <1>2, <1>7, <1>8 DEF Next, vars, tables, Crash, EventAges

\* Recipient i of message m, if it is a reverse alias, is one in the table rev.
KnownIn(m, i, rev) ==
  m.rcpts[i].kind = "reverse" => <<m.rcpts[i].addr, m.rcpts[i].contact>> \in rev

LEMMA EnvelopeStep ==
  ASSUME Inv, Inv', Kept, CopiesInv, EnvelopeKnown, [Next]_vars
  PROVE  EnvelopeKnown'
<1> SUFFICES ASSUME AllLive', NEW t \in Sessions, session'[t].pc # "idle",
                    NEW k \in 1 .. Len(session'[t].env)
             PROVE  KnownIn(session'[t].mail, session'[t].env[k], reverse')
  BY DEF EnvelopeKnown, KnownIn
<1>1. AllLive /\ reverse \subseteq reverse'
  BY ReverseGrows
<1>2. ASSUME session[t].pc # "idle", NEW j \in 1 .. Len(session[t].env)
      PROVE  KnownIn(session[t].mail, session[t].env[j], reverse')
  BY <1>1, <1>2 DEF EnvelopeKnown, KnownIn
<1>3. CASE session'[t] = session[t]
  BY <1>2, <1>3
<1>4. CASE Crash
  BY <1>4 DEF Crash, Idle
<1>5. ASSUME NEW s \in Sessions, Handle(s) \/ Dialogue(s)
      PROVE  KnownIn(session'[t].mail, session'[t].env[k], reverse')
  <2>0. session \in [Sessions -> SessionState] /\ session[s] \in SessionState
    BY DEF Inv, FlowTyped
  <2>1. ASSUME NEW x, session' = [session EXCEPT ![s] = x],
               x.pc # "idle" => /\ session[s].pc # "idle"
                                /\ x.mail = session[s].mail /\ x.env = session[s].env
        PROVE  KnownIn(session'[t].mail, session'[t].env[k], reverse')
    <3>1. session'[t] = IF t = s THEN x ELSE session[t]
      BY <2>0, <2>1
    <3> QED BY <1>2, <1>3, <2>1, <3>1
  <2>2. ASSUME NEW m \in Mail, Offer(s, m)
        PROVE  KnownIn(session'[t].mail, session'[t].env[k], reverse')
    <3> DEFINE y == [Idle EXCEPT !.pc = "rcpt", !.mail = m, !.offered = 1]
    <3>1. y.env = <<>> /\ session' = [session EXCEPT ![s] = y]
      BY <2>2 DEF Offer, Idle
    <3> HIDE DEF y
    <3>2. session'[t] = IF t = s THEN y ELSE session[t]
      BY <2>0, <3>1
    <3>3. t # s
      <4>1. 1 .. Len(y.env) = {}
        BY <3>1
      <4> QED BY <3>2, <4>1
    <3> QED BY <1>3, <3>2, <3>3
  <2>3. CASE RcptTo(s)
    <3> DEFINE m == session[s].mail
               i == session[s].offered
               y == [session[s] EXCEPT !.env = Append(@, i), !.offered = i + 1]
               z == [session[s] EXCEPT !.offered = i + 1]
    <3>0. session[s].pc = "rcpt"
      BY <2>3 DEF RcptTo
    <3>1. CASE session' = [session EXCEPT ![s] = z]
      <4>1. z.mail = m /\ z.env = session[s].env
        BY <2>0 DEF SessionState
      <4> HIDE DEF z
      <4> QED BY <2>1, <3>0, <3>1, <4>1
    <3>2. CASE session' = [session EXCEPT ![s] = y] /\ Deliverable(m.rcpts[i])
      <4>1. y.mail = m /\ y.env = Append(session[s].env, i) /\ session[s].env \in Seq(Slots)
        BY <2>0 DEF SessionState
      <4> HIDE DEF y
      <4>2. session'[t] = IF t = s THEN y ELSE session[t]
        BY <2>0, <3>2
      <4>3. KnownIn(m, i, reverse')
        BY <1>1, <3>2 DEF Deliverable, ActiveReverse, KnownIn
      <4>4. CASE t = s
        <5>1. /\ k \in 1 .. Len(session[s].env) + 1
              /\ y.env[k] = IF k = Len(session[s].env) + 1 THEN i ELSE session[s].env[k]
              /\ Len(session[s].env) \in Nat
          <6>1. i \in Nat
            BY <2>0 DEF SessionState
          <6>2. Len(y.env) = Len(session[s].env) + 1 /\ Len(session[s].env) \in Nat
            BY <4>1, <6>1
          <6>3. k \in 1 .. Len(session[s].env) + 1
            BY <4>2, <4>4, <6>2
          <6> QED BY <4>1, <6>1, <6>2, <6>3
        <5> QED BY <1>2, <3>0, <4>1, <4>2, <4>3, <4>4, <5>1
      <4> QED BY <1>3, <4>2, <4>4
    <3>3. \/ session' = [session EXCEPT ![s] = z]
          \/ session' = [session EXCEPT ![s] = y] /\ Deliverable(m.rcpts[i])
      BY <2>0, <2>3 DEF RcptTo
    <3> QED BY <3>1, <3>2, <3>3
  <2>4. ASSUME NEW st \in {"queued", "accepted", "bounced"}, Ended(s, st)
        PROVE  KnownIn(session'[t].mail, session'[t].env[k], reverse')
    <3>1. Idle.pc = "idle" /\ session' = [session EXCEPT ![s] = Idle]
      BY <2>4 DEF Ended, Idle
    <3> QED BY <2>1, <3>1
  <2>5. ASSUME NEW y, Continues(s, y)
        PROVE  KnownIn(session'[t].mail, session'[t].env[k], reverse')
    BY <2>1, <2>5 DEF Continues
  <2>6. ASSUME NEW f \in FateRecord, Done(s, f)
        PROVE  KnownIn(session'[t].mail, session'[t].env[k], reverse')
    <3>1. session' = [session EXCEPT ![s] = Advance(s)] /\ session[s].pc # "idle"
      BY <2>6 DEF Done, Settle
    <3>2. Advance(s).mail = session[s].mail /\ Advance(s).env = session[s].env
      BY <2>0 DEF Advance, SessionState
    <3> QED BY <2>1, <3>1, <3>2
  <2>7. CASE RelayTakes(s)
    <3> DEFINE y == [session[s] EXCEPT !.out = TRUE]
    <3>1. /\ session' = [session EXCEPT ![s] = y] /\ session[s].pc # "idle"
          /\ y.mail = session[s].mail /\ y.env = session[s].env
      BY <2>0, <2>7 DEF RelayTakes, SessionState
    <3> HIDE DEF y
    <3> QED BY <2>1, <3>1
  <2>8. (\E i \in Slots : Takes(s, i) \/ Returns(s, i)) => RcptTo(s)
    <3>1. \A i \in Slots : Takes(s, i) \/ Returns(s, i) => session[s].pc = "rcpt"
                           /\ session[s].offered \in 1 .. Len(session[s].mail.rcpts)
      BY DEF Takes, Returns
    <3>2. session[s].pc = "rcpt" => RcptTo(s) \/ RcptsDone(s)
      BY <1>5 DEF Handle, Accept, Unknown, Resolve, Forward, StoreParsed, RelayTakes, Forwarded,
         ForwardFails, ReplyRefused, ReplyStart, ReplyChecked, Replied, ReplyFails, HasRcpt,
         Dialogue, Offer, Abandon, Data
    <3>3. session[s].offered \in Nat
      BY <2>0 DEF SessionState
    <3>4. session[s].pc # "idle" => Len(session[s].mail.rcpts) \in Nat
      <4>1. session[s].pc # "idle" => session[s].mail \in Mail
        BY DEF Inv, FlowTyped, SessionsOK, SessionOK
      <4> QED BY <4>1, MailType DEF Slots
    <3> QED BY <3>1, <3>2, <3>3, <3>4 DEF RcptsDone
  <2> QED BY <1>5, <2>2, <2>3, <2>4, <2>5, <2>6, <2>7, <2>8, TransactionKinds
<1>6. CASE Owner
  BY <1>3, <1>6, OwnerOutside
<1> QED BY <1>3, <1>4, <1>5, <1>6 DEF Next, vars, EventAges

LEMMA ReplyStep ==
  Inv /\ CustodyInv /\ CopiesInv /\ OutboundInv /\ ReplyInv /\ [Next]_vars => ReplyInv'
<1> SUFFICES ASSUME Inv, CustodyInv, CopiesInv, OutboundInv, ReplyInv, [Next]_vars
             PROVE  ReplyInv'
  OBVIOUS
<1>0. /\ Inv' /\ Kept /\ OffRemembered /\ EnvelopeKnown'
      /\ past.off \subseteq past'.off /\ RepliesInFlight
  BY NextTypes, EnvelopeStep, StepHistory DEF CustodyInv, ReplyInv, HistoryGrows
<1>1. outbound \in [Kinds -> Nat] /\ outbound' \in [Kinds -> Nat]
  BY <1>0 DEF Inv, FlowTyped
<1>2. ASSUME UNCHANGED session, outbound'["reply"] <= outbound["reply"]
      PROVE  RepliesInFlight'
  <2>1. Owed' \subseteq Owed
    BY <1>2 DEF Owed
  <2> QED BY <1>0, <1>1, <1>2, <2>1, NoneOwedMore
<1>3. ASSUME UNCHANGED <<session, outbound>> PROVE RepliesInFlight'
  <2>1. outbound'["reply"] <= outbound["reply"]
    BY <1>1, <1>3 DEF Kinds
  <2> QED BY <1>2, <1>3, <2>1
<1>4. ASSUME Owner PROVE RepliesInFlight'
  BY <1>3, <1>4, OwnerOutside
<1>5. ASSUME NEW k \in Kinds, EventAges(k) PROVE RepliesInFlight'
  <2>1. outbound'["reply"] <= outbound["reply"]
    BY <1>1, <1>5 DEF EventAges, Kinds
  <2> QED BY <1>2, <1>5, <2>1 DEF EventAges
<1>6. ASSUME Crash PROVE RepliesInFlight'
  <2>1. \A s \in Sessions : session'[s].pc = "idle"
    BY <1>6 DEF Crash, Idle
  <2>2. Owed' \subseteq Owed
    BY <2>1 DEF Owed
  <2>3. outbound'["reply"] <= outbound["reply"]
    BY <1>1, <1>6 DEF Crash, Kinds
  <2> QED BY <1>0, <1>1, <2>2, <2>3, NoneOwedMore
<1>7. ASSUME NEW s \in Sessions, Handle(s) \/ Dialogue(s) PROVE RepliesInFlight'
  BY <1>0, <1>7, OthersOweLess, DataOwes, RepliedOwesLess
<1> QED BY <1>0, <1>3, <1>4, <1>5, <1>6, <1>7 DEF Next, vars, ReplyInv

\* The hourly limit of replies is read once per message, before its recipients are
\* served, and recorded after each relay: it is overshot by no more than the replies
\* of the transactions that are open together (forwarding.ts).
THEOREM ReplyLimitHolds == Spec => []RepliesBounded
<1>1. Init => ReplyInv
  <2> SUFFICES ASSUME Init PROVE ReplyInv
    OBVIOUS
  <2>1. \A s \in Sessions : session[s].pc = "idle"
    BY DEF Init, Idle
  <2>2. Owed = {} /\ outbound["reply"] = 0
    BY <2>1 DEF Owed, Init, Kinds
  <2>3. Cardinality(Owed) = 0
    BY <2>2, FS_EmptySet
  <2>4. Cardinality(Sessions) \in Nat /\ Cardinality(Sessions) # 0
    BY ConstantsOK, FS_EmptySet, FS_CardinalityType
  <2>5. MaxRcpts \in Nat \ {0} /\ ReplyMax \in Nat \ {0}
    BY ConstantsOK
  <2>6. Cardinality(Sessions) * MaxRcpts \in Nat
    BY <2>4, <2>5
  <2>7. RepliesInFlight
    BY <2>2, <2>3, <2>5, <2>6 DEF RepliesInFlight
  <2> QED BY <2>1, <2>7 DEF ReplyInv, EnvelopeKnown
<1>2. Inv /\ ReplyInv => RepliesBounded
  <2> SUFFICES ASSUME Inv, ReplyInv, AllLive PROVE RepliesBounded
    BY DEF RepliesBounded, AllLive
  <2>1. Owed \in SUBSET (Sessions \X Slots)
    BY DEF Owed
  <2>2. Cardinality(Owed) \in Nat /\ Cardinality(Sessions) * MaxRcpts \in Nat
    BY <2>1, OwedFinite
  <2>3. outbound["reply"] \in Nat /\ ReplyMax \in Nat
    BY ConstantsOK DEF Inv, FlowTyped, Kinds
  <2> QED BY <2>2, <2>3 DEF ReplyInv, RepliesInFlight, RepliesBounded
<1> QED
  BY <1>1, <1>2, ReplyStep, OutboundInit, OutboundStep, CopiesInit, CopiesStep,
     CustodyInit, CustodyStep, TypesInvariant, PTL
  DEF Spec
=============================================================================
