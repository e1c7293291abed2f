---------------------------- MODULE Startup_proofs ----------------------------
(***************************************************************************)
(* What holds of the start of the process and of the trial's reminders for *)
(* every number of overlapping ticks, of restarts and of owners.           *)
(***************************************************************************)
EXTENDS Startup, FiniteSetTheorems, TLAPS

OperatorRow == [exempt : BOOLEAN, trial : Nat \cup {None}]

\* The owner of the account is the last who signed up, and a tick works for one of them.
Owned ==
  /\ acct # None => acct.owner = owners
  /\ \A t \in Ticks : tick[t].owner <= owners
  /\ early \subseteq 1 .. owners

\* The operator's account is there and exempt once its statements have run.
Seeded ==
  /\ boot \in {"exempt", "owner", "gate", "grandfather", "main"} => operator \in OperatorRow
  /\ boot \in {"owner", "gate", "grandfather", "main"} => operator.exempt

Typed == TypeOK /\ Owned /\ Seeded
-----------------------------------------------------------------------------
LEMMA Constants ==
  /\ IsFiniteSet(Ticks) /\ TrialLen \in Nat /\ MaxOwners \in Nat \ {0} /\ MaxTime \in Nat
  /\ MaxCrashes \in Nat /\ MaxLost \in Nat /\ None \notin Nat
  BY RemindersConstantsOK

LEMMA NoTickType == NoTick \in TickType /\ NoTick.owner = 0 /\ NoTick.pc = "idle"
  BY Constants DEF NoTick, TickType, Kinds

\* What a step leaves of the row of the account, if there is one.
Rewritten(b, c) ==
  /\ c.owner = b.owner
  /\ b.mailable => c.mailable
  /\ b.reminded => c.reminded
  /\ b.ended => c.ended

RowKept == /\ acct = None => acct' = None
           /\ acct # None => acct' \in AcctType /\ Rewritten(acct, acct')

\* What the ticks of the model have in common: one tick gets another record.
LEMMA OneTick ==
  ASSUME Typed, NEW t \in Ticks, NEW x \in TickType, x.owner <= owners,
         tick' = [tick EXCEPT ![t] = x], UNCHANGED owners
  PROVE  /\ tick' \in [Ticks -> TickType]
         /\ \A u \in Ticks : tick'[u] = IF u = t THEN x ELSE tick[u]
         /\ \A u \in Ticks : tick'[u].owner <= owners'
  BY DEF Typed, TypeOK, RemindersTypeOK, Owned

\* The row that is kept is one of the table, and its owner's.
LEMMA RowKeptType ==
  ASSUME Typed, RowKept, UNCHANGED owners
  PROVE  acct' \in AcctType \cup {None} /\ (acct' # None => acct'.owner = owners')
  BY DEF Typed, TypeOK, RemindersTypeOK, RowKept, Rewritten, Owned

\* The types of all variables, part by part.
LEMMA AllTyped ==
  ASSUME Typed, acct' \in AcctType \cup {None}, acct' # None => acct'.owner = owners',
         owners' \in 0 .. MaxOwners, owners <= owners', early' = early, enabled' \in BOOLEAN,
         now' \in Time, crashes' \in 0 .. MaxCrashes, clicked' \subseteq Owners,
         mails' \in [Owners -> [Kinds -> Nat]], lost' \in 0 .. MaxLost,
         tick' \in [Ticks -> TickType], \A u \in Ticks : tick'[u].owner <= owners',
         boot' \in Steps \cup {"up", "dead"}, columns' \subseteq {"account_id", "email_verified_at"},
         operator' \in OperatorRow \cup {None}, Seeded'
  PROVE  Typed'
<1>1. RemindersTypeOK'
  BY DEF RemindersTypeOK
<1>2. early' \subseteq Owners /\ early' \subseteq 1 .. owners'
  <2>1. owners \in Nat /\ owners' \in Nat
    BY Constants DEF Typed, TypeOK, RemindersTypeOK
  <2> QED BY <2>1 DEF Typed, TypeOK, Owned
<1>3. Owned'
  BY <1>2 DEF Owned
<1> QED BY <1>1, <1>2, <1>3 DEF Typed, TypeOK, OperatorRow

\* Steps of the process that is up: the statements of its start are over.
LEMMA UpStep ==
  ASSUME Typed, Up
  PROVE  /\ UNCHANGED early
         /\ boot' \in Steps \cup {"up", "dead"} /\ columns' \subseteq {"account_id", "email_verified_at"}
         /\ operator' \in OperatorRow \cup {None} /\ Seeded'
         /\ boot = "up" /\ UNCHANGED <<boot, columns, operator>>
  BY DEF Typed, Up, database, TypeOK, Seeded, OperatorRow

LEMMA BootsTyped ==
  ASSUME Typed, Boots
  PROVE  /\ Typed' /\ RowKept
         /\ UNCHANGED <<now, enabled, tick, mails, lost, owners, crashes, early, clicked>>
<1>1. /\ UNCHANGED <<now, enabled, tick, mails, lost, owners, crashes, early, clicked>>
      /\ boot \in Steps /\ boot' \in Steps \cup {"up", "dead"}
  BY DEF Boots, Seed, Exempt, AddOwner, AddGate, Grandfather, Main, Goes, Steps, GrandfatherNext
<1>2. acct \in AcctType \cup {None} /\ now \in Nat
  BY Constants DEF Typed, TypeOK, RemindersTypeOK, Time
<1>3. RowKept
  <2>1. CASE Seed \/ Exempt \/ AddOwner \/ AddGate
    <3>1. UNCHANGED acct
      BY <2>1 DEF Seed, Exempt, AddOwner, AddGate
    <3> QED BY <1>2, <3>1 DEF RowKept, Rewritten
  <2>2. CASE Grandfather
    <3>1. acct' = IF acct = None THEN None ELSE [acct EXCEPT !.mailable = TRUE]
      BY <2>2 DEF Grandfather
    <3> QED BY <1>2, <3>1 DEF RowKept, Rewritten, AcctType
  <2>3. CASE Main
    <3>1. acct' = acct \/ (acct # None /\ acct' = [acct EXCEPT !.trial = now + TrialLen])
      BY <2>3 DEF Main, StartPendingTrials
    <3>2. now + TrialLen \in Nat
      BY <1>2, Constants
    <3> QED BY <1>2, <3>1, <3>2 DEF RowKept, Rewritten, AcctType
  <2> QED BY <2>1, <2>2, <2>3 DEF Boots
<1>4. columns' \subseteq {"account_id", "email_verified_at"}
  BY DEF Boots, Seed, Exempt, AddOwner, AddGate, Grandfather, Main, database, Typed, TypeOK
<1>5. operator' \in OperatorRow \cup {None} /\ Seeded'
  <2>1. CASE Seed
    BY <2>1, Constants DEF Seed, Goes, Seeded, OperatorRow, Typed, TypeOK
  <2>2. CASE Exempt
    BY <2>2 DEF Exempt, Goes, Seeded, OperatorRow, Typed, TypeOK
  <2>3. CASE AddOwner \/ AddGate \/ Grandfather
    <3>1. UNCHANGED operator /\ boot \in {"owner", "gate", "grandfather"}
          /\ boot' \in {"gate", "grandfather", "main", "dead"}
      BY <2>3 DEF AddOwner, AddGate, Grandfather, Goes, GrandfatherNext, database
    <3> QED BY <3>1 DEF Seeded, OperatorRow, Typed, TypeOK
  <2>4. CASE Main
    <3>1. operator' = operator \/ operator' = [operator EXCEPT !.trial = now + TrialLen]
      BY <2>4 DEF Main
    <3>2. now + TrialLen \in Nat /\ operator \in OperatorRow /\ boot' = "up"
      BY <1>2, <2>4, Constants DEF Main, Goes, Typed, Seeded
    <3> QED BY <3>1, <3>2 DEF Seeded, OperatorRow
  <2> QED BY <2>1, <2>2, <2>3, <2>4 DEF Boots
<1>6. now' \in Time /\ crashes' \in 0 .. MaxCrashes /\ clicked' \subseteq Owners
      /\ mails' \in [Owners -> [Kinds -> Nat]] /\ lost' \in 0 .. MaxLost /\ tick' \in [Ticks -> TickType]
      /\ \A u \in Ticks : tick'[u].owner <= owners'
  BY <1>1 DEF Typed, TypeOK, RemindersTypeOK, Owned
<1>7. /\ acct' \in AcctType \cup {None} /\ (acct' # None => acct'.owner = owners')
      /\ owners' \in 0 .. MaxOwners /\ owners <= owners' /\ enabled' \in BOOLEAN
  BY <1>1, <1>3, RowKeptType DEF Typed, TypeOK, RemindersTypeOK
<1>8. Typed'
  BY <1>1, <1>4, <1>5, <1>6, <1>7, AllTyped
<1> QED BY <1>1, <1>3, <1>8

LEMMA StopTyped ==
  ASSUME Typed, NEW en \in BOOLEAN, Stop(en)
  PROVE  /\ Typed' /\ UNCHANGED <<now, acct, mails, lost, owners, columns, operator, early, clicked>>
         /\ crashes' = crashes + 1 /\ boot' = "accounts"
         /\ tick' = [t \in Ticks |-> NoTick]
<1>1. /\ UNCHANGED <<now, acct, mails, lost, owners, columns, operator, early, clicked>>
      /\ crashes < MaxCrashes /\ crashes' = crashes + 1 /\ boot' = "accounts"
      /\ tick' = [t \in Ticks |-> NoTick] /\ enabled' = en
  BY DEF Stop, database
<1>2. crashes' \in 0 .. MaxCrashes
  BY <1>1, Constants DEF Typed, TypeOK, RemindersTypeOK
<1>3. tick' \in [Ticks -> TickType] /\ \A u \in Ticks : tick'[u].owner <= owners'
  BY <1>1, NoTickType DEF Typed, TypeOK, RemindersTypeOK
<1>4. boot' \in Steps /\ Seeded'
  BY <1>1 DEF Steps, Seeded
<1>5. /\ acct' \in AcctType \cup {None} /\ (acct' # None => acct'.owner = owners')
      /\ owners' \in 0 .. MaxOwners /\ owners <= owners' /\ now' \in Time /\ clicked' \subseteq Owners
      /\ mails' \in [Owners -> [Kinds -> Nat]] /\ lost' \in 0 .. MaxLost /\ columns' \subseteq {"account_id", "email_verified_at"}
      /\ operator' \in OperatorRow \cup {None} /\ enabled' \in BOOLEAN
  BY <1>1 DEF Typed, TypeOK, RemindersTypeOK, Owned, OperatorRow
<1>6. Typed'
  BY <1>1, <1>2, <1>3, <1>4, <1>5, AllTyped
<1> QED BY <1>1, <1>6

LEMMA SignsUpTyped ==
  ASSUME Typed, SignsUp
  PROVE  /\ Typed' /\ Up /\ UNCHANGED <<now, enabled, tick, mails, lost, crashes, clicked>>
         /\ acct = None /\ owners' = owners + 1
         /\ acct'.owner = owners + 1 /\ ~acct'.reminded /\ ~acct'.ended /\ ~acct'.mailable
<1>1. /\ Up /\ UNCHANGED <<now, enabled, tick, mails, lost, crashes, clicked>>
      /\ acct = None /\ owners < MaxOwners /\ owners' = owners + 1 /\ acct' = NewAcct(owners + 1)
  BY DEF SignsUp, Signup
<1>2. owners' \in 0 .. MaxOwners /\ owners' \in Owners /\ owners <= owners'
  BY <1>1, Constants DEF Typed, TypeOK, RemindersTypeOK, Owners
<1>3. /\ acct' \in AcctType /\ acct'.owner = owners'
      /\ ~acct'.reminded /\ ~acct'.ended /\ ~acct'.mailable
  <2>1. now + TrialLen \in Nat
    BY Constants DEF Typed, TypeOK, RemindersTypeOK, Time
  <2> QED BY <1>1, <1>2, <2>1 DEF NewAcct, AcctType
<1>4. \A u \in Ticks : tick'[u].owner <= owners'
  <2>1. \A u \in Ticks : tick[u].owner \in Nat /\ tick[u].owner <= owners /\ owners \in Nat
    BY Constants DEF Typed, TypeOK, RemindersTypeOK, TickType, Owned
  <2> QED BY <1>1, <2>1
<1>5. /\ now' \in Time /\ crashes' \in 0 .. MaxCrashes /\ clicked' \subseteq Owners
      /\ enabled' \in BOOLEAN
      /\ mails' \in [Owners -> [Kinds -> Nat]] /\ lost' \in 0 .. MaxLost /\ tick' \in [Ticks -> TickType]
  BY <1>1 DEF Typed, TypeOK, RemindersTypeOK
<1>6. Typed'
  BY <1>1, <1>2, <1>3, <1>4, <1>5, UpStep, AllTyped
<1> QED BY <1>1, <1>3, <1>6

LEMMA ChangesTyped ==
  ASSUME Typed, Changes
  PROVE  /\ Typed' /\ Up /\ UNCHANGED <<now, enabled, tick, mails, lost, crashes, owners>>
         /\ acct # None /\ (acct' = None \/ RowKept)
         /\ clicked' = IF acct' # None /\ acct'.mailable THEN clicked \cup {acct'.owner} ELSE clicked
<1>1. /\ Up /\ UNCHANGED <<now, enabled, tick, mails, lost, crashes, owners>> /\ acct # None
      /\ acct' \in {None, [acct EXCEPT !.mailable = TRUE], [acct EXCEPT !.paid = ~@]}
      /\ clicked' = IF acct' # None /\ acct'.mailable THEN clicked \cup {acct'.owner} ELSE clicked
  BY DEF Changes, AccountChanges
<1>2. acct \in AcctType
  BY <1>1 DEF Typed, TypeOK, RemindersTypeOK
<1>3. acct' = None \/ RowKept
  BY <1>1, <1>2 DEF RowKept, Rewritten, AcctType
<1>4. acct' \in AcctType \cup {None} /\ (acct' # None => acct'.owner = owners')
  BY <1>1, <1>3, RowKeptType
<1>5. clicked' \subseteq Owners
  BY <1>1, <1>4 DEF Typed, TypeOK, AcctType
<1>6. /\ owners' \in 0 .. MaxOwners /\ owners <= owners'
      /\ now' \in Time /\ crashes' \in 0 .. MaxCrashes /\ enabled' \in BOOLEAN
      /\ mails' \in [Owners -> [Kinds -> Nat]] /\ lost' \in 0 .. MaxLost /\ tick' \in [Ticks -> TickType]
      /\ \A u \in Ticks : tick'[u].owner <= owners'
  BY <1>1 DEF Typed, TypeOK, RemindersTypeOK, Owned
<1>7. Typed'
  BY <1>1, <1>4, <1>5, <1>6, UpStep, AllTyped
<1> QED BY <1>1, <1>3, <1>7

LEMMA AdvanceTyped ==
  ASSUME Typed, Advance, UNCHANGED startup
  PROVE  Typed' /\ UNCHANGED <<enabled, acct, tick, mails, lost, owners, crashes, startup>>
<1>1. /\ UNCHANGED <<enabled, acct, tick, mails, lost, owners, crashes>>
      /\ UNCHANGED <<boot, columns, operator, early, clicked>>
  BY DEF Advance, startup, database
<1>2. now' \in Time
  BY Constants DEF Advance, Typed, TypeOK, RemindersTypeOK, Time
<1>3. /\ acct' \in AcctType \cup {None} /\ (acct' # None => acct'.owner = owners')
      /\ owners' \in 0 .. MaxOwners /\ owners <= owners'
      /\ crashes' \in 0 .. MaxCrashes /\ enabled' \in BOOLEAN /\ clicked' \subseteq Owners
      /\ mails' \in [Owners -> [Kinds -> Nat]] /\ lost' \in 0 .. MaxLost /\ tick' \in [Ticks -> TickType]
      /\ \A u \in Ticks : tick'[u].owner <= owners'
      /\ boot' \in Steps \cup {"up", "dead"} /\ columns' \subseteq {"account_id", "email_verified_at"}
      /\ operator' \in OperatorRow \cup {None} /\ Seeded'
  BY <1>1 DEF Typed, TypeOK, RemindersTypeOK, Owned, Seeded, OperatorRow
<1>4. Typed'
  BY <1>1, <1>2, <1>3, AllTyped
<1> QED BY <1>1, <1>4

\* Marking a row that is there makes it marked, and changes nothing else.
LEMMA Marked ==
  ASSUME Typed, NEW kind \in Kinds, acct' = Mark(kind)
  PROVE  /\ RowKept
         /\ acct # None => /\ acct'.reminded /\ (kind = "ended" => acct'.ended)
                           /\ acct'.mailable = acct.mailable
<1>1. CASE acct = None
  BY <1>1 DEF Mark, RowKept
<1>2. CASE acct # None
  <2>1. acct \in AcctType
    BY <1>2 DEF Typed, TypeOK, RemindersTypeOK
  <2>2. acct' = [acct EXCEPT !.reminded = TRUE, !.ended = @ \/ kind = "ended"]
    BY <1>2 DEF Mark
  <2>3. /\ acct' \in AcctType /\ acct'.owner = acct.owner /\ acct'.mailable = acct.mailable
        /\ acct'.reminded /\ acct'.ended = (acct.ended \/ kind = "ended")
    BY <2>1, <2>2 DEF AcctType
  <2> QED BY <1>2, <2>3 DEF RowKept, Rewritten
<1> QED BY <1>1, <1>2

\* What tick t does next: x is its record, m the mail that went out to owner o of kind k.
TickDoes(t) == Ticks1(t) \/ Relayed(t) \/ Refused(t)

LEMMA DueKind ==
  ASSUME Typed, Due(acct) # "nothing"
  PROVE  /\ acct # None /\ acct \in AcctType /\ Due(acct) \in Kinds
         /\ Due(acct) = "soon" => ~acct.reminded
         /\ Due(acct) = "ended" => ~acct.ended
<1>1. acct # None
  BY DEF Due
<1>2. acct \in AcctType
  BY <1>1 DEF Typed, TypeOK, RemindersTypeOK
<1> QED BY <1>1, <1>2 DEF Due, Kinds

LEMMA TickTyped ==
  ASSUME Typed, NEW t \in Ticks, TickDoes(t)
  PROVE  /\ Typed' /\ Up /\ RowKept
         /\ UNCHANGED <<now, enabled, owners, crashes, clicked>>
         /\ acct # None => acct'.mailable = acct.mailable
<1>1. Up /\ UNCHANGED <<now, enabled, owners, crashes, clicked>>
  BY DEF TickDoes, Ticks1, Relayed, Refused, Tick, TickStarts, NotifyNobody, Notify, MarkSent,
     MailTaken, MailFails, MailTakenForFailed
<1>2. /\ tick[t] \in TickType /\ tick[t].owner <= owners /\ tick[t].kind \in Kinds
      /\ mails \in [Owners -> [Kinds -> Nat]] /\ tick \in [Ticks -> TickType]
      /\ owners \in 0 .. MaxOwners /\ acct \in AcctType \cup {None}
      /\ \A u \in Ticks : tick[u].owner <= owners
  BY DEF Typed, TypeOK, RemindersTypeOK, TickType, Owned
<1>3. RowKept /\ (acct # None => acct'.mailable = acct.mailable)
  <2>1. CASE UNCHANGED acct
    BY <1>2, <2>1 DEF RowKept, Rewritten
  <2>2. CASE acct' = Mark(tick[t].kind)
    BY <1>2, <2>2, Marked
  <2> QED BY <2>1, <2>2 DEF TickDoes, Ticks1, Relayed, Refused, Tick, TickStarts, NotifyNobody, Notify,
             MarkSent, MailTaken, MailFails, MailTakenForFailed
<1>4. mails' \in [Owners -> [Kinds -> Nat]]
  <2>1. CASE UNCHANGED mails
    BY <1>2, <2>1
  <2>2. CASE mails' = [mails EXCEPT ![tick[t].owner][tick[t].kind] = @ + 1]
    <3> DEFINE o == tick[t].owner
               sum == [mails[o] EXCEPT ![tick[t].kind] = @ + 1]
    <3>1. mails' = [mails EXCEPT ![o] = sum]
      BY <2>2
    <3>2. o \in Owners => sum \in [Kinds -> Nat]
      BY <1>2
    <3> HIDE DEF o, sum
    <3> QED BY <1>2, <3>1, <3>2
  <2> QED BY <2>1, <2>2 DEF TickDoes, Ticks1, Relayed, Refused, Tick, TickStarts, NotifyNobody, Notify,
             MarkSent, MailTaken, MailFails, MailTakenForFailed
<1>5. \E x \in TickType : x.owner <= owners /\ tick' = [tick EXCEPT ![t] = x]
  <2>1. CASE TickStarts(t)
    <3> DEFINE x == [pc |-> "due", owner |-> acct.owner, kind |-> Due(acct)]
    <3>1. acct # None /\ acct \in AcctType /\ Due(acct) \in Kinds
      BY <2>1, DueKind DEF TickStarts
    <3>2. acct.owner = owners /\ acct.owner \in 0 .. MaxOwners /\ owners <= owners
      BY <1>2, <3>1, Constants DEF Typed, Owned
    <3>3. x \in TickType /\ x.owner <= owners
      BY <3>1, <3>2 DEF TickType
    <3>4. tick' = [tick EXCEPT ![t] = x]
      BY <2>1 DEF TickStarts
    <3> QED BY <3>3, <3>4
  <2>2. CASE tick' = [tick EXCEPT ![t] = NoTick]
    <3>1. NoTick \in TickType /\ NoTick.owner <= owners
      BY <1>2, NoTickType, Constants
    <3> QED BY <2>2, <3>1
  <2>3. CASE Notify(t)
    <3> DEFINE x == [tick[t] EXCEPT !.pc = "mail", !.owner = acct.owner]
    <3>1. acct # None /\ acct.owner = owners /\ acct.owner \in 0 .. MaxOwners /\ owners <= owners
      BY <1>2, <2>3, Constants DEF Notify, Mailable, Typed, Owned
    <3>2. x \in TickType /\ x.owner <= owners
      BY <1>2, <3>1 DEF TickType
    <3>3. tick' = [tick EXCEPT ![t] = x]
      BY <1>2, <2>3 DEF Notify, TickType
    <3> QED BY <3>2, <3>3
  <2>4. CASE MailTaken(t)
    <3> DEFINE x == [tick[t] EXCEPT !.pc = "mark"]
    <3>1. x \in TickType /\ x.owner <= owners
      BY <1>2 DEF TickType
    <3>2. tick' = [tick EXCEPT ![t] = x]
      BY <1>2, <2>4 DEF MailTaken, TickType
    <3> QED BY <3>1, <3>2
  <2> QED BY <2>1, <2>2, <2>3, <2>4 DEF TickDoes, Ticks1, Relayed, Refused, Tick, NotifyNobody,
             MarkSent, MailFails, MailTakenForFailed
<1>6. tick' \in [Ticks -> TickType] /\ \A u \in Ticks : tick'[u].owner <= owners'
  BY <1>1, <1>5, OneTick
<1>9. lost' \in 0 .. MaxLost
  <2>1. lost \in 0 .. MaxLost
    BY DEF Typed, TypeOK, RemindersTypeOK
  <2>2. lost' = lost \/ (lost < MaxLost /\ lost' = lost + 1)
    BY DEF TickDoes, Ticks1, Relayed, Refused, Tick, TickStarts, NotifyNobody, Notify, MarkSent,
       MailTaken, MailFails, MailTakenForFailed
  <2> QED BY <2>1, <2>2, Constants
<1>7. /\ acct' \in AcctType \cup {None} /\ (acct' # None => acct'.owner = owners')
      /\ owners' \in 0 .. MaxOwners /\ owners <= owners' /\ enabled' \in BOOLEAN
      /\ now' \in Time /\ crashes' \in 0 .. MaxCrashes /\ clicked' \subseteq Owners
  BY <1>1, <1>3, RowKeptType DEF Typed, TypeOK, RemindersTypeOK
<1>8. Typed'
  BY <1>1, <1>4, <1>6, <1>7, <1>9, UpStep, AllTyped
<1> QED BY <1>1, <1>3, <1>8
-----------------------------------------------------------------------------
LEMMA TypesInit == Init => Typed
<1> SUFFICES ASSUME Init PROVE Typed
  OBVIOUS
<1>1. PICK d \in Databases :
        /\ columns = d.columns /\ operator = d.operator
        /\ acct = IF d.users THEN EarlyAcct ELSE None
        /\ owners = IF d.users THEN 1 ELSE 0
        /\ early = IF d.users THEN {1} ELSE {}
  BY DEF Init
<1>2. EarlyAcct \in AcctType /\ EarlyAcct.owner = 1 /\ 1 \in Owners
  BY Constants DEF EarlyAcct, AcctType, Owners
<1>3. columns \subseteq {"account_id", "email_verified_at"} /\ operator \in OperatorRow \cup {None}
  <2>1. \A e \in Databases : e.columns \subseteq {"account_id", "email_verified_at"}
    BY DEF Databases
  <2>2. \A e \in Databases : e.operator = None \/ e.operator \in OperatorRow
    <3> DEFINE pending == [exempt |-> FALSE, trial |-> None]
               exempt == [exempt |-> TRUE, trial |-> None]
    <3>1. pending \in OperatorRow /\ exempt \in OperatorRow
      BY DEF OperatorRow
    <3>2. Databases =
            {[columns |-> {}, users |-> FALSE, operator |-> None],
             [columns |-> {}, users |-> TRUE, operator |-> None],
             [columns |-> {"account_id"}, users |-> TRUE, operator |-> pending],
             [columns |-> {"account_id", "email_verified_at"}, users |-> FALSE, operator |-> exempt]}
      BY DEF Databases
    <3> HIDE DEF pending, exempt
    <3> QED BY <3>1, <3>2
  <2> QED BY <1>1, <2>1, <2>2
<1>4. tick \in [Ticks -> TickType] /\ \A t \in Ticks : tick[t].owner = 0
  BY NoTickType DEF Init
<1>5. mails \in [Owners -> [Kinds -> Nat]] /\ lost \in 0 .. MaxLost
  BY Constants DEF Init
<1>6. /\ acct \in AcctType \cup {None} /\ (acct # None => acct.owner = owners)
      /\ owners \in 0 .. MaxOwners /\ early \subseteq 1 .. owners /\ early \subseteq Owners
      /\ \A t \in Ticks : tick[t].owner <= owners
  BY <1>1, <1>2, <1>4, Constants DEF Owners
<1>7. boot = "accounts" /\ now \in Time /\ enabled \in BOOLEAN /\ crashes \in 0 .. MaxCrashes /\ clicked = {}
  BY Constants DEF Init, Time
<1> QED BY <1>3, <1>4, <1>5, <1>6, <1>7
        DEF Typed, TypeOK, RemindersTypeOK, Owned, Seeded, Steps, OperatorRow

LEMMA TypesStep == Typed /\ [Next]_all => Typed'
<1> SUFFICES ASSUME Typed, [Next]_all PROVE Typed'
  OBVIOUS
<1>1. CASE UNCHANGED all
  BY <1>1 DEF all, vars, startup, database, Typed, TypeOK, RemindersTypeOK, Owned, Seeded
<1>2. ASSUME NEW t \in Ticks, Ticks1(t) \/ Relayed(t) \/ Refused(t) PROVE Typed'
  BY <1>2, TickTyped DEF TickDoes
<1> QED BY <1>1, <1>2, BootsTyped, SignsUpTyped, ChangesTyped, AdvanceTyped, StopTyped DEF Next

\* The tables and the ticks are well formed, whatever the age of the database and wherever
\* the process stopped (db.ts, billing.ts).
THEOREM StartupTyped == Spec => []TypeOK
<1>1. Typed => TypeOK
  BY DEF Typed
<1> QED BY <1>1, TypesInit, TypesStep, PTL DEF Spec
-----------------------------------------------------------------------------
(* Verified addresses and the operator's account. *)

HasGate == "email_verified_at" \in columns

\* Before the gate everybody was there before it. The process serves only when the gate
\* is there, and, as long as it has not stopped, when those of before have been let in.
GateInv ==
  /\ acct # None /\ acct.mailable => acct.owner \in early \cup clicked
  /\ ~HasGate \/ boot = "grandfather" => (acct # None => acct.owner \in early)
  /\ boot \in {"up", "main", "grandfather"} => HasGate
  /\ crashes = 0 /\ acct # None /\ acct.owner \in early
       => acct.mailable \/ ~HasGate \/ boot = "grandfather"

LEMMA GateInit == Init => GateInv
<1> SUFFICES ASSUME Init PROVE GateInv
  OBVIOUS
<1>1. PICK d \in Databases :
        /\ columns = d.columns
        /\ acct = IF d.users THEN EarlyAcct ELSE None
        /\ early = IF d.users THEN {1} ELSE {}
  BY DEF Init
<1>2. d.users => "email_verified_at" \notin d.columns
  BY DEF Databases
<1>3. boot = "accounts"
  BY DEF Init
<1>4. CASE d.users
  BY <1>1, <1>2, <1>3, <1>4 DEF GateInv, HasGate, EarlyAcct
<1>5. CASE ~d.users
  BY <1>1, <1>3, <1>5 DEF GateInv, HasGate
<1> QED BY <1>4, <1>5

\* Steps that leave the database, the start and the verification of the owner.
LEMMA GateStays ==
  ASSUME GateInv, UNCHANGED <<boot, columns, early>>, crashes' = crashes, clicked \subseteq clicked',
         acct' # None => /\ acct # None /\ acct'.owner = acct.owner
                         /\ acct.mailable => acct'.mailable
                         /\ acct'.mailable => acct.mailable \/ acct'.owner \in clicked'
  PROVE  GateInv'
  BY DEF GateInv, HasGate

LEMMA GateStep == Typed /\ GateInv /\ [Next]_all => GateInv'
<1> SUFFICES ASSUME Typed, GateInv, [Next]_all PROVE GateInv'
  OBVIOUS
<1>1. CASE Boots
  <2>0. /\ UNCHANGED <<crashes, early, clicked>> /\ RowKept
        /\ acct \in AcctType \cup {None}
    BY <1>1, BootsTyped DEF Typed, TypeOK, RemindersTypeOK
  <2>1. CASE Seed \/ Exempt
    <3>1. UNCHANGED <<acct, columns>> /\ boot \in {"accounts", "exempt"} /\ boot' \in {"exempt", "owner"}
      BY <2>1 DEF Seed, Exempt, Goes
    <3> QED BY <2>0, <3>1 DEF GateInv, HasGate
  <2>2. CASE AddOwner
    <3>1. /\ UNCHANGED acct /\ boot = "owner" /\ boot' \in {"dead", "gate"}
          /\ columns' = columns \/ columns' = columns \cup {"account_id"}
      BY <2>2 DEF AddOwner, Goes
    <3>2. HasGate' <=> HasGate
      BY <3>1 DEF HasGate
    <3> QED BY <2>0, <3>1, <3>2 DEF GateInv
  <2>3. CASE AddGate
    <3>1. /\ UNCHANGED acct /\ boot = "gate" /\ HasGate'
          /\ boot' = IF HasGate THEN "main" ELSE "grandfather"
      BY <2>3 DEF AddGate, Goes, GrandfatherNext, HasGate
    <3> QED BY <2>0, <3>1 DEF GateInv
  <2>4. CASE Grandfather
    <3>1. /\ columns' = columns /\ boot = "grandfather" /\ boot' = "main"
          /\ acct' = IF acct = None THEN None ELSE [acct EXCEPT !.mailable = TRUE]
      BY <2>4 DEF Grandfather, Goes, database
    <3>2. acct # None => acct' \in AcctType /\ acct'.mailable /\ acct'.owner = acct.owner
      BY <2>0, <3>1 DEF AcctType
    <3>3. acct = None => acct' = None
      BY <3>1
    <3> QED BY <2>0, <3>1, <3>2, <3>3 DEF GateInv, HasGate
  <2>5. CASE Main
    <3>1. /\ columns' = columns /\ boot = "main" /\ boot' = "up"
          /\ acct' = acct \/ (acct # None /\ acct' = [acct EXCEPT !.trial = now + TrialLen])
      BY <2>5 DEF Main, Goes, StartPendingTrials
    <3>2. acct # None => acct'.mailable = acct.mailable /\ acct'.owner = acct.owner
      BY <2>0, <3>1 DEF AcctType
    <3>3. acct = None => acct' = None
      BY <3>1
    <3> QED BY <2>0, <3>1, <3>2, <3>3 DEF GateInv, HasGate
  <2> QED BY <1>1, <2>1, <2>2, <2>3, <2>4, <2>5 DEF Boots
<1>2. CASE SignsUp
  <2>1. /\ Up /\ UNCHANGED <<crashes, clicked>> /\ acct'.owner = owners + 1 /\ ~acct'.mailable
    BY <1>2, SignsUpTyped
  <2>2. UNCHANGED <<boot, columns, early>> /\ boot = "up"
    BY <2>1, UpStep
  <2>3. acct'.owner \notin early
    BY <2>1, Constants DEF Typed, Owned, TypeOK, RemindersTypeOK
  <2> QED BY <2>1, <2>2, <2>3 DEF GateInv, HasGate
<1>3. CASE Changes
  <2>1. /\ Up /\ UNCHANGED crashes /\ acct # None /\ (acct' = None \/ RowKept)
        /\ clicked' = IF acct' # None /\ acct'.mailable THEN clicked \cup {acct'.owner} ELSE clicked
    BY <1>3, ChangesTyped
  <2> QED BY <2>1, UpStep, GateStays DEF RowKept, Rewritten
<1>4. ASSUME NEW t \in Ticks, TickDoes(t) PROVE GateInv'
  <2>1. /\ Up /\ RowKept /\ UNCHANGED <<crashes, clicked>>
        /\ acct # None => acct'.mailable = acct.mailable
    BY <1>4, TickTyped
  <2> QED BY <2>1, UpStep, GateStays DEF RowKept, Rewritten
<1>5. CASE Advance /\ UNCHANGED startup
  <2>1. UNCHANGED <<acct, crashes, boot, columns, early, clicked>>
    BY <1>5 DEF Advance, startup, database
  <2> QED BY <2>1, GateStays
<1>6. ASSUME NEW en \in BOOLEAN, Stop(en) PROVE GateInv'
  <2>1. UNCHANGED <<acct, columns, early, clicked>> /\ crashes' = crashes + 1 /\ boot' = "accounts"
    BY <1>6, StopTyped
  <2>2. crashes' # 0
    BY <2>1, Constants DEF Typed, TypeOK, RemindersTypeOK
  <2> QED BY <2>1, <2>2 DEF GateInv, HasGate
<1>7. CASE UNCHANGED all
  BY <1>7, GateStays DEF all, vars, startup, database
<1> QED BY <1>1, <1>2, <1>3, <1>4, <1>5, <1>6, <1>7 DEF Next, TickDoes

\* A pending sign-up stays pending until its link is opened, wherever the start-up stopped,
\* and who was there before the gate is in if it never stopped (db.ts:454-457).
THEOREM PendingStaysPending == Spec => []VerifiedByLink
<1>1. Typed /\ GateInv => VerifiedByLink
  BY DEF GateInv, VerifiedByLink
<1> QED BY <1>1, TypesInit, TypesStep, GateInit, GateStep, PTL DEF Spec

\* Once the row is there, and it is when the first statement has run, it has no trial.
NoTrial ==
  operator # None \/ boot \in {"exempt", "owner", "gate", "grandfather", "main"}
    => operator.trial = None

\* No start of the process begins a trial for the operator's account, wherever the one
\* before stopped (db.ts:435).
THEOREM OperatorExempt == Spec => []OperatorNotBilled
<1>1. Init => NoTrial
  BY DEF Init, Databases, NoTrial
<1>2. Typed /\ NoTrial /\ [Next]_all => NoTrial'
  <2> SUFFICES ASSUME Typed, NoTrial, [Next]_all PROVE NoTrial'
    OBVIOUS
  <2>1. ASSUME UNCHANGED operator,
               \/ boot' \in {"accounts", "up", "dead", boot}
               \/ boot \in {"exempt", "owner", "gate", "grandfather", "main"}
        PROVE  NoTrial'
    BY <2>1 DEF NoTrial
  <2>2. CASE Seed
    BY <2>2 DEF Seed, NoTrial
  <2>3. CASE Exempt
    <3>2. operator \in OperatorRow
      BY <2>3 DEF Exempt, Goes, Typed, Seeded
    <3>3. operator'.trial = operator.trial
      BY <2>3, <3>2 DEF Exempt, OperatorRow
    <3> QED BY <2>3, <3>3 DEF Exempt, Goes, NoTrial
  <2>4. CASE Main
    <3>1. operator.exempt /\ boot = "main" /\ boot' = "up"
      BY <2>4 DEF Main, Goes, Typed, Seeded
    <3> QED BY <2>1, <2>4, <3>1 DEF Main
  <2>5. CASE AddOwner \/ AddGate \/ Grandfather
    BY <2>1, <2>5 DEF AddOwner, AddGate, Grandfather, Goes, database
  <2>6. ASSUME Up PROVE NoTrial'
    BY <2>1, <2>6, UpStep
  <2>7. ASSUME NEW en \in BOOLEAN, Stop(en) PROVE NoTrial'
    BY <2>1, <2>7, StopTyped
  <2>8. CASE UNCHANGED startup
    BY <2>1, <2>8 DEF startup, database
  <2>9. CASE UNCHANGED all
    BY <2>1, <2>9 DEF all, startup, database
  <2> QED BY <2>2, <2>3, <2>4, <2>5, <2>6, <2>7, <2>8, <2>9
          DEF Next, Boots, SignsUp, Changes, Ticks1, Relayed, Refused
<1>3. NoTrial => OperatorNotBilled
  BY DEF NoTrial, OperatorNotBilled
<1> QED BY <1>1, <1>2, <1>3, TypesInit, TypesStep, PTL DEF Spec
-----------------------------------------------------------------------------
(* Reminders. *)

IsMarked(b, k) == IF k = "soon" THEN b.reminded ELSE b.ended

\* Owner o may yet be found due for a mail of kind k: he is still to come, or the row is
\* his and not marked.
Open(o, k) == o > owners \/ (acct # None /\ acct.owner = o /\ ~IsMarked(acct, k))

\* Tick t may yet send owner o a mail of kind k before the process stops.
MayMail(t, o, k) ==
  LET x == tick[t]
  IN  \/ x.pc = "mail" /\ x.owner = o /\ x.kind = k
      \/ x.pc = "due" /\ x.kind = k /\ (o > owners \/ (acct # None /\ acct.owner = o))
      \/ Open(o, k) /\ ~(x.pc = "mark" /\ x.owner = o /\ x.kind = k)

May(o, k) == {t \in Ticks : MayMail(t, o, k)}

\* The mails that went out and those that may yet: one for each tick, and again for each
\* restart, and one for each that was taken for failed. RemindedOnce alone does not say why a tick mails but once.
MailsBounded ==
  \A o \in Owners, k \in Kinds :
    mails[o][k] + Cardinality(May(o, k)) <= Cardinality(Ticks) * (1 + crashes) + lost

LEMMA MayFinite ==
  ASSUME NEW S \in SUBSET Ticks
  PROVE  IsFiniteSet(S) /\ Cardinality(S) \in Nat /\ Cardinality(S) <= Cardinality(Ticks)
  BY Constants, FS_Subset, FS_CardinalityType

\* No mail goes out and no more ticks may mail.
LEMMA FewerMay ==
  ASSUME Typed, MailsBounded, UNCHANGED <<mails, lost, crashes>>,
         \A o \in Owners, k \in Kinds : May(o, k)' \subseteq May(o, k)
  PROVE  MailsBounded'
<1> SUFFICES ASSUME NEW o \in Owners, NEW k \in Kinds
             PROVE  mails[o][k] + Cardinality(May(o, k)') <= Cardinality(Ticks) * (1 + crashes) + lost
  BY DEF MailsBounded
<1>1. May(o, k) \in SUBSET Ticks
  BY DEF May
<1>2. IsFiniteSet(May(o, k)) /\ May(o, k)' \subseteq May(o, k) /\ Cardinality(May(o, k)) \in Nat
  BY <1>1, MayFinite
<1>3. Cardinality(May(o, k)') <= Cardinality(May(o, k)) /\ Cardinality(May(o, k)') \in Nat
  BY <1>2, FS_Subset, FS_CardinalityType
<1>4. mails[o][k] + Cardinality(May(o, k)) <= Cardinality(Ticks) * (1 + crashes) + lost
  BY DEF MailsBounded
<1>5. mails[o][k] \in Nat /\ crashes \in Nat /\ lost \in Nat /\ Cardinality(Ticks) \in Nat
  BY Constants, FS_CardinalityType DEF Typed, TypeOK, RemindersTypeOK
<1>6. Cardinality(Ticks) * (1 + crashes) \in Nat
  BY <1>5
<1> QED BY <1>2, <1>3, <1>4, <1>5, <1>6

\* The row is kept or goes, and nobody signs up: nothing opens.
LEMMA NothingOpens ==
  ASSUME Typed, UNCHANGED owners, acct' = None \/ RowKept, NEW o, NEW k \in Kinds
  PROVE  /\ Open(o, k)' => Open(o, k)
         /\ (acct' # None /\ acct'.owner = o) => (acct # None /\ acct.owner = o)
<1>1. acct' # None => acct # None /\ acct'.owner = acct.owner
  BY DEF RowKept, Rewritten
<1>2. acct' # None => (IsMarked(acct, k) => IsMarked(acct', k))
  BY DEF RowKept, Rewritten, IsMarked
<1> QED BY <1>1, <1>2 DEF Open

\* No mail goes out; the ticks are what they were, but for one perhaps, for which nothing
\* opens either.
LEMMA NoNewMail ==
  ASSUME Typed, MailsBounded, UNCHANGED <<owners, mails, lost, crashes>>, acct' = None \/ RowKept,
         \A u \in Ticks : \/ tick'[u] = tick[u]
                          \/ \A o \in Owners, k \in Kinds : MayMail(u, o, k)' => MayMail(u, o, k)
  PROVE  MailsBounded'
<1>1. ASSUME NEW o \in Owners, NEW k \in Kinds, NEW u \in Ticks, MayMail(u, o, k)'
      PROVE  MayMail(u, o, k)
  <2>1. CASE tick'[u] = tick[u]
    <3>1. /\ Open(o, k)' => Open(o, k)
          /\ (acct' # None /\ acct'.owner = o) => (acct # None /\ acct.owner = o)
      BY NothingOpens
    <3> QED BY <1>1, <2>1, <3>1 DEF MayMail
  <2> QED BY <1>1, <2>1
<1>2. ASSUME NEW o \in Owners, NEW k \in Kinds PROVE May(o, k)' \subseteq May(o, k)
  BY <1>1 DEF May
<1> QED BY <1>2, FewerMay

\* A mail goes out: the tick that sent it was one that might, and is not any more.
LEMMA OneMail ==
  ASSUME Typed, MailsBounded, NEW t \in Ticks, MailTaken(t)
  PROVE  MailsBounded'
<1> DEFINE p == tick[t].owner
           q == tick[t].kind
<1>1. /\ UNCHANGED <<acct, lost, owners, crashes>> /\ tick[t].pc = "mail"
      /\ mails' = [mails EXCEPT ![p][q] = @ + 1]
      /\ tick' = [tick EXCEPT ![t].pc = "mark"]
  BY DEF MailTaken
<1>2. /\ mails \in [Owners -> [Kinds -> Nat]] /\ tick \in [Ticks -> TickType]
      /\ tick[t] \in TickType /\ q \in Kinds /\ p <= owners
      /\ p \in Nat /\ owners \in Nat /\ Owners \subseteq Nat
  BY Constants DEF Typed, TypeOK, RemindersTypeOK, TickType, Owned, Owners
<1>3. /\ \A u \in Ticks : u # t => tick'[u] = tick[u]
      /\ tick'[t].pc = "mark" /\ tick'[t].owner = p /\ tick'[t].kind = q
  BY <1>1, <1>2 DEF TickType
<1>4. \A o, k : Open(o, k)' <=> Open(o, k)
  BY <1>1 DEF Open, IsMarked
<1> SUFFICES ASSUME NEW o \in Owners, NEW k \in Kinds
             PROVE  mails'[o][k] + Cardinality(May(o, k)') <= Cardinality(Ticks) * (1 + crashes) + lost
  BY <1>1 DEF MailsBounded
<1>5. \A u \in Ticks : u # t => (MayMail(u, o, k)' <=> MayMail(u, o, k))
  BY <1>1, <1>3, <1>4 DEF MayMail
<1>6. /\ May(o, k) \in SUBSET Ticks /\ IsFiniteSet(May(o, k)) /\ Cardinality(May(o, k)) \in Nat
      /\ mails[o][k] \in Nat /\ Cardinality(Ticks) * (1 + crashes) \in Nat /\ lost \in Nat
      /\ mails[o][k] + Cardinality(May(o, k)) <= Cardinality(Ticks) * (1 + crashes) + lost
  <2>1. May(o, k) \in SUBSET Ticks
    BY DEF May
  <2>2. crashes \in Nat /\ Cardinality(Ticks) \in Nat /\ lost \in Nat
    BY Constants, FS_CardinalityType DEF Typed, TypeOK, RemindersTypeOK
  <2>3. Cardinality(Ticks) * (1 + crashes) \in Nat
    BY <2>2
  <2> QED BY <1>2, <2>1, <2>2, <2>3, MayFinite DEF MailsBounded
<1>7. CASE o = p /\ k = q
  <2>1. t \in May(o, k)
    BY <1>1, <1>7 DEF May, MayMail
  <2>2. ~MayMail(t, o, k)'
    BY <1>2, <1>3, <1>4, <1>7 DEF MayMail
  <2>3. May(o, k)' = May(o, k) \ {t}
    BY <1>5, <2>2 DEF May
  <2>4. Cardinality(May(o, k)') = Cardinality(May(o, k)) - 1
    BY <1>6, <2>1, <2>3, FS_RemoveElement
  <2>5. mails'[o][k] = mails[o][k] + 1
    BY <1>1, <1>2, <1>7
  <2> QED BY <1>6, <2>4, <2>5
<1>8. CASE ~(o = p /\ k = q)
  <2>1. MayMail(t, o, k)' => MayMail(t, o, k)
    BY <1>1, <1>3, <1>4, <1>8 DEF MayMail
  <2>2. May(o, k)' \subseteq May(o, k)
    BY <1>5, <2>1 DEF May
  <2>3. Cardinality(May(o, k)') <= Cardinality(May(o, k)) /\ Cardinality(May(o, k)') \in Nat
    BY <1>6, <2>2, FS_Subset, FS_CardinalityType
  <2>4. mails'[o][k] = mails[o][k]
    <3> DEFINE cell == [mails[p] EXCEPT ![q] = @ + 1]
    <3>1. mails' = [mails EXCEPT ![p] = cell]
      BY <1>1
    <3>2. p \in Owners /\ k # q => cell[k] = mails[p][k]
      BY <1>2
    <3> HIDE DEF cell
    <3>3. CASE o = p
      BY <1>2, <1>8, <3>1, <3>2, <3>3
    <3>4. CASE o # p
      BY <1>2, <3>1, <3>4
    <3> QED BY <3>3, <3>4
  <2> QED BY <1>6, <2>3, <2>4
<1> QED BY <1>7, <1>8

\* A mail goes out and is taken for failed: the tick that sent it may send another, and
\* that is counted.
LEMMA MailTwice ==
  ASSUME Typed, MailsBounded, NEW t \in Ticks, MailTakenForFailed(t)
  PROVE  MailsBounded'
<1> DEFINE p == tick[t].owner
           q == tick[t].kind
<1>1. /\ UNCHANGED <<acct, owners, crashes>> /\ tick[t].pc = "mail"
      /\ mails' = [mails EXCEPT ![p][q] = @ + 1] /\ lost' = lost + 1
      /\ tick' = [tick EXCEPT ![t] = NoTick]
  BY DEF MailTakenForFailed
<1>2. /\ mails \in [Owners -> [Kinds -> Nat]] /\ tick \in [Ticks -> TickType]
      /\ crashes \in Nat /\ lost \in Nat
  BY Constants DEF Typed, TypeOK, RemindersTypeOK
<1>3. (\A u \in Ticks : u # t => tick'[u] = tick[u]) /\ tick'[t].pc = "idle"
  BY <1>1, <1>2, NoTickType
<1>4. \A o, k : Open(o, k)' <=> Open(o, k)
  BY <1>1 DEF Open, IsMarked
<1> SUFFICES ASSUME NEW o \in Owners, NEW k \in Kinds
             PROVE  mails'[o][k] + Cardinality(May(o, k)') <= Cardinality(Ticks) * (1 + crashes') + lost'
  BY DEF MailsBounded
<1>5. ASSUME NEW u \in Ticks, MayMail(u, o, k)' PROVE MayMail(u, o, k)
  <2>1. CASE u = t
    BY <1>1, <1>3, <1>4, <1>5, <2>1 DEF MayMail
  <2>2. CASE u # t
    BY <1>1, <1>3, <1>4, <1>5, <2>2 DEF MayMail
  <2> QED BY <2>1, <2>2
<1>6. May(o, k)' \subseteq May(o, k) /\ May(o, k) \in SUBSET Ticks
  BY <1>5 DEF May
<1>7. /\ Cardinality(May(o, k)') <= Cardinality(May(o, k))
      /\ Cardinality(May(o, k)') \in Nat /\ Cardinality(May(o, k)) \in Nat
  BY <1>6, MayFinite, FS_Subset, FS_CardinalityType
<1>8. mails'[o][k] \in Nat /\ mails[o][k] \in Nat /\ mails'[o][k] <= mails[o][k] + 1
  <2> DEFINE cell == [mails[p] EXCEPT ![q] = @ + 1]
  <2>1. mails' = [mails EXCEPT ![p] = cell]
    BY <1>1
  <2>2. ASSUME p \in Owners
        PROVE  cell[k] \in Nat /\ mails[p][k] \in Nat /\ cell[k] <= mails[p][k] + 1
    <3>1. mails[p] \in [Kinds -> Nat] /\ mails[p][k] \in Nat
      BY <1>2, <2>2
    <3>2. cell[k] = IF k = q THEN mails[p][k] + 1 ELSE mails[p][k]
      BY <3>1
    <3> HIDE DEF cell
    <3> QED BY <3>1, <3>2
  <2>3. mails[o][k] \in Nat
    BY <1>2
  <2> HIDE DEF cell
  <2>4. CASE o = p
    BY <1>2, <2>1, <2>2, <2>3, <2>4
  <2>5. CASE o # p
    BY <1>2, <2>1, <2>3, <2>5
  <2> QED BY <2>4, <2>5
<1>9. mails[o][k] + Cardinality(May(o, k)) <= Cardinality(Ticks) * (1 + crashes) + lost
  BY DEF MailsBounded
<1>10. Cardinality(Ticks) * (1 + crashes) \in Nat
  BY <1>2, Constants, FS_CardinalityType
<1> QED BY <1>1, <1>2, <1>7, <1>8, <1>9, <1>10

LEMMA TickMails ==
  ASSUME Typed, MailsBounded, NEW t \in Ticks, TickDoes(t)
  PROVE  MailsBounded'
<1>1. /\ RowKept /\ UNCHANGED <<owners, crashes>> /\ tick \in [Ticks -> TickType]
      /\ tick[t] \in TickType /\ tick[t].owner <= owners
      /\ owners \in Nat /\ Owners \subseteq Nat
  BY TickTyped, Constants DEF Typed, TypeOK, RemindersTypeOK, Owned, Owners
<1>2. ASSUME UNCHANGED <<mails, lost>>, \A u \in Ticks : u # t => tick'[u] = tick[u],
             \A o \in Owners, k \in Kinds : MayMail(t, o, k)' => MayMail(t, o, k)
      PROVE  MailsBounded'
  BY <1>1, <1>2, NoNewMail
<1>3. \A o \in Owners, k \in Kinds :
        /\ Open(o, k)' => Open(o, k)
        /\ (acct' # None /\ acct'.owner = o) => (acct # None /\ acct.owner = o)
  BY <1>1, NothingOpens
<1>4. CASE TickStarts(t)
  <2>1. /\ UNCHANGED <<mails, lost, acct>> /\ tick[t].pc = "idle" /\ Due(acct) # "nothing"
        /\ tick' = [tick EXCEPT ![t] = [pc |-> "due", owner |-> acct.owner, kind |-> Due(acct)]]
    BY <1>4 DEF TickStarts
  <2>2. /\ \A u \in Ticks : u # t => tick'[u] = tick[u]
        /\ tick'[t].pc = "due" /\ tick'[t].kind = Due(acct)
    BY <1>1, <2>1
  <2>3. Open(acct.owner, Due(acct)) /\ acct # None
    BY <2>1, DueKind DEF Open, IsMarked, Kinds
  <2>4. ASSUME NEW o \in Owners, NEW k \in Kinds, MayMail(t, o, k)' PROVE MayMail(t, o, k)
    <3>1. Open(o, k)
      BY <1>1, <1>3, <2>1, <2>2, <2>3, <2>4 DEF MayMail, Open
    <3> QED BY <2>1, <3>1 DEF MayMail
  <2> QED BY <1>2, <2>1, <2>2, <2>4
<1>5. CASE tick' = [tick EXCEPT ![t] = NoTick] /\ UNCHANGED <<mails, lost>> /\ tick[t].pc # "mark"
  <2>1. (\A u \in Ticks : u # t => tick'[u] = tick[u]) /\ tick'[t].pc = "idle"
    BY <1>1, <1>5, NoTickType
  <2>2. ASSUME NEW o \in Owners, NEW k \in Kinds, MayMail(t, o, k)' PROVE MayMail(t, o, k)
    BY <1>3, <1>5, <2>1, <2>2 DEF MayMail
  <2> QED BY <1>2, <1>5, <2>1, <2>2
<1>6. CASE Notify(t)
  <2>1. /\ UNCHANGED <<mails, lost, acct>> /\ tick[t].pc = "due" /\ acct # None
        /\ tick' = [tick EXCEPT ![t].pc = "mail", ![t].owner = acct.owner]
    BY <1>6 DEF Notify, Mailable
  <2>2. /\ \A u \in Ticks : u # t => tick'[u] = tick[u]
        /\ tick'[t].pc = "mail" /\ tick'[t].kind = tick[t].kind /\ tick'[t].owner = acct.owner
    BY <1>1, <2>1 DEF TickType
  <2>3. ASSUME NEW o \in Owners, NEW k \in Kinds, MayMail(t, o, k)' PROVE MayMail(t, o, k)
    BY <1>3, <2>1, <2>2, <2>3 DEF MayMail
  <2> QED BY <1>2, <2>1, <2>2, <2>3
<1>7. CASE MailTaken(t) \/ MailTakenForFailed(t)
  BY <1>7, OneMail, MailTwice
<1>8. CASE MarkSent(t)
  <2>1. /\ UNCHANGED <<mails, lost>> /\ tick[t].pc = "mark" /\ acct' = Mark(tick[t].kind)
        /\ tick' = [tick EXCEPT ![t] = NoTick]
    BY <1>8 DEF MarkSent
  <2>2. (\A u \in Ticks : u # t => tick'[u] = tick[u]) /\ tick'[t].pc = "idle"
    BY <1>1, <2>1, NoTickType
  <2>3. tick[t].kind \in Kinds
    BY <1>1 DEF TickType
  <2>4. /\ acct = None => acct' = None
        /\ acct # None => acct'.reminded /\ (tick[t].kind = "ended" => acct'.ended)
    BY <2>1, <2>3, Marked DEF RowKept
  <2>5. ASSUME NEW o \in Owners, NEW k \in Kinds, o = tick[t].owner, k = tick[t].kind
        PROVE  ~Open(o, k)'
    <3>1. ~(o > owners') /\ o <= owners
      BY <1>1, <2>5
    <3>2. acct' # None => IsMarked(acct', k)
      BY <2>3, <2>4, <2>5 DEF IsMarked, Kinds
    <3> QED BY <3>1, <3>2 DEF Open
  <2>6. ASSUME NEW o \in Owners, NEW k \in Kinds, MayMail(t, o, k)' PROVE MayMail(t, o, k)
    <3>1. Open(o, k)'
      BY <2>2, <2>6 DEF MayMail
    <3>2. Open(o, k)
      BY <1>3, <3>1
    <3>3. ~(tick[t].owner = o /\ tick[t].kind = k)
      BY <2>5, <3>1
    <3> QED BY <3>2, <3>3 DEF MayMail
  <2> QED BY <1>2, <2>1, <2>2, <2>6
<1> QED BY <1>4, <1>5, <1>6, <1>7, <1>8
        DEF TickDoes, Ticks1, Relayed, Refused, Tick, NotifyNobody, MailFails, MailTakenForFailed
-----------------------------------------------------------------------------
LEMMA BoundInit == Init => MailsBounded
<1> SUFFICES ASSUME Init, NEW o \in Owners, NEW k \in Kinds
             PROVE  mails[o][k] + Cardinality(May(o, k)) <= Cardinality(Ticks) * (1 + crashes) + lost
  BY DEF MailsBounded
<1>1. May(o, k) \in SUBSET Ticks /\ mails[o][k] = 0 /\ crashes = 0 /\ lost = 0
  BY DEF Init, May
<1>2. Cardinality(May(o, k)) <= Cardinality(Ticks) /\ Cardinality(May(o, k)) \in Nat
  BY <1>1, MayFinite
<1>3. Cardinality(Ticks) \in Nat
  BY Constants, FS_CardinalityType
<1> QED BY <1>1, <1>2, <1>3

\* The process stops: every tick of the next one may mail again, and it is counted.
LEMMA StopBounded ==
  ASSUME Typed, MailsBounded, UNCHANGED <<mails, lost>>, crashes' = crashes + 1
  PROVE  MailsBounded'
<1> SUFFICES ASSUME NEW o \in Owners, NEW k \in Kinds
             PROVE  mails'[o][k] + Cardinality(May(o, k)') <= Cardinality(Ticks) * (1 + crashes') + lost
  BY DEF MailsBounded
<1>1. May(o, k) \in SUBSET Ticks /\ May(o, k)' \in SUBSET Ticks
  BY DEF May
<1>2. /\ Cardinality(May(o, k)) \in Nat /\ Cardinality(May(o, k)') \in Nat
      /\ Cardinality(May(o, k)') <= Cardinality(Ticks)
  BY <1>1, MayFinite
<1>3. crashes \in Nat /\ lost \in Nat /\ Cardinality(Ticks) \in Nat /\ mails[o][k] \in Nat
  BY Constants, FS_CardinalityType DEF Typed, TypeOK, RemindersTypeOK
<1>4. mails[o][k] + Cardinality(May(o, k)) <= Cardinality(Ticks) * (1 + crashes) + lost
  BY DEF MailsBounded
<1>5. Cardinality(Ticks) * (1 + (crashes + 1)) = Cardinality(Ticks) * (1 + crashes) + Cardinality(Ticks)
  BY <1>3
<1>6. Cardinality(Ticks) * (1 + crashes) \in Nat
  BY <1>3
<1> QED BY <1>2, <1>3, <1>4, <1>5, <1>6

\* The next owner signs up: nothing opens that was not open, for it was still to come.
LEMMA SignUpBounded ==
  ASSUME Typed, MailsBounded, SignsUp
  PROVE  MailsBounded'
<1>1. /\ acct = None /\ acct' = NewAcct(owners + 1) /\ owners' = owners + 1
      /\ UNCHANGED <<tick, mails, lost, crashes>> /\ owners \in Nat /\ Owners \subseteq Nat
  BY Constants DEF SignsUp, Signup, Typed, TypeOK, RemindersTypeOK, Owners
<1>2. acct'.owner = owners + 1
  BY <1>1 DEF NewAcct
<1>3. ASSUME NEW o \in Owners, NEW k \in Kinds, NEW u \in Ticks, MayMail(u, o, k)'
      PROVE  MayMail(u, o, k)
  <2>1. (o > owners' \/ (acct' # None /\ acct'.owner = o)) => o > owners
    BY <1>1, <1>2
  <2>2. Open(o, k)' => Open(o, k)
    BY <2>1 DEF Open
  <2> QED BY <1>1, <1>3, <2>1, <2>2 DEF MayMail
<1>4. ASSUME NEW o \in Owners, NEW k \in Kinds PROVE May(o, k)' \subseteq May(o, k)
  BY <1>3 DEF May
<1> QED BY <1>1, <1>4, FewerMay

LEMMA BoundStep == Typed /\ MailsBounded /\ [Next]_all => MailsBounded'
<1> SUFFICES ASSUME Typed, MailsBounded, [Next]_all PROVE MailsBounded'
  OBVIOUS
<1>1. ASSUME UNCHANGED <<owners, mails, lost, crashes, tick>>, acct' = None \/ RowKept
      PROVE  MailsBounded'
  BY <1>1, NoNewMail
<1>2. CASE Boots
  BY <1>1, <1>2, BootsTyped
<1>3. CASE Changes
  <2>1. acct' = None \/ RowKept
    BY <1>3, ChangesTyped
  <2>2. UNCHANGED <<owners, mails, lost, crashes, tick>>
    BY <1>3 DEF Changes, AccountChanges
  <2> QED BY <1>1, <2>1, <2>2
<1>4. ASSUME UNCHANGED <<owners, mails, lost, crashes, tick, acct>> PROVE MailsBounded'
  <2>1. RowKept
    BY <1>4 DEF Typed, TypeOK, RemindersTypeOK, RowKept, Rewritten
  <2> QED BY <1>1, <1>4, <2>1
<1>5. CASE Advance /\ UNCHANGED startup
  BY <1>4, <1>5 DEF Advance
<1>6. CASE UNCHANGED all
  BY <1>4, <1>6 DEF all, vars
<1>7. ASSUME NEW en \in BOOLEAN, Stop(en) PROVE MailsBounded'
  BY <1>7, StopBounded DEF Stop
<1>8. CASE SignsUp
  BY <1>8, SignUpBounded
<1>9. ASSUME NEW t \in Ticks, TickDoes(t) PROVE MailsBounded'
  BY <1>9, TickMails
<1> QED BY <1>2, <1>3, <1>5, <1>6, <1>7, <1>8, <1>9 DEF Next, TickDoes

\* A reminder goes out at most once for each tick that may overlap, once more for each of
\* them after every restart, and once more for each mail that went out and was taken for
\* failed (billingTick, billing.ts).
THEOREM RemindersBounded == Spec => []RemindedOnce
<1>1. Typed /\ MailsBounded => RemindedOnce
  <2> SUFFICES ASSUME Typed, MailsBounded, NEW o \in Owners, NEW k \in Kinds
               PROVE  mails[o][k] <= Cardinality(Ticks) * (1 + crashes) + lost
    BY DEF RemindedOnce
  <2>1. May(o, k) \in SUBSET Ticks
    BY DEF May
  <2>2. Cardinality(May(o, k)) \in Nat
    BY <2>1, MayFinite
  <2>3. crashes \in Nat /\ lost \in Nat /\ Cardinality(Ticks) \in Nat /\ mails[o][k] \in Nat
    BY Constants, FS_CardinalityType DEF Typed, TypeOK, RemindersTypeOK
  <2>4. Cardinality(Ticks) * (1 + crashes) \in Nat
    BY <2>3
  <2> QED BY <2>2, <2>3, <2>4 DEF MailsBounded
<1> QED BY <1>1, TypesInit, TypesStep, BoundInit, BoundStep, PTL DEF Spec
=============================================================================
