----------------------------- MODULE Reminders ------------------------------
(***************************************************************************)
(* The free trial of an account and the mail about its end: the clock that *)
(* startPendingTrials starts at start-up, and billingTick (billing.ts). A  *)
(* tick reads its candidates, then mails them one by one, awaiting each,   *)
(* and marks a row when its mail is sent; setInterval does not wait for    *)
(* the tick before, so ticks overlap. The model follows one account; the   *)
(* others are why a tick may wait before it comes to this one. This module *)
(* has what happens while the process runs; Startup adds its start and the *)
(* specification.                                                          *)
(***************************************************************************)
EXTENDS Integers, FiniteSets

CONSTANTS
  Ticks,       \* ticks that may run at once
  None,        \* SQL NULL
  TrialLen,    \* BILLING_TRIAL_MONTHS
  Lead,        \* REMINDER_LEAD_DAYS
  MaxTime,     \* bound: the clock
  MaxOwners,   \* bound: people who have this account id one after the other
  MaxCrashes,  \* bound: restarts of the process
  MaxLost      \* bound: mails that went out and were taken for failed

Time == 0 .. MaxTime
Owners == 1 .. MaxOwners
Kinds == {"soon", "ended"}

ASSUME RemindersConstantsOK ==
  /\ IsFiniteSet(Ticks) /\ {TrialLen, Lead, MaxOwners} \subseteq Nat \ {0}
  /\ {MaxTime, MaxCrashes, MaxLost} \subseteq Nat /\ None \notin Nat

VARIABLES
  now,      \* the clock
  enabled,  \* BILLING_ENABLED of the running process
  acct,     \* the accounts row and email_verified_at of its user (mailable), or None
  tick,     \* billingTick runs
  mails,    \* history: owner -> how many reminders of each kind the relay took
  lost,     \* history: how many mails went out and were taken for failed
  owners,   \* history: how many people had this account
  crashes   \* history: how many restarts there were

vars == <<now, enabled, acct, tick, mails, lost, owners, crashes>>
-----------------------------------------------------------------------------
(* The account.                                                            *)

NewAcct(o) ==
  [owner |-> o, trial |-> IF enabled THEN now + TrialLen ELSE None,
   paid |-> FALSE, reminded |-> FALSE, ended |-> FALSE, mailable |-> FALSE]

\* An account of before billing and of before addresses were verified.
EarlyAcct ==
  [owner |-> 1, trial |-> None, paid |-> FALSE, reminded |-> FALSE, ended |-> FALSE,
   mailable |-> FALSE]

\* createAccount; the id is that of an account deleted before.
Signup ==
  /\ acct = None /\ owners < MaxOwners
  /\ owners' = owners + 1
  /\ acct' = NewAcct(owners + 1)
  /\ UNCHANGED <<now, enabled, tick, mails, lost, crashes>>

\* GET /auth/verify, a webhook that changes the subscription status, deleteAccount.
AccountChanges ==
  /\ acct # None
  /\ \/ ~acct.mailable /\ acct' = [acct EXCEPT !.mailable = TRUE]
     \/ acct' = [acct EXCEPT !.paid = ~@]
     \/ acct' = None
  /\ UNCHANGED <<now, enabled, tick, mails, lost, owners, crashes>>

NoTick == [pc |-> "idle", owner |-> 0, kind |-> "soon"]

\* startPendingTrials, when the new process has billing enabled.
StartPendingTrials(en) ==
  IF en /\ acct # None /\ acct.trial = None
  THEN [acct EXCEPT !.trial = now + TrialLen] ELSE acct

Advance ==
  /\ now < MaxTime
  /\ now' = now + 1
  /\ UNCHANGED <<enabled, acct, tick, mails, lost, owners, crashes>>
-----------------------------------------------------------------------------
(* billingTick.                                                            *)

\* Which mail is due, from the row as it was read when the tick started.
Due(b) ==
  IF b = None THEN "nothing"
  ELSE IF b.trial = None \/ b.paid THEN "nothing"
  ELSE IF now >= b.trial THEN (IF b.ended THEN "nothing" ELSE "ended")
  ELSE IF b.trial - now <= Lead /\ ~b.reminded THEN "soon" ELSE "nothing"

\* The candidates are read; the loop comes to this account after the others.
TickStarts(t) ==
  /\ enabled /\ tick[t].pc = "idle" /\ Due(acct) # "nothing"
  /\ tick' = [tick EXCEPT ![t] = [pc |-> "due", owner |-> acct.owner, kind |-> Due(acct)]]
  /\ UNCHANGED <<now, enabled, acct, mails, lost, owners, crashes>>

\* Mutants of Mark: nothing is marked; both are.
MarkNothing(kind) == acct
MarkBoth(kind) == IF acct = None THEN acct ELSE [acct EXCEPT !.reminded = TRUE, !.ended = TRUE]

\* The UPDATE after notify. The ended notice marks both.
Mark(kind) ==
  IF acct = None THEN acct
  ELSE [acct EXCEPT !.reminded = TRUE, !.ended = @ \/ kind = "ended"]

\* accountEmails is not empty.
Mailable == acct # None /\ acct.mailable

\* notify finds no verified address and returns; the row is marked all the same.
NotifyNobody(t) ==
  /\ tick[t].pc = "due" /\ ~Mailable
  /\ acct' = Mark(tick[t].kind)
  /\ tick' = [tick EXCEPT ![t] = NoTick]
  /\ UNCHANGED <<now, enabled, mails, lost, owners, crashes>>

\* notify hands the mail to the relay.
Notify(t) ==
  /\ tick[t].pc = "due" /\ Mailable
  /\ tick' = [tick EXCEPT ![t].pc = "mail", ![t].owner = acct.owner]
  /\ UNCHANGED <<now, enabled, acct, mails, lost, owners, crashes>>

\* The relay takes the mail, or does not: then the row stays as it is and a
\* later tick tries again. It does so too when sendMessage throws although the
\* relay took the mail: its answer is lost, or the copy for Sent is not stored.
MailTaken(t) ==
  /\ tick[t].pc = "mail"
  /\ mails' = [mails EXCEPT ![tick[t].owner][tick[t].kind] = @ + 1]
  /\ tick' = [tick EXCEPT ![t].pc = "mark"]
  /\ UNCHANGED <<now, enabled, acct, lost, owners, crashes>>

MailFails(t) ==
  /\ tick[t].pc = "mail"
  /\ tick' = [tick EXCEPT ![t] = NoTick]
  /\ UNCHANGED <<now, enabled, acct, mails, lost, owners, crashes>>

MailTakenForFailed(t) ==
  /\ tick[t].pc = "mail" /\ lost < MaxLost
  /\ mails' = [mails EXCEPT ![tick[t].owner][tick[t].kind] = @ + 1]
  /\ lost' = lost + 1
  /\ tick' = [tick EXCEPT ![t] = NoTick]
  /\ UNCHANGED <<now, enabled, acct, owners, crashes>>

MarkSent(t) ==
  /\ tick[t].pc = "mark"
  /\ acct' = Mark(tick[t].kind)
  /\ tick' = [tick EXCEPT ![t] = NoTick]
  /\ UNCHANGED <<now, enabled, mails, lost, owners, crashes>>
-----------------------------------------------------------------------------
Tick(t) == TickStarts(t) \/ NotifyNobody(t) \/ Notify(t) \/ MarkSent(t)
-----------------------------------------------------------------------------
(* Properties.                                                             *)

AcctType == [owner : Owners, trial : Nat \cup {None}, paid : BOOLEAN,
             reminded : BOOLEAN, ended : BOOLEAN, mailable : BOOLEAN]
TickType == [pc : {"idle", "due", "mail", "mark"}, owner : 0 .. MaxOwners, kind : Kinds]

\* Types: the row and the ticks hold what their columns allow.
RemindersTypeOK ==
  /\ now \in Time /\ enabled \in BOOLEAN
  /\ acct \in AcctType \cup {None} /\ tick \in [Ticks -> TickType]
  /\ mails \in [Owners -> [Kinds -> Nat]] /\ lost \in 0 .. MaxLost
  /\ owners \in 0 .. MaxOwners /\ crashes \in 0 .. MaxCrashes

\* Nobody gets a second free trial and no trial is cut short, by restarts that
\* turn billing on and off, webhooks or ticks (startPendingTrials).
TrialNeverMoves ==
  [][(acct # None /\ acct' # None) =>
       (acct.owner = acct'.owner /\ acct.trial # None => acct'.trial = acct.trial)]_vars

\* A reminder goes out once for each tick that runs at the time, once more for each
\* of them if the process stops between the relay and the UPDATE, and once more for
\* each mail that went out and was taken for failed: with ticks that do not overlap, no
\* crash and no such failure, once (billingTick).
RemindedOnce ==
  \A o \in Owners, k \in Kinds : mails[o][k] <= Cardinality(Ticks) * (1 + crashes) + lost

\* The owner of an account whose trial is over is told so, although the relay
\* fails now and then and the process restarts, unless the account is paid for,
\* deleted, or billing is turned off. (A tick that still has the account of an
\* earlier owner in its list would mark the new one.)
EndedNoticed ==
  \A o \in Owners :
    (/\ enabled /\ acct # None /\ acct.owner = o /\ acct.mailable /\ ~acct.ended
     /\ acct.trial # None /\ now >= acct.trial
     /\ \A t \in Ticks : tick[t].owner \in {0, o})
    ~> (~enabled \/ mails[o].ended > 0 \/ acct = None \/ acct.owner # o \/ acct.paid)

=============================================================================
