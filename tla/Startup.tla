------------------------------ MODULE Startup ------------------------------
(***************************************************************************)
(* The start of the process: what db.ts does to a database of any age when *)
(* it is imported, one statement and one commit after the other, and main  *)
(* (index.ts), which starts the pending trials before it serves anybody.   *)
(* Composed with the trial and its reminders (Reminders), which run while  *)
(* the process is up. The process may stop between any two statements.     *)
(*                                                                         *)
(* Of the columns that are added, those with a consequence are modelled:   *)
(* users.account_id and users.email_verified_at.                           *)
(***************************************************************************)
EXTENDS Reminders

VARIABLES
  boot,     \* the next statement, "up" when the process serves, "dead" when it threw
  columns,  \* columns of users
  operator, \* the accounts row 1, None when there is none
  early,    \* history: owners of before the verification gate
  clicked   \* history: owners who opened their verification link

database == <<columns, operator>>
startup == <<boot, database, early, clicked>>
all == <<vars, startup>>

Steps == {"accounts", "exempt", "owner", "gate", "grandfather", "main"}
-----------------------------------------------------------------------------
(* The process stops, whatever it was doing, and starts again, perhaps with *)
(* another BILLING_ENABLED.                                                *)
Stop(en) ==
  /\ crashes < MaxCrashes
  /\ crashes' = crashes + 1
  /\ enabled' = en
  /\ tick' = [t \in Ticks |-> NoTick]
  /\ boot' = "accounts"
  /\ UNCHANGED <<now, acct, mails, lost, owners, database, early, clicked>>

Goes(from, to) ==
  /\ boot = from /\ boot' = to
  /\ UNCHANGED <<now, enabled, tick, mails, lost, owners, crashes, early, clicked>>

\* The account of the operator is made before anything refers to it.
Seed ==
  /\ Goes("accounts", "exempt")
  /\ operator' = IF operator = None THEN [exempt |-> FALSE, trial |-> None] ELSE operator
  /\ UNCHANGED <<acct, columns>>

Exempt ==
  /\ Goes("exempt", "owner")
  /\ operator' = [operator EXCEPT !.exempt = TRUE]
  /\ UNCHANGED <<acct, columns>>

\* ALTER TABLE users ADD account_id ... DEFAULT 1 REFERENCES: SQLite refuses it
\* while foreign keys are enforced and the table has rows.
AddOwner ==
  /\ IF "account_id" \notin columns /\ early # {}
       THEN Goes("owner", "dead") /\ UNCHANGED columns
       ELSE Goes("owner", "gate") /\ columns' = columns \cup {"account_id"}
  /\ UNCHANGED <<acct, operator>>

\* Mutant of GrandfatherNext: users are taken for verified at every start.
GrandfatherAlways == "grandfather"
GrandfatherNext == IF "email_verified_at" \in columns THEN "main" ELSE "grandfather"

AddGate ==
  /\ Goes("gate", GrandfatherNext)
  /\ columns' = columns \cup {"email_verified_at"}
  /\ UNCHANGED <<acct, operator>>

\* The users of before the gate are verified, in a statement after the ALTER.
Grandfather ==
  /\ Goes("grandfather", "main")
  /\ acct' = IF acct = None THEN None ELSE [acct EXCEPT !.mailable = TRUE]
  /\ UNCHANGED database

\* main: assertBillingConfig, then startPendingTrials if billing is enabled.
Main ==
  /\ Goes("main", "up")
  /\ acct' = StartPendingTrials(enabled)
  /\ operator' = IF enabled /\ ~operator.exempt /\ operator.trial = None
                 THEN [operator EXCEPT !.trial = now + TrialLen] ELSE operator
  /\ UNCHANGED columns

Boots == Seed \/ Exempt \/ AddOwner \/ AddGate \/ Grandfather \/ Main
-----------------------------------------------------------------------------
(* While the process is up. *)
Up == boot = "up" /\ UNCHANGED <<boot, database, early>>

SignsUp == Up /\ Signup /\ UNCHANGED clicked

Changes ==
  /\ Up /\ AccountChanges
  /\ clicked' = IF acct' # None /\ acct'.mailable THEN clicked \cup {acct'.owner} ELSE clicked

Ticks1(t) == Up /\ Tick(t) /\ UNCHANGED clicked
Relayed(t) == Up /\ MailTaken(t) /\ UNCHANGED clicked
Refused(t) == Up /\ (MailFails(t) \/ MailTakenForFailed(t)) /\ UNCHANGED clicked
-----------------------------------------------------------------------------
\* A new database, one of before accounts, one of before the gate, and one of now.
Databases ==
  {[columns |-> {}, users |-> FALSE, operator |-> None],
   [columns |-> {}, users |-> TRUE, operator |-> None],
   [columns |-> {"account_id"}, users |-> TRUE,
    operator |-> [exempt |-> FALSE, trial |-> None]],
   [columns |-> {"account_id", "email_verified_at"}, users |-> FALSE,
    operator |-> [exempt |-> TRUE, trial |-> None]]}

Init ==
  /\ now = 0 /\ enabled \in BOOLEAN /\ crashes = 0 /\ lost = 0
  /\ tick = [t \in Ticks |-> NoTick]
  /\ mails = [o \in Owners |-> [k \in Kinds |-> 0]]
  /\ boot = "accounts" /\ clicked = {}
  /\ \E d \in Databases :
       /\ columns = d.columns /\ operator = d.operator
       /\ acct = IF d.users THEN EarlyAcct ELSE None
       /\ owners = IF d.users THEN 1 ELSE 0
       /\ early = IF d.users THEN {1} ELSE {}

Next ==
  \/ Boots \/ SignsUp \/ Changes
  \/ Advance /\ UNCHANGED startup
  \/ \E en \in BOOLEAN : Stop(en)
  \/ \E t \in Ticks : Ticks1(t) \/ Relayed(t) \/ Refused(t)

Spec == Init /\ [][Next]_all

\* The start goes on by itself; setInterval starts ticks for ever and a tick goes on
\* by itself; the relay answers, and does not refuse the mail every time it is tried.
FairSpec ==
  /\ Spec
  /\ WF_all(Boots)
  /\ \A t \in Ticks : WF_all(Ticks1(t)) /\ WF_all(Relayed(t) \/ Refused(t))
  /\ SF_all(\E t \in Ticks : Relayed(t))
-----------------------------------------------------------------------------
(* Properties *)

TypeOK ==
  /\ RemindersTypeOK
  /\ boot \in Steps \cup {"up", "dead"}
  /\ columns \subseteq {"account_id", "email_verified_at"}
  /\ operator \in [exempt : BOOLEAN, trial : Nat \cup {None}] \cup {None}
  /\ early \subseteq Owners /\ clicked \subseteq Owners

\* A sign-up that is pending stays so over restarts until its link is opened ("It must
\* NOT run on every boot", db.ts:454), and who was there before the gate is let in
\* (db.ts:457), unless the process stopped between the two statements.
VerifiedByLink ==
  /\ acct # None /\ acct.mailable => acct.owner \in early \cup clicked
  /\ boot = "up" /\ crashes = 0 /\ acct # None /\ acct.owner \in early => acct.mailable

\* The operator's own account is never billed (db.ts:435): no start of the process
\* begins a trial for it, wherever the one before stopped.
OperatorNotBilled == operator # None => operator.trial = None
=============================================================================
