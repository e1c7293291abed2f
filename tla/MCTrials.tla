------------------------------ MODULE MCTrials ------------------------------
(***************************************************************************)
(* Small instances of Startup, with Reminders, and of Gate for TLC: the    *)
(* trial as the server keeps it, and what its end means to a client. They  *)
(* share no state, so one of them at a time shows all that either can do.  *)
(***************************************************************************)
EXTENDS Startup, Gate
CONSTANTS t1, t2
VARIABLE side  \* the one that is looked at

trialVars == <<side, all, gateVars>>

\* The other is in one of its initial states, in which it stays.
TrialsInit ==
  /\ Init /\ GateInit
  /\ \/ side = "server" /\ client = "web" /\ account.stage = "none" /\ ~account.secured
     \/ side = "client" /\ enabled /\ columns = {} /\ acct = None

Server == side = "server" /\ UNCHANGED <<side, gateVars>>
Client == side = "client" /\ UNCHANGED <<side, all>>

TrialsNext ==
  \/ Server /\ Next
  \/ Client /\ GateNext

TrialsSpec == TrialsInit /\ [][TrialsNext]_trialVars

\* The fairness of Startup and of Gate, for the one that is looked at.
TrialsFair ==
  /\ TrialsSpec
  /\ WF_trialVars(Server /\ Boots)
  /\ \A t \in Ticks : /\ WF_trialVars(Server /\ Ticks1(t))
                      /\ WF_trialVars(Server /\ (Relayed(t) \/ Refused(t)))
  /\ SF_trialVars(Server /\ \E t \in Ticks : Relayed(t))
  /\ WF_trialVars(Client /\ Serves)
  /\ WF_trialVars(Client /\ Answers)
  /\ WF_trialVars(Client /\ PollTimer)
=============================================================================
