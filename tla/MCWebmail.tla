----------------------------- MODULE MCWebmail -----------------------------
(* Small instances of Webmail for TLC. *)
EXTENDS Webmail

TwoOfOne == [m \in Msgs |-> IF m = 3 THEN "b2" ELSE "b1"]

\* The page opens on the mailbox that has mail; one sender waits in its Screener, and the other too
\* or is still to come.
MCWebmailInit ==
  /\ WebmailInit /\ place.box = "b1"
  /\ mail[2].folder = "quarantine" /\ mail[1].folder # "inbox"
MCWebmailSpec == MCWebmailInit /\ [][WebmailNext]_webmailVars
=============================================================================
