------------------------------- MODULE Custody -------------------------------
(***************************************************************************)
(* What a mail server promises the servers that send to it, whatever goes  *)
(* on inside: a message is in the custody of its sender until the server   *)
(* answers 250, and from then on each recipient it did not return has a    *)
(* copy somewhere or was refused on purpose. A message that was given back *)
(* may be served again, so copies are bounded by the attempts only.        *)
(***************************************************************************)
EXTENDS Naturals

CONSTANTS
  Mail,      \* messages
  Parts,     \* the recipients of each message
  MaxTries   \* bound: attempts the sender makes

CopyKinds == {"stored", "relayed"}

VARIABLES
  holder,    \* "queued" and "open": the sender; "accepted": the server;
             \* "bounced": nobody, its author was told
  tries,     \* attempts made
  returned,  \* recipients bounced to the author
  copies,    \* copies made, by recipient and kind
  refused    \* recipients dropped on purpose

vars == <<holder, tries, returned, copies, refused>>

Init ==
  /\ holder = [m \in Mail |-> "queued"]
  /\ tries = [m \in Mail |-> 0]
  /\ returned = [m \in Mail |-> {}]
  /\ copies = [m \in Mail |-> [i \in Parts[m] |-> [k \in CopyKinds |-> 0]]]
  /\ refused = [m \in Mail |-> {}]

\* The sender makes an attempt.
Open(m) ==
  /\ holder[m] = "queued" /\ tries[m] < MaxTries
  /\ holder' = [holder EXCEPT ![m] = "open"]
  /\ tries' = [tries EXCEPT ![m] = @ + 1]
  /\ UNCHANGED <<returned, copies, refused>>

Return(m, i) ==
  /\ holder[m] = "open"
  /\ returned' = [returned EXCEPT ![m] = @ \cup {i}]
  /\ UNCHANGED <<holder, tries, copies, refused>>

\* At most one copy of each kind for each attempt.
Copy(m, i, k) ==
  /\ holder[m] = "open"
  /\ i \notin returned[m]
  /\ copies[m][i][k] < tries[m]
  /\ copies' = [copies EXCEPT ![m][i][k] = @ + 1]
  /\ UNCHANGED <<holder, tries, returned, refused>>

Refuse(m, i) ==
  /\ holder[m] = "open"
  /\ i \notin returned[m]
  /\ refused' = [refused EXCEPT ![m] = @ \cup {i}]
  /\ UNCHANGED <<holder, tries, returned, copies>>

Served(m, i) == i \in refused[m] \/ \E k \in CopyKinds : copies[m][i][k] > 0

\* 250: the server takes the message over.
Answer(m) ==
  /\ holder[m] = "open"
  /\ \A i \in Parts[m] \ returned[m] : Served(m, i)
  /\ holder' = [holder EXCEPT ![m] = "accepted"]
  /\ UNCHANGED <<tries, returned, copies, refused>>

\* Every recipient was returned: there is nothing left to deliver.
Bounce(m) ==
  /\ holder[m] = "open" /\ returned[m] = Parts[m]
  /\ holder' = [holder EXCEPT ![m] = "bounced"]
  /\ UNCHANGED <<tries, returned, copies, refused>>

\* 451 for one message, or all connections lost at once.
GiveBack(ms) ==
  /\ \A m \in ms : holder[m] = "open"
  /\ holder' = [m \in Mail |-> IF m \in ms THEN "queued" ELSE holder[m]]
  /\ UNCHANGED <<tries, returned, copies, refused>>

Next ==
  \/ \E m \in Mail :
       \/ Open(m) \/ Answer(m) \/ Bounce(m)
       \/ \E i \in Parts[m] : \/ Return(m, i) \/ Refuse(m, i)
                              \/ \E k \in CopyKinds : Copy(m, i, k)
  \/ \E ms \in SUBSET Mail : GiveBack(ms)

Spec == Init /\ [][Next]_vars

\* The promise: nothing the server accepted is lost, and nothing is copied more
\* often than it was offered.
Promise ==
  \A m \in Mail : \A i \in Parts[m] :
    /\ holder[m] = "accepted" => i \in returned[m] \/ Served(m, i)
    /\ \A k \in CopyKinds : copies[m][i][k] <= tries[m]
=============================================================================
