----------------------------- MODULE MCDelivery -----------------------------
(* Small instances of Delivery for TLC. *)
EXTENDS Delivery, TLC

CONSTANTS home, other, a1, contact, friend, owner, spare

Home(h) == [kind |-> "home", addr |-> h]
Alias(a) == [kind |-> "alias", addr |-> a]
Reverse(a, c) == [kind |-> "reverse", addr |-> a, contact |-> c]

\* A contact writes to the alias and, on the same message, to the mailbox.
Letter ==
  [id |-> 1, from |-> contact, others |-> {friend, owner},
   rcpts |-> <<Alias(a1), Home(home)>>,
   dmarcFail |-> FALSE, authentic |-> TRUE, looped |-> FALSE]

\* A second message of the same contact to the alias.
Note == [Letter EXCEPT !.id = 2, !.others = {}, !.rcpts = <<Alias(a1)>>]

\* A message that fails DMARC, and one that carries the loop header.
Spoof == [Note EXCEPT !.id = 3, !.dmarcFail = TRUE, !.authentic = FALSE]
Looped == [Note EXCEPT !.id = 4, !.looped = TRUE]

\* The owner replies to all.
Answer ==
  [id |-> 5, from |-> owner, others |-> {},
   rcpts |-> <<Reverse(a1, contact), Reverse(a1, friend)>>,
   dmarcFail |-> FALSE, authentic |-> TRUE, looped |-> FALSE]

\* The same, not authenticated; and a reply by somebody else.
Unsigned == [Answer EXCEPT !.id = 6, !.authentic = FALSE]
Stranger == [Answer EXCEPT !.id = 7, !.from = friend]

\* One mailbox with one alias, in the given mode, whose target is verified; a second target,
\* if there is room for it, is not.
Data0(mode) ==
  [box |-> [i \in BoxIds |-> IF i = 1 THEN home ELSE None],
   whitelist |-> [i \in BoxIds |-> IF i = 1 THEN {contact} ELSE {}],
   alias |-> [a \in Aliases |-> [box |-> 1, mode |-> mode, target |-> 1,
                                 abused |-> FALSE, expired |-> FALSE]],
   target |-> [t \in TargetIds |-> IF t = 1 THEN [email |-> owner, verified |-> TRUE]
                                   ELSE IF t = 2 THEN [email |-> spare, verified |-> FALSE]
                                   ELSE None],
   reverse |-> {<<a1, contact>>, <<a1, friend>>},
   entitled |-> TRUE]

\* The alias still stores, and its target waits for the owner's confirmation.
Pending ==
  [Data0("store") EXCEPT !.target = [t \in TargetIds |-> IF t = 1
     THEN [email |-> owner, verified |-> FALSE] ELSE None],
   !.reverse = {}]

BothAndPending == {Data0("both"), Pending}
ForwardAndPending == {Data0("forward"), Pending}
BothOnly == {Data0("both")}
ForwardOnly == {Data0("forward")}
BothAndForward == {Data0("both"), Data0("forward")}

\* The transactions are interchangeable.
SymmetricSessions == Permutations(Sessions)

Letters == {Letter, Note}
\* Three replies to one contact from the owner's devices, and one that is not
\* authenticated.
ToContact == [Answer EXCEPT !.id = 9, !.rcpts = <<Reverse(a1, contact)>>]
Replies == {ToContact, [ToContact EXCEPT !.id = 10], [ToContact EXCEPT !.id = 11],
            [ToContact EXCEPT !.id = 12, !.authentic = FALSE]}

\* Mail that must never leave the server, each kind once.
Unwanted == {Spoof, Looped, Unsigned, Stranger}
=============================================================================
