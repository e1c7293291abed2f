------------------------------ MODULE Accounts ------------------------------
(***************************************************************************)
(* Accounts and the addresses they hold: signing up and the link that      *)
(* verifies it (routes/signup.ts), signing in, passwords and the second    *)
(* factor (routes/auth.ts, users.ts, totp.ts), aliases and mailboxes by    *)
(* the API (api.ts), and deletion (routes/account.ts, account-deletion.ts).*)
(*                                                                         *)
(* Handlers read what they need and then wait for argon2 (and deletion for *)
(* Stripe) in the thread pool; in that time other requests run. A request  *)
(* that waits keeps what it has read in "row". SQLite gives a deleted      *)
(* row's number to the next row when it was the largest, so a number alone *)
(* does not tell two users apart. A sign-up makes the account and its user *)
(* at once, and deletion removes both: one number stands for the two.      *)
(***************************************************************************)
EXTENDS Integers, FiniteSets

CONSTANTS
  Names,     \* usernames, each standing for its address at the signup domain
  Emails,    \* who signs up: the address a user signs in with and is mailed at
  Secrets,   \* seeds of authenticator apps
  Requests,  \* requests that may wait at once
  None,
  Operator,  \* the default account, which no one deletes
  MaxUsers,  \* bound: the largest number of a user
  MaxAliases,\* config.aliases.maxPerAccount
  MaxOps     \* bound: requests made

Ids == 1 .. MaxUsers

\* A password says whose it is.
Passwords == [by : Emails, n : {1, 2}]

\* A row of users.
UserRow == [email : Emails, verified : BOOLEAN, password : Passwords,
            secret : Secrets \cup {None}, on : BOOLEAN, plain : BOOLEAN]

ASSUME AccountsConstantsOK ==
  /\ IsFiniteSet(Names) /\ IsFiniteSet(Emails) /\ IsFiniteSet(Requests) /\ IsFiniteSet(Secrets)
  /\ MaxUsers \in Nat \ {0} /\ {MaxAliases, MaxOps} \subseteq Nat
  /\ None \notin Secrets \cup Names \cup Nat \cup UserRow /\ Operator \notin Nat \cup {None}

VARIABLES
  users,     \* users rows by number
  boxes,     \* mailboxes: the account that holds the address
  aliases,   \* aliases: the mailbox the address delivers to
  retired,   \* retired_addresses
  sessions,  \* sessions rows: the number of their user, and who signed in
  mailed,    \* verification links in people's mail
  waiting,   \* requests that wait, with what they have read
  ops,       \* history: requests made
  proven,    \* history: the seed a user last confirmed with a code
  late,      \* history: addresses taken by who did not look, or looked too early
  caught,    \* history: numbers whose user was deleted while a request of theirs waited
  rewritten  \* history: numbers whose seed a sign-in wrote back after it had changed

rows == <<users, boxes, aliases, retired, sessions>>
vars == <<rows, mailed, waiting, ops, proven, late, caught, rewritten>>

NewUser(e, p) ==
  [email |-> e, verified |-> FALSE, password |-> p, secret |-> None, on |-> FALSE, plain |-> FALSE]

Exists(id) == users[id] # None
Free == {r \in Requests : waiting[r] = None}

\* id is the number of the next users row, as an INTEGER PRIMARY KEY chooses it: one more
\* than the largest there is.
IsNext(id) ==
  /\ \A j \in Ids : Exists(j) => j < id
  /\ \A j \in Ids : j = id - 1 => Exists(j)

\* One user with a mailbox has been there for some time, with a second factor or without
\* it, and the seed may still be stored the old way.
FirstUser(e, s, plain) ==
  [NewUser(e, [by |-> e, n |-> 1])
     EXCEPT !.verified = TRUE, !.secret = s, !.on = (s # None), !.plain = plain]

Init ==
  \E e \in Emails, n \in Names, s \in Secrets \cup {None}, plain \in BOOLEAN :
    /\ (s = None) => ~plain
    /\ users = [id \in Ids |-> IF id = 1 THEN FirstUser(e, s, plain) ELSE None]
    /\ boxes = [a \in Names |-> IF a = n THEN 1 ELSE None]
    /\ aliases = [a \in Names |-> None]
    /\ retired = {} /\ sessions = {} /\ mailed = {}
    /\ waiting = [r \in Requests |-> None]
    /\ ops = 0
    /\ proven = [id \in Ids |-> IF id = 1 THEN s ELSE None]
    /\ late = {} /\ caught = {} /\ rewritten = {}

Counted == ops < MaxOps /\ ops' = ops + 1
Wait(r, req) == waiting' = [waiting EXCEPT ![r] = req]
Done(r) == waiting' = [waiting EXCEPT ![r] = None]

\* What may sign in or act for a user is a session. Two of one user are alike here.
ActsFor(id) == \E s \in sessions : s.id = id

-----------------------------------------------------------------------------
(* Addresses. *)

\* usernames.ts: no mailbox, alias or retired address has the name.
IsUsernameAvailable(a) == boxes[a] = None /\ aliases[a] = None /\ a \notin retired

EmailTaken(e) == \E id \in Ids : Exists(id) /\ users[id].email = e

\* POST /api/auth/signup up to the hash of the password.
SignupChecks(r, e, a) ==
  /\ Counted /\ r \in Free
  /\ ~EmailTaken(e) /\ IsUsernameAvailable(a)
  /\ Wait(r, [op |-> "signup", email |-> e, name |-> a, id |-> None])
  /\ UNCHANGED <<rows, mailed, proven, late, caught, rewritten>>

\* What the transaction's UNIQUE constraints see: users.email and mailboxes.address.
Unique(e, a) == ~EmailTaken(e) /\ boxes[a] = None

\* The four inserts in one transaction; then the link is mailed, if the mail goes out.
SignupWrites(r) ==
  LET e == waiting[r].email
      a == waiting[r].name
  IN /\ waiting[r] # None /\ waiting[r].op = "signup"
     /\ Done(r)
     /\ IF Unique(e, a)
          THEN /\ \E id \in Ids :
                    /\ IsNext(id)
                    /\ users' = [users EXCEPT ![id] = NewUser(e, [by |-> e, n |-> 1])]
                    /\ boxes' = [boxes EXCEPT ![a] = id]
                    /\ proven' = [proven EXCEPT ![id] = None]
                    /\ \/ mailed' = mailed \cup {[id |-> id, to |-> e]}
                       \/ mailed' = mailed
               /\ late' = IF IsUsernameAvailable(a) THEN late ELSE late \cup {a}
          ELSE UNCHANGED <<users, boxes, mailed, proven, late>>
     /\ UNCHANGED <<aliases, retired, sessions, ops, caught, rewritten>>

\* GET /auth/verify: the link names a number.
Verify(l) ==
  /\ Counted
  /\ l \in mailed
  /\ Exists(l.id) /\ ~users[l.id].verified
  /\ users' = [users EXCEPT ![l.id].verified = TRUE]
  /\ UNCHANGED <<boxes, aliases, retired, sessions, mailed, waiting, proven, late, caught, rewritten>>

\* POST /api/mailboxes asks mailboxes only, and gives the address to the default account.
AddMailbox(a) ==
  /\ Counted
  /\ \E s \in sessions : Exists(s.id)
  /\ boxes[a] = None
  /\ boxes' = [boxes EXCEPT ![a] = Operator]
  /\ late' = IF IsUsernameAvailable(a) THEN late ELSE late \cup {a}
  /\ UNCHANGED <<users, aliases, retired, sessions, mailed, waiting, proven, caught, rewritten>>

AliasCount(id) == Cardinality({a \in Names : aliases[a] # None /\ boxes[aliases[a]] = id})
\* Mutant of AliasAddressFree: retired addresses are not looked at.
AliasAddressFreeOfHeld(a) == aliases[a] = None /\ boxes[a] = None
AliasAddressFree(a) == aliases[a] = None /\ boxes[a] = None /\ a \notin retired

\* POST /api/aliases for the mailbox m. A name the server makes up is one that is free.
AddAlias(id, m, a) ==
  /\ Counted
  /\ ActsFor(id) /\ boxes[m] = id
  /\ AliasCount(id) < MaxAliases
  /\ AliasAddressFree(a)
  /\ aliases' = [aliases EXCEPT ![a] = m]
  /\ UNCHANGED <<users, boxes, retired, sessions, mailed, waiting, proven, late, caught, rewritten>>

\* DELETE /api/aliases/:id retires nothing.
DeleteAlias(id, a) ==
  /\ Counted
  /\ ActsFor(id) /\ aliases[a] # None /\ boxes[aliases[a]] = id
  /\ aliases' = [aliases EXCEPT ![a] = None]
  /\ UNCHANGED <<users, boxes, retired, sessions, mailed, waiting, proven, late, caught, rewritten>>

\* A mailbox takes its aliases with it.
Without(bs) == [a \in Names |-> IF aliases[a] \in bs THEN None ELSE aliases[a]]

\* DELETE /api/mailboxes/:id retires nothing either.
DeleteMailbox(id, m) ==
  /\ Counted
  /\ ActsFor(id) /\ boxes[m] = id
  /\ boxes' = [boxes EXCEPT ![m] = None]
  /\ aliases' = Without({m})
  /\ UNCHANGED <<users, retired, sessions, mailed, waiting, proven, late, caught, rewritten>>

-----------------------------------------------------------------------------
(* Signing in, the password and the second factor. *)

\* The row of a request that works on user id, as it is read before the wait.
Read(op, id, p, c) == [op |-> op, id |-> id, row |-> users[id], password |-> p, code |-> c, name |-> None]

\* POST /api/auth/login with a password and perhaps a code of the seed c.
LoginReads(r, id, p, c) ==
  /\ Counted /\ r \in Free
  /\ Exists(id) /\ p.by = users[id].email
  /\ Wait(r, Read("login", id, p, c))
  /\ UNCHANGED <<rows, mailed, proven, late, caught, rewritten>>

PasswordRight(q) == q.row.password = q.password
CodeRight(q) == q.row.on => q.row.secret # None /\ q.code = q.row.secret

\* A session of the number, if it still has a user: sessions.user_id REFERENCES users.
CreateSession(id, who) == sessions' = IF Exists(id) THEN sessions \cup {[id |-> id, who |-> who]} ELSE sessions

\* A seed stored in plain text is written back encrypted, from the row read before.
Migrate(q) ==
  IF q.row.on /\ q.row.plain /\ Exists(q.id)
    THEN /\ users' = [users EXCEPT ![q.id].secret = q.row.secret, ![q.id].plain = FALSE]
         /\ rewritten' = IF users[q.id].secret = q.row.secret THEN rewritten ELSE rewritten \cup {q.id}
    ELSE UNCHANGED <<users, rewritten>>

LoginAnswers(r) ==
  LET q == waiting[r]
  IN /\ q # None /\ q.op = "login"
     /\ Done(r)
     /\ \/ /\ PasswordRight(q) /\ q.row.verified /\ CodeRight(q)
           /\ Migrate(q)
           /\ CreateSession(q.id, q.row.email)
           /\ UNCHANGED mailed
        \/ /\ PasswordRight(q) /\ ~q.row.verified
           /\ \/ mailed' = mailed \cup {[id |-> q.id, to |-> q.row.email]}
              \/ mailed' = mailed
           /\ UNCHANGED <<users, sessions, rewritten>>
        \/ /\ ~PasswordRight(q) \/ (q.row.verified /\ ~CodeRight(q))
           /\ UNCHANGED <<users, sessions, mailed, rewritten>>
     /\ UNCHANGED <<boxes, aliases, retired, ops, proven, late, caught>>

\* POST /api/auth/logout. Another session of the user may be left.
Logout(s) ==
  /\ Counted
  /\ s \in sessions
  /\ sessions' = sessions \ {s}
  /\ UNCHANGED <<users, boxes, aliases, retired, mailed, waiting, proven, late, caught, rewritten>>

\* A request of a signed-in user that gives the current password: a new password n, the
\* second factor off, or the account deleted.
SecuredReads(r, op, id, p, c) ==
  /\ Counted /\ r \in Free
  /\ op \in {"password", "totp off", "delete"}
  /\ ActsFor(id) /\ p.by = users[id].email
  /\ Wait(r, Read(op, id, p, c))
  /\ UNCHANGED <<rows, mailed, proven, late, caught, rewritten>>

\* POST /api/auth/password: the update names the number only.
PasswordWrites(r) ==
  LET q == waiting[r]
  IN /\ q # None /\ q.op = "password"
     /\ Done(r)
     /\ users' = IF PasswordRight(q) /\ Exists(q.id)
                   THEN [users EXCEPT ![q.id].password = [q.password EXCEPT !.n = 3 - @]]
                   ELSE users
     /\ UNCHANGED <<boxes, aliases, retired, sessions, mailed, ops, proven, late, caught, rewritten>>

\* Mutant of Seeded: the second factor stays as it is.
SeededOn(user, s) == [user EXCEPT !.secret = s, !.plain = FALSE]

\* A user with a new seed: the second factor is off until a code of it is confirmed.
Seeded(user, s) == [user EXCEPT !.secret = s, !.on = FALSE, !.plain = FALSE]

\* POST /api/auth/totp/setup.
TotpSetup(id, s) ==
  /\ Counted
  /\ ActsFor(id) /\ s # users[id].secret
  /\ users' = [users EXCEPT ![id] = Seeded(@, s)]
  /\ UNCHANGED <<boxes, aliases, retired, sessions, mailed, waiting, proven, late, caught, rewritten>>

\* POST /api/auth/totp/confirm with a code of the seed s.
TotpConfirm(id, s) ==
  /\ Counted
  /\ ActsFor(id) /\ users[id].secret = s
  /\ users' = [users EXCEPT ![id].on = TRUE]
  /\ proven' = [proven EXCEPT ![id] = s]
  /\ UNCHANGED <<boxes, aliases, retired, sessions, mailed, waiting, late, caught, rewritten>>

\* DELETE /api/auth/totp: setTotpSecret(id, null).
TotpOff(r) ==
  LET q == waiting[r]
  IN /\ q # None /\ q.op = "totp off"
     /\ Done(r)
     /\ users' = IF PasswordRight(q) /\ Exists(q.id)
                   THEN [users EXCEPT ![q.id] = Seeded(@, None)]
                   ELSE users
     /\ UNCHANGED <<boxes, aliases, retired, sessions, mailed, ops, proven, late, caught, rewritten>>

-----------------------------------------------------------------------------
(* Deletion. *)

Held(id) == {a \in Names : boxes[a] = id}
AliasesOf(id) == {a \in Names : aliases[a] \in Held(id)}

\* What deletion retires: every mailbox and alias of the account.
Retires(id) == Held(id) \cup AliasesOf(id)

\* Mutant of SessionsLeft: sessions stay.
SessionsLeftAll(id) == sessions

\* Users cascade to their sessions.
SessionsLeft(id) == {s \in sessions : s.id # id}

\* The transaction of deleteAccount, once the password, the code and Stripe have allowed it.
DeleteWrites(r) ==
  LET q == waiting[r]
  IN /\ q # None /\ q.op = "delete"
     /\ Done(r)
     /\ IF PasswordRight(q) /\ CodeRight(q) /\ Exists(q.id)
          THEN \/ /\ retired' = retired \cup Retires(q.id)
                  /\ aliases' = Without(Held(q.id))
                  /\ boxes' = [a \in Names |-> IF boxes[a] = q.id THEN None ELSE boxes[a]]
                  /\ users' = [users EXCEPT ![q.id] = None]
                  /\ sessions' = SessionsLeft(q.id)
                  /\ caught' = IF \E o \in Requests \ {r} : waiting[o] # None /\ waiting[o].id = q.id
                                 THEN caught \cup {q.id} ELSE caught
               \/ UNCHANGED <<rows, caught>>       \* Stripe did not cancel
          ELSE UNCHANGED <<rows, caught>>
     /\ UNCHANGED <<mailed, ops, proven, late, rewritten>>

-----------------------------------------------------------------------------
Signing ==
  \/ \E r \in Requests, id \in Ids, p \in Passwords, c \in Secrets \cup {None} : LoginReads(r, id, p, c)
  \/ \E r \in Requests : LoginAnswers(r)
  \/ \E s \in sessions : Logout(s)

Securing ==
  \/ \E r \in Requests, id \in Ids, p \in Passwords, c \in Secrets \cup {None},
        op \in {"password", "totp off", "delete"} : SecuredReads(r, op, id, p, c)
  \/ \E r \in Requests : PasswordWrites(r) \/ TotpOff(r) \/ DeleteWrites(r)
  \/ \E id \in Ids, s \in Secrets : TotpSetup(id, s) \/ TotpConfirm(id, s)

Addressing ==
  \/ \E r \in Requests, e \in Emails, a \in Names : SignupChecks(r, e, a)
  \/ \E r \in Requests : SignupWrites(r)
  \/ \E l \in mailed : Verify(l)
  \/ \E a \in Names : AddMailbox(a)
  \/ \E id \in Ids, m, a \in Names : AddAlias(id, m, a)
  \/ \E id \in Ids, a \in Names : DeleteAlias(id, a) \/ DeleteMailbox(id, a)

Next == Signing \/ Securing \/ Addressing

Spec == Init /\ [][Next]_vars

-----------------------------------------------------------------------------
(* The type of every variable. *)
TypeOK ==
  /\ users \in [Ids -> UserRow \cup {None}]
  /\ boxes \in [Names -> Ids \cup {None, Operator}]
  /\ aliases \in [Names -> Names \cup {None}]
  /\ retired \subseteq Names
  /\ sessions \subseteq [id : Ids, who : Emails]
  /\ mailed \subseteq [id : Ids, to : Emails]
  /\ ops \in 0 .. MaxOps
  /\ proven \in [Ids -> Secrets \cup {None}]
  /\ late \subseteq Names
  /\ caught \subseteq Ids /\ rewritten \subseteq Ids

\* An address is a mailbox, an alias or retired, and not two of these, unless it was taken
\* by POST /api/mailboxes, which asks mailboxes only, or by a sign-up that had looked
\* before the other came (usernames.ts: "the alias would silently stop receiving mail";
\* account-deletion.ts: what is deleted is given to no one else).
AddressHeldOnce ==
  \A a \in Names \ late :
    /\ boxes[a] # None => aliases[a] = None /\ a \notin retired
    /\ aliases[a] # None => a \notin retired

\* Of two sign-ups with one email that both look before either writes, one is refused:
\* an email signs in to one account (routes/signup.ts).
EmailOnce ==
  \A i, j \in Ids : i # j /\ Exists(i) /\ Exists(j) => users[i].email # users[j].email

\* A session acts for the user who signed in and a user's password is his own, also when
\* a deleted user's number went to somebody else, unless a request of the deleted user was
\* waiting when he was deleted (routes/auth.ts, account-deletion.ts).
NothingOfAnother ==
  /\ \A s \in sessions : s.id \notin caught => Exists(s.id) /\ users[s.id].email = s.who
  /\ \A id \in Ids \ caught : Exists(id) => users[id].password.by = users[id].email

\* While the second factor is on, the stored seed is the one a code was last shown for, so
\* the user's app can sign in. Only a sign-in that writes an old seed back after a new one
\* was set up breaks this (routes/auth.ts: the lazy migration).
SeedIsConfirmed ==
  \A id \in Ids \ (rewritten \cup caught) : Exists(id) /\ users[id].on => users[id].secret = proven[id]

=============================================================================
