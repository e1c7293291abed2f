--------------------------- MODULE Accounts_proofs ---------------------------
(***************************************************************************)
(* What holds of accounts and their addresses for every number of users,   *)
(* names and waiting requests.                                             *)
(***************************************************************************)
EXTENDS Accounts, TLAPS

\* What a waiting request keeps: a sign-up the name and the email, any other the
\* row of its user.
SignupRequest == [op : {"signup"}, email : Emails, name : Names, id : {None}]
UserRequest ==
  [op : {"login", "password", "totp off", "delete"}, id : Ids, row : UserRow,
   password : Passwords, code : Secrets \cup {None}, name : {None}]

\* A session has a user: the row cannot go without it.
Signed == \A s \in sessions : Exists(s.id)

Typed ==
  /\ TypeOK
  /\ waiting \in [Requests -> UserRequest \cup SignupRequest \cup {None}]
  /\ Signed
-----------------------------------------------------------------------------
LEMMA Constants ==
  /\ Ids \subseteq Nat /\ None \notin Ids \cup Names \cup Secrets \cup UserRow
  /\ Operator \notin Ids /\ Operator # None
  /\ MaxOps \in Nat
  BY AccountsConstantsOK DEF Ids

LEMMA NewUserRow ==
  ASSUME NEW e \in Emails
  PROVE  /\ NewUser(e, [by |-> e, n |-> 1]) \in UserRow
         /\ NewUser(e, [by |-> e, n |-> 1]) # None
         /\ NewUser(e, [by |-> e, n |-> 1]).email = e
         /\ NewUser(e, [by |-> e, n |-> 1]).password = [by |-> e, n |-> 1]
         /\ ~NewUser(e, [by |-> e, n |-> 1]).on
<1>1. NewUser(e, [by |-> e, n |-> 1]) \in UserRow
  BY DEF NewUser, UserRow, Passwords
<1> QED BY <1>1, Constants DEF NewUser

\* A request that waits to work on a user has read a row of that number.
LEMMA RequestRead ==
  ASSUME Typed, NEW r \in Requests, waiting[r] # None, waiting[r].op # "signup"
  PROVE  waiting[r] \in UserRequest
  BY DEF Typed, SignupRequest

LEMMA SignupRead ==
  ASSUME Typed, NEW r \in Requests, waiting[r] # None, waiting[r].op = "signup"
  PROVE  waiting[r] \in SignupRequest
  BY DEF Typed, UserRequest

\* The next number is no one's.
LEMMA NextIsFree ==
  ASSUME NEW id \in Ids, IsNext(id)
  PROVE  ~Exists(id)
  BY Constants DEF IsNext

\* Who acts for a number is signed in, so there is such a user.
LEMMA ActorExists ==
  ASSUME Typed, NEW id, ActsFor(id)
  PROVE  Exists(id)
  BY DEF Typed, Signed, ActsFor

\* A request that is answered leaves, the others stay as they are.
LEMMA DoneKeeps ==
  ASSUME Typed, NEW r \in Requests, Done(r)
  PROVE  /\ waiting' \in [Requests -> UserRequest \cup SignupRequest \cup {None}]
         /\ \A o \in Requests : waiting'[o] # None => o # r /\ waiting'[o] = waiting[o]
  BY DEF Done, Typed

LEMMA WaitKeeps ==
  ASSUME Typed, NEW r \in Requests, NEW q \in UserRequest \cup SignupRequest, Wait(r, q)
  PROVE  /\ waiting' \in [Requests -> UserRequest \cup SignupRequest \cup {None}]
         /\ waiting'[r] = q
         /\ \A o \in Requests : o # r => waiting'[o] = waiting[o]
  BY DEF Wait, Typed

\* The row of number id is replaced by a row: the others stay.
LEMMA RowReplaced ==
  ASSUME Typed, NEW id \in Ids, NEW u \in UserRow, users' = [users EXCEPT ![id] = u]
  PROVE  /\ users' \in [Ids -> UserRow \cup {None}]
         /\ users'[id] = u /\ u # None
         /\ \A j \in Ids : j # id => users'[j] = users[j]
         /\ \A j \in Ids : Exists(j) => users'[j] # None
  BY Constants DEF Typed, TypeOK, Exists
-----------------------------------------------------------------------------
(* One lemma per kind of change of users: what it leaves of the row. *)

Seeds(u, v) == v.email = u.email /\ v.verified = u.verified /\ v.password = u.password

LEMMA SeededRow ==
  ASSUME NEW u \in UserRow, NEW s \in Secrets \cup {None}
  PROVE  /\ Seeded(u, s) \in UserRow /\ ~Seeded(u, s).on
         /\ Seeded(u, s).email = u.email /\ Seeded(u, s).password = u.password
  BY DEF Seeded, UserRow

LEMMA MigratedRow ==
  ASSUME Typed, NEW q \in UserRequest, Migrate(q)
  PROVE  /\ users' \in [Ids -> UserRow \cup {None}] /\ rewritten' \subseteq Ids
         /\ rewritten \subseteq rewritten'
         /\ \A j \in Ids :
              /\ (users'[j] = None) <=> (users[j] = None)
              /\ users[j] # None =>
                   /\ users'[j].email = users[j].email /\ users'[j].password = users[j].password
                   /\ users'[j].on = users[j].on
                   /\ j \notin rewritten' => users'[j].secret = users[j].secret
<1> DEFINE u == [users[q.id] EXCEPT !.secret = q.row.secret, !.plain = FALSE]
<1>0. /\ users \in [Ids -> UserRow \cup {None}] /\ rewritten \subseteq Ids
      /\ q.id \in Ids /\ q.row \in UserRow
  BY DEF Typed, TypeOK, UserRequest
<1>1. CASE q.row.on /\ q.row.plain /\ Exists(q.id)
  <2>1. users[q.id] \in UserRow
    BY <1>0, <1>1 DEF Exists
  <2>2. /\ u \in UserRow /\ u.email = users[q.id].email /\ u.password = users[q.id].password
        /\ u.on = users[q.id].on /\ u.secret = q.row.secret
    BY <1>0, <2>1 DEF UserRow
  <2>3. users' = [users EXCEPT ![q.id] = u]
    BY <1>0, <1>1, <2>1 DEF Migrate, UserRow
  <2>4. rewritten' = IF users[q.id].secret = q.row.secret THEN rewritten ELSE rewritten \cup {q.id}
    BY <1>1 DEF Migrate
  <2> HIDE DEF u
  <2>5. /\ users' \in [Ids -> UserRow \cup {None}] /\ users'[q.id] = u /\ u # None
        /\ \A j \in Ids : j # q.id => users'[j] = users[j]
    BY <1>0, <2>2, <2>3, RowReplaced
  <2> QED BY <1>0, <1>1, <2>2, <2>4, <2>5 DEF Exists
<1>2. CASE ~(q.row.on /\ q.row.plain /\ Exists(q.id))
  BY <1>0, <1>2 DEF Migrate
<1> QED BY <1>1, <1>2
-----------------------------------------------------------------------------
LEMMA TypesInit == Init => Typed
<1> SUFFICES ASSUME Init PROVE Typed
  OBVIOUS
<1>1. PICK e \in Emails, n \in Names, s \in Secrets \cup {None}, plain \in BOOLEAN :
        /\ users = [id \in Ids |-> IF id = 1 THEN FirstUser(e, s, plain) ELSE None]
        /\ boxes = [a \in Names |-> IF a = n THEN 1 ELSE None]
        /\ proven = [id \in Ids |-> IF id = 1 THEN s ELSE None]
  BY DEF Init
<1>2. users \in [Ids -> UserRow \cup {None}]
  <2>1. FirstUser(e, s, plain) \in UserRow
    BY DEF FirstUser, NewUser, UserRow, Passwords
  <2> QED BY <1>1, <2>1
<1>3. boxes \in [Names -> Ids \cup {None, Operator}] /\ proven \in [Ids -> Secrets \cup {None}]
  BY <1>1, AccountsConstantsOK DEF Ids
<1>4. TypeOK
  BY <1>2, <1>3, AccountsConstantsOK DEF Init, TypeOK
<1>5. waiting \in [Requests -> UserRequest \cup SignupRequest \cup {None}] /\ sessions = {}
  BY DEF Init
<1> QED BY <1>4, <1>5 DEF Typed, Signed
-----------------------------------------------------------------------------
(* Steps that change addresses only. *)

Books(id, m, a) == AddMailbox(a) \/ AddAlias(id, m, a) \/ DeleteAlias(id, a) \/ DeleteMailbox(id, a)

\* What a request in flight and the users table have is left alone by them.
LEMMA BooksTyped ==
  ASSUME Typed, NEW id \in Ids, NEW m \in Names, NEW a \in Names, Books(id, m, a)
  PROVE  Typed' /\ UNCHANGED <<users, sessions, mailed, waiting, proven, caught, rewritten>>
<1>1. UNCHANGED <<users, sessions, mailed, waiting, proven, caught, rewritten>>
  BY DEF Books, AddMailbox, AddAlias, DeleteAlias, DeleteMailbox
<1>2. boxes' \in [Names -> Ids \cup {None, Operator}] /\ retired' \subseteq Names
  BY DEF Books, AddMailbox, AddAlias, DeleteAlias, DeleteMailbox, Typed, TypeOK
<1>3. aliases' \in [Names -> Names \cup {None}]
  BY DEF Books, AddMailbox, AddAlias, DeleteAlias, DeleteMailbox, Without, Typed, TypeOK
<1>4. ops' \in 0 .. MaxOps /\ late' \subseteq Names
  BY Constants DEF Books, AddMailbox, AddAlias, DeleteAlias, DeleteMailbox, Counted, Typed, TypeOK
<1> QED BY <1>1, <1>2, <1>3, <1>4 DEF Typed, TypeOK, Signed, Exists

(* Steps that read, and leave a request waiting. *)

LEMMA ReadsTyped ==
  ASSUME Typed, NEW r \in Requests, NEW id \in Ids, NEW p \in Passwords, NEW c \in Secrets \cup {None},
         NEW op, LoginReads(r, id, p, c) \/ SecuredReads(r, op, id, p, c)
  PROVE  /\ Typed' /\ UNCHANGED <<rows, mailed, proven, late, caught, rewritten>>
         /\ Exists(id) /\ waiting'[r] \in UserRequest
         /\ waiting'[r].id = id /\ waiting'[r].row = users[id]
         /\ waiting'[r].password.by = users[id].email
         /\ \A o \in Requests : o # r => waiting'[o] = waiting[o]
<1>1. Exists(id) /\ p.by = users[id].email
      /\ UNCHANGED <<rows, mailed, proven, late, caught, rewritten>>
  BY ActorExists DEF LoginReads, SecuredReads
<1>6. ops' \in 0 .. MaxOps
  <2>1. Counted
    BY DEF LoginReads, SecuredReads
  <2> QED BY <2>1, Constants DEF Counted, Typed, TypeOK
<1>2. PICK kind \in {"login", "password", "totp off", "delete"} : Wait(r, Read(kind, id, p, c))
  BY DEF LoginReads, SecuredReads
<1> DEFINE q == Read(kind, id, p, c)
<1>3. q \in UserRequest /\ q.id = id /\ q.row = users[id] /\ q.password = p
  <2>1. Read(kind, id, p, c) \in UserRequest
    BY <1>1 DEF Read, UserRequest, Typed, TypeOK, Exists
  <2>2. Read(kind, id, p, c).id = id /\ Read(kind, id, p, c).row = users[id]
    BY DEF Read
  <2>3. Read(kind, id, p, c).password = p
    BY DEF Read
  <2> QED BY <2>1, <2>2, <2>3
<1>4. Wait(r, q)
  BY <1>2
<1> HIDE DEF q
<1>5. /\ waiting' \in [Requests -> UserRequest \cup SignupRequest \cup {None}]
      /\ waiting'[r] = q /\ \A o \in Requests : o # r => waiting'[o] = waiting[o]
  BY <1>3, <1>4, WaitKeeps
<1>7. UNCHANGED <<users, boxes, aliases, retired, sessions, mailed, proven, late, caught, rewritten>>
  BY <1>1 DEF rows
<1>8. Typed'
  BY <1>5, <1>6, <1>7 DEF Typed, TypeOK, Signed, Exists
<1> QED BY <1>1, <1>3, <1>5, <1>8

LEMMA SignupChecksTyped ==
  ASSUME Typed, NEW r \in Requests, NEW e \in Emails, NEW a \in Names, SignupChecks(r, e, a)
  PROVE  /\ Typed' /\ UNCHANGED <<rows, mailed, proven, late, caught, rewritten>>
         /\ waiting'[r] \in SignupRequest
         /\ \A o \in Requests : o # r => waiting'[o] = waiting[o]
<1> DEFINE q == [op |-> "signup", email |-> e, name |-> a, id |-> None]
<1>1. q \in SignupRequest
  BY DEF SignupRequest
<1>2. Wait(r, q) /\ Counted /\ UNCHANGED <<rows, mailed, proven, late, caught, rewritten>>
  BY DEF SignupChecks
<1> HIDE DEF q
<1>3. /\ waiting' \in [Requests -> UserRequest \cup SignupRequest \cup {None}]
      /\ waiting'[r] = q /\ \A o \in Requests : o # r => waiting'[o] = waiting[o]
  BY <1>1, <1>2, WaitKeeps
<1>4. ops' \in 0 .. MaxOps
  BY <1>2, Constants DEF Counted, Typed, TypeOK
<1> QED BY <1>1, <1>2, <1>3, <1>4 DEF Typed, TypeOK, rows, Signed, Exists
-----------------------------------------------------------------------------
(* A sign-up that writes. *)

LEMMA SignupTyped ==
  ASSUME Typed, NEW r \in Requests, SignupWrites(r)
  PROVE  /\ Typed' /\ Done(r) /\ UNCHANGED <<aliases, retired, sessions, ops, caught, rewritten>>
         /\ waiting[r] \in SignupRequest
         /\ \/ UNCHANGED <<users, boxes, proven, late>>
            \/ \E id \in Ids :
                 /\ ~Exists(id) /\ Unique(waiting[r].email, waiting[r].name)
                 /\ users'[id] # None /\ users'[id].email = waiting[r].email
                 /\ users'[id].password.by = waiting[r].email /\ ~users'[id].on
                 /\ \A j \in Ids : j # id => users'[j] = users[j] /\ proven'[j] = proven[j]
                 /\ boxes' = [boxes EXCEPT ![waiting[r].name] = id]
                 /\ late' = IF IsUsernameAvailable(waiting[r].name) THEN late
                            ELSE late \cup {waiting[r].name}
<1> DEFINE e == waiting[r].email
           a == waiting[r].name
<1>0. waiting[r] \in SignupRequest /\ e \in Emails /\ a \in Names
  BY SignupRead DEF SignupWrites, SignupRequest
<1>1. /\ Done(r) /\ UNCHANGED <<aliases, retired, sessions, ops, caught, rewritten>>
      /\ waiting' \in [Requests -> UserRequest \cup SignupRequest \cup {None}]
  BY DoneKeeps DEF SignupWrites
<1>2. CASE ~Unique(e, a)
  <2>1. UNCHANGED <<users, boxes, mailed, proven, late>>
    BY <1>2 DEF SignupWrites
  <2>2. Typed'
    BY <1>1, <2>1 DEF Typed, TypeOK, Signed, Exists
  <2> QED BY <1>0, <1>1, <2>1, <2>2
<1>3. CASE Unique(e, a)
  <2>1. PICK id \in Ids :
          /\ IsNext(id)
          /\ users' = [users EXCEPT ![id] = NewUser(e, [by |-> e, n |-> 1])]
          /\ boxes' = [boxes EXCEPT ![a] = id]
          /\ proven' = [proven EXCEPT ![id] = None]
          /\ \/ mailed' = mailed \cup {[id |-> id, to |-> e]}
             \/ mailed' = mailed
    BY <1>3 DEF SignupWrites
  <2>2. late' = IF IsUsernameAvailable(a) THEN late ELSE late \cup {a}
    BY <1>3 DEF SignupWrites
  <2>3. ~Exists(id)
    BY <2>1, NextIsFree
  <2> DEFINE u == NewUser(e, [by |-> e, n |-> 1])
  <2>4. u \in UserRow /\ u.email = e /\ u.password.by = e /\ ~u.on
    BY <1>0, NewUserRow
  <2> HIDE DEF u
  <2>5. /\ users' \in [Ids -> UserRow \cup {None}] /\ users'[id] = u /\ u # None
        /\ \A j \in Ids : j # id => users'[j] = users[j]
        /\ \A j \in Ids : Exists(j) => users'[j] # None
    BY <2>1, <2>4, RowReplaced DEF u
  <2>6. /\ proven' \in [Ids -> Secrets \cup {None}] /\ boxes' \in [Names -> Ids \cup {None, Operator}]
        /\ \A j \in Ids : j # id => proven'[j] = proven[j]
    BY <1>0, <2>1 DEF Typed, TypeOK
  <2>7. mailed' \subseteq [id : Ids, to : Emails] /\ late' \subseteq Names
    BY <1>0, <2>1, <2>2 DEF Typed, TypeOK
  <2>8. Signed'
    BY <1>1, <2>5 DEF Typed, TypeOK, Signed, Exists
  <2>9. Typed'
    BY <1>1, <2>5, <2>6, <2>7, <2>8 DEF Typed, TypeOK
  <2> QED BY <1>0, <1>1, <1>3, <2>1, <2>2, <2>3, <2>4, <2>5, <2>6, <2>9
<1> QED BY <1>2, <1>3
-----------------------------------------------------------------------------
(* Steps that work on the row of a user who stays. *)

\* The users are who they were.
SamePeople ==
  \A j \in Ids : /\ (users'[j] = None) <=> (users[j] = None)
                 /\ users[j] # None => users'[j].email = users[j].email

LEMMA LoginTyped ==
  ASSUME Typed, NEW r \in Requests, LoginAnswers(r)
  PROVE  /\ Typed' /\ Done(r) /\ UNCHANGED <<boxes, aliases, retired, ops, proven, late, caught>>
         /\ SamePeople /\ waiting[r] \in UserRequest
         /\ rewritten \subseteq rewritten'
         /\ \A j \in Ids : users[j] # None =>
              /\ users'[j].password = users[j].password /\ users'[j].on = users[j].on
              /\ j \notin rewritten' => users'[j].secret = users[j].secret
         /\ \A s \in sessions' : \/ s \in sessions
                                 \/ s.id = waiting[r].id /\ s.who = waiting[r].row.email
<1> DEFINE q == waiting[r]
<1>1. q \in UserRequest /\ q.id \in Ids /\ q.row \in UserRow /\ q.row.email \in Emails
  BY RequestRead DEF LoginAnswers, UserRequest, UserRow
<1>2. /\ Done(r) /\ UNCHANGED <<boxes, aliases, retired, ops, proven, late, caught>>
      /\ waiting' \in [Requests -> UserRequest \cup SignupRequest \cup {None}]
  BY DoneKeeps DEF LoginAnswers
<1>3. CASE Migrate(q) /\ CreateSession(q.id, q.row.email) /\ UNCHANGED mailed
  <2>1. /\ users' \in [Ids -> UserRow \cup {None}] /\ rewritten' \subseteq Ids
        /\ rewritten \subseteq rewritten'
        /\ \A j \in Ids :
             /\ (users'[j] = None) <=> (users[j] = None)
             /\ users[j] # None =>
                  /\ users'[j].email = users[j].email /\ users'[j].password = users[j].password
                  /\ users'[j].on = users[j].on
                  /\ j \notin rewritten' => users'[j].secret = users[j].secret
    BY <1>1, <1>3, MigratedRow
  <2>2. sessions' = IF Exists(q.id) THEN sessions \cup {[id |-> q.id, who |-> q.row.email]} ELSE sessions
    BY <1>3 DEF CreateSession
  <2>3. sessions' \subseteq [id : Ids, who : Emails]
    BY <1>1, <2>2 DEF Typed, TypeOK
  <2>4. Signed'
    BY <1>1, <2>1, <2>2 DEF Typed, TypeOK, Signed, Exists
  <2>5. Typed'
    BY <1>2, <1>3, <2>1, <2>3, <2>4 DEF Typed, TypeOK
  <2> QED BY <1>1, <1>2, <2>1, <2>2, <2>5 DEF SamePeople
<1>4. ASSUME UNCHANGED <<users, sessions, rewritten>>,
             mailed' \in {mailed, mailed \cup {[id |-> q.id, to |-> q.row.email]}}
      PROVE  Typed' /\ SamePeople
  <2>1. mailed' \subseteq [id : Ids, to : Emails]
    BY <1>1, <1>4 DEF Typed, TypeOK
  <2> QED BY <1>2, <1>4, <2>1 DEF Typed, TypeOK, Signed, Exists, SamePeople
<1>5. CASE /\ UNCHANGED <<users, sessions, rewritten>>
           /\ mailed' \in {mailed, mailed \cup {[id |-> q.id, to |-> q.row.email]}}
  BY <1>1, <1>2, <1>4, <1>5
<1> QED BY <1>3, <1>5 DEF LoginAnswers

LEMMA LogoutTyped ==
  ASSUME Typed, NEW s \in sessions, Logout(s)
  PROVE  /\ Typed' /\ sessions' \subseteq sessions
         /\ UNCHANGED <<users, boxes, aliases, retired, waiting, proven, late, caught, rewritten>>
<1>1. ops' \in 0 .. MaxOps
  BY Constants DEF Logout, Counted, Typed, TypeOK
<1> QED BY <1>1 DEF Logout, Typed, TypeOK, Signed, Exists

\* The row of one user gets another value: his email stays his.
LEMMA OneRow ==
  ASSUME Typed, NEW id \in Ids, Exists(id), NEW u \in UserRow, u.email = users[id].email,
         users' = [users EXCEPT ![id] = u], UNCHANGED <<boxes, aliases, retired, sessions, mailed>>,
         ops' \in 0 .. MaxOps, proven' \in [Ids -> Secrets \cup {None}],
         UNCHANGED <<late, caught, rewritten>>,
         waiting' \in [Requests -> UserRequest \cup SignupRequest \cup {None}]
  PROVE  /\ Typed' /\ SamePeople /\ users'[id] = u
         /\ \A j \in Ids : j # id => users'[j] = users[j]
<1>1. /\ users' \in [Ids -> UserRow \cup {None}]
      /\ users'[id] = u /\ u # None
      /\ \A j \in Ids : j # id => users'[j] = users[j]
      /\ \A j \in Ids : Exists(j) => users'[j] # None
  BY RowReplaced
<1>2. Signed'
  BY <1>1 DEF Typed, TypeOK, Signed, Exists
<1>3. Typed'
  BY <1>1, <1>2 DEF Typed, TypeOK
<1>4. SamePeople
  BY <1>1 DEF SamePeople, Exists
<1> QED BY <1>1, <1>3, <1>4

\* The factor of one user, who is signed in, is set up or confirmed, or an email verified.
Factor(id, s) == TotpSetup(id, s) \/ TotpConfirm(id, s)

LEMMA FactorTyped ==
  ASSUME Typed, NEW id \in Ids, NEW s \in Secrets, Factor(id, s)
  PROVE  /\ Typed' /\ SamePeople
         /\ UNCHANGED <<boxes, aliases, retired, sessions, waiting, late, caught, rewritten>>
         /\ Exists(id) /\ users'[id].password = users[id].password
         /\ users'[id].on => users'[id].secret = proven'[id]
         /\ \A j \in Ids : j # id => users'[j] = users[j] /\ proven'[j] = proven[j]
<1> DEFINE on == [users[id] EXCEPT !.on = TRUE]
           v == Seeded(users[id], s)
<1>1. Exists(id) /\ users[id] \in UserRow
  BY ActorExists DEF Factor, TotpSetup, TotpConfirm, Typed, TypeOK, Exists
<1>2. UNCHANGED <<boxes, aliases, retired, sessions, mailed, waiting, late, caught, rewritten>>
  BY DEF Factor, TotpSetup, TotpConfirm
<1>3. ops' \in 0 .. MaxOps
  <2>1. Counted
    BY DEF Factor, TotpSetup, TotpConfirm
  <2> QED BY <2>1, Constants DEF Counted, Typed, TypeOK
<1>4. waiting' \in [Requests -> UserRequest \cup SignupRequest \cup {None}]
  BY <1>2 DEF Typed
<1>5. CASE TotpSetup(id, s)
  <2>1. /\ v \in UserRow /\ v.email = users[id].email /\ ~v.on
        /\ v.password = users[id].password
    BY <1>1, SeededRow
  <2>2. users' = [users EXCEPT ![id] = v] /\ UNCHANGED proven
    BY <1>5 DEF TotpSetup
  <2> HIDE DEF v
  <2>3. proven' \in [Ids -> Secrets \cup {None}]
    BY <2>2 DEF Typed, TypeOK
  <2>4. /\ Typed' /\ SamePeople /\ users'[id] = v
        /\ \A j \in Ids : j # id => users'[j] = users[j]
    BY <1>1, <1>2, <1>3, <1>4, <2>1, <2>2, <2>3, OneRow
  <2> QED BY <1>1, <1>2, <2>1, <2>2, <2>4
<1>6. CASE TotpConfirm(id, s)
  <2>1. /\ on \in UserRow /\ on.email = users[id].email /\ on.secret = s
        /\ on.password = users[id].password
    BY <1>1, <1>6 DEF TotpConfirm, UserRow
  <2>2. users' = [users EXCEPT ![id] = on] /\ proven' = [proven EXCEPT ![id] = s]
    BY <1>1, <1>6 DEF TotpConfirm, UserRow
  <2> HIDE DEF on
  <2>3. /\ proven' \in [Ids -> Secrets \cup {None}] /\ proven'[id] = s
        /\ \A j \in Ids : j # id => proven'[j] = proven[j]
    BY <2>2 DEF Typed, TypeOK
  <2>4. /\ Typed' /\ SamePeople /\ users'[id] = on
        /\ \A j \in Ids : j # id => users'[j] = users[j]
    BY <1>1, <1>2, <1>3, <1>4, <2>1, <2>2, <2>3, OneRow
  <2> QED BY <1>1, <1>2, <2>1, <2>3, <2>4
<1> QED BY <1>5, <1>6 DEF Factor

LEMMA VerifyTyped ==
  ASSUME Typed, NEW l \in mailed, Verify(l)
  PROVE  /\ Typed' /\ SamePeople
         /\ UNCHANGED <<boxes, aliases, retired, sessions, waiting, proven, late, caught, rewritten>>
         /\ \A j \in Ids : Exists(j) => /\ users'[j].password = users[j].password
                                        /\ users'[j].on = users[j].on
                                        /\ users'[j].secret = users[j].secret
<1> DEFINE id == l.id
           u == [users[id] EXCEPT !.verified = TRUE]
<1>1. id \in Ids /\ Exists(id)
  BY DEF Verify, Typed, TypeOK
<1>2. users[id] \in UserRow
  BY <1>1 DEF Typed, TypeOK, Exists
<1>3. /\ u \in UserRow /\ u.email = users[id].email /\ u.password = users[id].password
      /\ u.on = users[id].on /\ u.secret = users[id].secret
  BY <1>2 DEF UserRow
<1>4. users' = [users EXCEPT ![id] = u]
  BY <1>1, <1>2 DEF Verify, UserRow
<1>5. UNCHANGED <<boxes, aliases, retired, sessions, mailed, waiting, proven, late, caught, rewritten>>
  BY DEF Verify
<1>6. ops' \in 0 .. MaxOps
  BY Constants DEF Verify, Counted, Typed, TypeOK
<1>7. waiting' \in [Requests -> UserRequest \cup SignupRequest \cup {None}]
      /\ proven' \in [Ids -> Secrets \cup {None}]
  BY <1>5 DEF Typed, TypeOK
<1> HIDE DEF id, u
<1>8. /\ Typed' /\ SamePeople /\ users'[id] = u
      /\ \A j \in Ids : j # id => users'[j] = users[j]
  BY <1>1, <1>3, <1>4, <1>5, <1>6, <1>7, OneRow
<1> QED BY <1>1, <1>3, <1>5, <1>8

LEMMA PasswordTyped ==
  ASSUME Typed, NEW r \in Requests, PasswordWrites(r)
  PROVE  /\ Typed' /\ Done(r) /\ SamePeople /\ waiting[r] \in UserRequest
         /\ UNCHANGED <<boxes, aliases, retired, sessions, ops, proven, late, caught, rewritten>>
         /\ \A j \in Ids : Exists(j) =>
              /\ users'[j].on = users[j].on /\ users'[j].secret = users[j].secret
              /\ \/ users'[j].password = users[j].password
                 \/ j = waiting[r].id /\ users'[j].password.by = waiting[r].password.by
<1> DEFINE q == waiting[r]
           p == [q.password EXCEPT !.n = 3 - @]
           u == [users[q.id] EXCEPT !.password = p]
<1>1. q \in UserRequest /\ q.id \in Ids /\ q.password \in Passwords
  BY RequestRead DEF PasswordWrites, UserRequest
<1>2. /\ Done(r) /\ UNCHANGED <<boxes, aliases, retired, sessions, mailed, ops, proven, late, caught, rewritten>>
      /\ waiting' \in [Requests -> UserRequest \cup SignupRequest \cup {None}]
  BY DoneKeeps DEF PasswordWrites
<1>3. ops' \in 0 .. MaxOps /\ proven' \in [Ids -> Secrets \cup {None}]
  BY <1>2 DEF Typed, TypeOK
<1>4. CASE UNCHANGED users
  <2>1. Typed'
    BY <1>2, <1>4 DEF Typed, TypeOK, Signed, Exists
  <2> QED BY <1>1, <1>2, <1>4, <2>1 DEF SamePeople
<1>5. CASE Exists(q.id) /\ users' = [users EXCEPT ![q.id].password = p]
  <2>1. p \in Passwords /\ p.by = q.password.by
    BY <1>1 DEF Passwords
  <2> HIDE DEF p
  <2>2. users[q.id] \in UserRow
    BY <1>1, <1>5 DEF Typed, TypeOK, Exists
  <2>3. /\ u \in UserRow /\ u.email = users[q.id].email /\ u.password = p
        /\ u.on = users[q.id].on /\ u.secret = users[q.id].secret
    BY <2>1, <2>2 DEF UserRow
  <2>4. users' = [users EXCEPT ![q.id] = u]
    BY <1>1, <1>5, <2>2 DEF UserRow
  <2> HIDE DEF u
  <2>5. /\ Typed' /\ SamePeople /\ users'[q.id] = u
        /\ \A j \in Ids : j # q.id => users'[j] = users[j]
    BY <1>1, <1>2, <1>3, <1>5, <2>3, <2>4, OneRow
  <2> QED BY <1>1, <1>2, <2>1, <2>3, <2>5
<1> QED BY <1>4, <1>5 DEF PasswordWrites

LEMMA TotpOffTyped ==
  ASSUME Typed, NEW r \in Requests, TotpOff(r)
  PROVE  /\ Typed' /\ Done(r) /\ SamePeople /\ waiting[r] \in UserRequest
         /\ UNCHANGED <<boxes, aliases, retired, sessions, ops, proven, late, caught, rewritten>>
         /\ \A j \in Ids : Exists(j) =>
              /\ users'[j].password = users[j].password
              /\ ~users'[j].on \/ (users'[j].on = users[j].on /\ users'[j].secret = users[j].secret)
<1> DEFINE q == waiting[r]
           u == Seeded(users[q.id], None)
<1>1. q \in UserRequest /\ q.id \in Ids
  BY RequestRead DEF TotpOff, UserRequest
<1>2. /\ Done(r) /\ UNCHANGED <<boxes, aliases, retired, sessions, mailed, ops, proven, late, caught, rewritten>>
      /\ waiting' \in [Requests -> UserRequest \cup SignupRequest \cup {None}]
  BY DoneKeeps DEF TotpOff
<1>3. ops' \in 0 .. MaxOps /\ proven' \in [Ids -> Secrets \cup {None}]
  BY <1>2 DEF Typed, TypeOK
<1>4. CASE UNCHANGED users
  <2>1. Typed'
    BY <1>2, <1>4 DEF Typed, TypeOK, Signed, Exists
  <2> QED BY <1>1, <1>2, <1>4, <2>1 DEF SamePeople
<1>5. CASE Exists(q.id) /\ users' = [users EXCEPT ![q.id] = u]
  <2>1. users[q.id] \in UserRow
    BY <1>1, <1>5 DEF Typed, TypeOK, Exists
  <2>2. /\ u \in UserRow /\ ~u.on
        /\ u.email = users[q.id].email /\ u.password = users[q.id].password
    BY <2>1, SeededRow
  <2> HIDE DEF u
  <2>3. /\ Typed' /\ SamePeople /\ users'[q.id] = u
        /\ \A j \in Ids : j # q.id => users'[j] = users[j]
    BY <1>1, <1>2, <1>3, <1>5, <2>2, OneRow
  <2> QED BY <1>1, <1>2, <2>2, <2>3
<1> QED BY <1>4, <1>5 DEF TotpOff
-----------------------------------------------------------------------------
(* Deletion. *)

\* What the transaction of a deletion of number id does.
Deletes(id, r) ==
  /\ Exists(id)
  /\ retired' = retired \cup Retires(id)
  /\ aliases' = Without(Held(id))
  /\ boxes' = [a \in Names |-> IF boxes[a] = id THEN None ELSE boxes[a]]
  /\ users' = [users EXCEPT ![id] = None]
  /\ sessions' = SessionsLeft(id)
  /\ caught' = IF \E o \in Requests \ {r} : waiting[o] # None /\ waiting[o].id = id
                 THEN caught \cup {id} ELSE caught

LEMMA DeleteTyped ==
  ASSUME Typed, NEW r \in Requests, DeleteWrites(r)
  PROVE  /\ Typed' /\ Done(r) /\ UNCHANGED <<mailed, ops, proven, late, rewritten>>
         /\ waiting[r] \in UserRequest
         /\ UNCHANGED <<rows, caught>> \/ Deletes(waiting[r].id, r)
<1> DEFINE id == waiting[r].id
<1>1. waiting[r] \in UserRequest /\ id \in Ids
  BY RequestRead DEF DeleteWrites, UserRequest
<1>2. /\ Done(r) /\ UNCHANGED <<mailed, ops, proven, late, rewritten>>
      /\ waiting' \in [Requests -> UserRequest \cup SignupRequest \cup {None}]
  BY DoneKeeps DEF DeleteWrites
<1>3. UNCHANGED <<rows, caught>> \/ Deletes(id, r)
  BY DEF DeleteWrites, Deletes
<1> HIDE DEF id
<1>4. CASE UNCHANGED <<rows, caught>>
  <2>1. UNCHANGED <<users, boxes, aliases, retired, sessions, caught>>
    BY <1>4 DEF rows
  <2>2. Typed'
    BY <1>2, <2>1 DEF Typed, TypeOK, Signed, Exists
  <2> QED BY <1>1, <1>2, <1>4, <2>2
<1>5. CASE Deletes(id, r)
  <2>1. users' \in [Ids -> UserRow \cup {None}] /\ sessions' \subseteq [id : Ids, who : Emails]
    BY <1>1, <1>5 DEF Deletes, SessionsLeft, Typed, TypeOK
  <2>2. boxes' \in [Names -> Ids \cup {None, Operator}] /\ aliases' \in [Names -> Names \cup {None}]
    BY <1>5 DEF Deletes, Without, Typed, TypeOK
  <2>3. retired' \subseteq Names /\ caught' \subseteq Ids
    BY <1>1, <1>5 DEF Deletes, Retires, Held, AliasesOf, Typed, TypeOK
  <2>4. Signed'
    BY <1>1, <1>5 DEF Deletes, SessionsLeft, Typed, TypeOK, Signed, Exists
  <2>5. Typed'
    BY <1>2, <2>1, <2>2, <2>3, <2>4 DEF Typed, TypeOK
  <2> QED BY <1>1, <1>2, <1>5, <2>5 DEF id
<1> QED BY <1>3, <1>4, <1>5

\* The steps of Addressing.
LEMMA AddressingKinds ==
  ASSUME Addressing
  PROVE  \/ \E r \in Requests, e \in Emails, a \in Names : SignupChecks(r, e, a)
         \/ \E r \in Requests : SignupWrites(r)
         \/ \E l \in mailed : Verify(l)
         \/ \E id \in Ids, m, a \in Names : Books(id, m, a)
<1>1. 1 \in Ids
  BY AccountsConstantsOK DEF Ids
<1>2. ASSUME NEW a \in Names, AddMailbox(a) PROVE \E id \in Ids, m, b \in Names : Books(id, m, b)
  BY <1>1, <1>2 DEF Books
<1>3. ASSUME NEW a \in Names, NEW id \in Ids, DeleteAlias(id, a) \/ DeleteMailbox(id, a)
      PROVE  \E i \in Ids, m, b \in Names : Books(i, m, b)
  BY <1>3 DEF Books
<1>4. ASSUME NEW a \in Names, NEW m \in Names, NEW id \in Ids, AddAlias(id, m, a)
      PROVE  \E i \in Ids, n, b \in Names : Books(i, n, b)
  BY <1>4 DEF Books
<1> QED BY <1>2, <1>3, <1>4 DEF Addressing

LEMMA TypesStep == Typed /\ [Next]_vars => Typed'
<1> SUFFICES ASSUME Typed, [Next]_vars PROVE Typed'
  OBVIOUS
<1>1. CASE Signing
  BY <1>1, ReadsTyped, LoginTyped, LogoutTyped DEF Signing
<1>2. CASE Securing
  BY <1>2, ReadsTyped, PasswordTyped, TotpOffTyped, DeleteTyped, FactorTyped DEF Securing, Factor
<1>3. CASE Addressing
  BY <1>3, SignupChecksTyped, SignupTyped, VerifyTyped, BooksTyped, AddressingKinds
<1>4. CASE UNCHANGED vars
  BY <1>4 DEF vars, rows, Typed, TypeOK, Signed, Exists
<1> QED BY <1>1, <1>2, <1>3, <1>4 DEF Next

\* The tables, and what waiting requests have read of them, are well formed, and a
\* session always has a user (routes/auth.ts, routes/signup.ts, account-deletion.ts).
THEOREM AccountsTyped == Spec => []TypeOK
<1>1. Typed => TypeOK
  BY DEF Typed
<1> QED BY <1>1, TypesInit, TypesStep, PTL DEF Spec
-----------------------------------------------------------------------------
(* Addresses. *)

\* An address that none of the lists held is put into one; what is deleted is retired
\* and leaves both other lists.
LEMMA AddressStep == Typed /\ AddressHeldOnce /\ [Next]_vars => AddressHeldOnce'
<1> SUFFICES ASSUME Typed, AddressHeldOnce, [Next]_vars PROVE AddressHeldOnce'
  OBVIOUS
<1>0. boxes \in [Names -> Ids \cup {None, Operator}] /\ aliases \in [Names -> Names \cup {None}]
  BY DEF Typed, TypeOK
<1>1. ASSUME UNCHANGED <<boxes, aliases, retired, late>> PROVE AddressHeldOnce'
  BY <1>1 DEF AddressHeldOnce
<1>2. CASE Signing
  BY <1>1, <1>2, ReadsTyped, LoginTyped, LogoutTyped DEF Signing, rows
<1>3. ASSUME NEW r \in Requests, DeleteWrites(r) PROVE AddressHeldOnce'
  <2>1. UNCHANGED late /\ (UNCHANGED <<rows, caught>> \/ Deletes(waiting[r].id, r))
        /\ waiting[r].id \in Ids
    BY <1>3, DeleteTyped DEF UserRequest
  <2>2. CASE UNCHANGED <<rows, caught>>
    BY <1>1, <2>1, <2>2 DEF rows
  <2>3. CASE Deletes(waiting[r].id, r)
    <3> DEFINE id == waiting[r].id
    <3>1. /\ retired' = retired \cup Held(id) \cup {a \in Names : aliases[a] \in Held(id)}
          /\ \A a \in Names : /\ aliases'[a] = IF aliases[a] \in Held(id) THEN None ELSE aliases[a]
                              /\ boxes'[a] = IF a \in Held(id) THEN None ELSE boxes[a]
          /\ None \notin Held(id) /\ \A a \in Held(id) : boxes[a] # None
      BY <2>1, <2>3, Constants DEF Deletes, Retires, AliasesOf, Without, Held
    <3> HIDE DEF id
    <3> QED BY <2>1, <3>1 DEF AddressHeldOnce
  <2> QED BY <2>1, <2>2, <2>3
<1>4. CASE Securing
  <2>1. ASSUME NEW r \in Requests, PasswordWrites(r) \/ TotpOff(r) PROVE AddressHeldOnce'
    BY <1>1, <2>1, PasswordTyped, TotpOffTyped
  <2>2. ASSUME NEW id \in Ids, NEW s \in Secrets, Factor(id, s) PROVE AddressHeldOnce'
    BY <1>1, <2>2, FactorTyped
  <2>3. ASSUME NEW r \in Requests, NEW id \in Ids, NEW p \in Passwords,
               NEW c \in Secrets \cup {None}, NEW op, SecuredReads(r, op, id, p, c)
        PROVE  AddressHeldOnce'
    BY <1>1, <2>3, ReadsTyped DEF rows
  <2> QED BY <1>3, <1>4, <2>1, <2>2, <2>3 DEF Securing, Factor
<1>5. ASSUME NEW r \in Requests, SignupWrites(r) PROVE AddressHeldOnce'
  <2>1. UNCHANGED <<aliases, retired>> /\ waiting[r].name \in Names
    BY <1>5, SignupTyped DEF SignupRequest
  <2>2. CASE UNCHANGED <<boxes, late>>
    BY <1>1, <2>1, <2>2
  <2>3. ASSUME NEW id, boxes' = [boxes EXCEPT ![waiting[r].name] = id],
               late' = IF IsUsernameAvailable(waiting[r].name) THEN late
                       ELSE late \cup {waiting[r].name}
        PROVE  AddressHeldOnce'
    BY <1>0, <2>1, <2>3 DEF AddressHeldOnce, IsUsernameAvailable
  <2> QED BY <1>5, <2>2, <2>3, SignupTyped
<1>6. ASSUME NEW id \in Ids, NEW m \in Names, NEW a \in Names, Books(id, m, a) PROVE AddressHeldOnce'
  <2>1. CASE AddMailbox(a)
    BY <1>0, <2>1 DEF AddMailbox, IsUsernameAvailable, AddressHeldOnce
  <2>2. CASE AddAlias(id, m, a)
    BY <1>0, <2>2 DEF AddAlias, AliasAddressFree, AddressHeldOnce
  <2>3. CASE DeleteAlias(id, a)
    BY <1>0, <2>3 DEF DeleteAlias, AddressHeldOnce
  <2>4. CASE DeleteMailbox(id, a)
    BY <1>0, <2>4 DEF DeleteMailbox, Without, AddressHeldOnce
  <2> QED BY <1>6, <2>1, <2>2, <2>3, <2>4 DEF Books
<1>7. CASE Addressing
  <2>1. ASSUME NEW l \in mailed, Verify(l) PROVE AddressHeldOnce'
    BY <1>1, <2>1, VerifyTyped
  <2>2. ASSUME NEW r \in Requests, NEW e \in Emails, NEW a \in Names, SignupChecks(r, e, a)
        PROVE  AddressHeldOnce'
    BY <1>1, <2>2, SignupChecksTyped DEF rows
  <2> QED BY <1>5, <1>6, <1>7, <2>1, <2>2, AddressingKinds
<1>8. CASE UNCHANGED vars
  BY <1>1, <1>8 DEF vars, rows
<1> QED BY <1>2, <1>4, <1>7, <1>8 DEF Next

\* An address is a mailbox, an alias or retired, and not two of these, for any number of
\* people and requests, unless who took it did not look, or had looked too early
\* (usernames.ts, routes/signup.ts, account-deletion.ts).
THEOREM AddressesApart == Spec => []AddressHeldOnce
<1>1. Init => AddressHeldOnce
  BY DEF Init, AddressHeldOnce
<1> QED BY <1>1, TypesInit, TypesStep, AddressStep, PTL DEF Spec
-----------------------------------------------------------------------------
(* Who a number stands for. *)

\* A request that waits knows the user it works for, as long as that user has not been
\* deleted meanwhile: a number without waiting requests may be given to somebody else.
Knows(r) ==
  waiting[r] # None /\ waiting[r].op # "signup" /\ waiting[r].id \notin caught =>
    /\ Exists(waiting[r].id)
    /\ users[waiting[r].id].email = waiting[r].row.email
    /\ waiting[r].password.by = waiting[r].row.email

Own == NothingOfAnother /\ \A r \in Requests : Knows(r)

\* The users are the same, and what waits is what waited.
LEMMA KnowsStays ==
  ASSUME Typed, SamePeople, caught' = caught, NEW r \in Requests, Knows(r),
         waiting'[r] # None => waiting'[r] = waiting[r]
  PROVE  Knows(r)'
<1>1. SUFFICES ASSUME waiting'[r] # None, waiting[r].op # "signup", waiting[r].id \notin caught,
                      waiting'[r] = waiting[r]
               PROVE  /\ users'[waiting[r].id] # None
                      /\ users'[waiting[r].id].email = waiting[r].row.email
                      /\ waiting[r].password.by = waiting[r].row.email
  BY DEF Knows, Exists
<1>2. waiting[r] \in UserRequest
  BY <1>1, RequestRead
<1>3. waiting[r].id \in Ids
  BY <1>2 DEF UserRequest
<1> QED BY <1>1, <1>2, <1>3 DEF Knows, Exists, SamePeople

\* Users are the same, sessions are of those who signed in, and passwords stay with
\* their owners.
LEMMA OwnStays ==
  ASSUME Typed, Own, SamePeople, caught' = caught,
         \A r \in Requests : waiting'[r] # None => waiting'[r] = waiting[r],
         \A s \in sessions' : s \in sessions \/ (s.id \in Ids /\ (s.id \notin caught =>
             Exists(s.id) /\ users[s.id].email = s.who)),
         \A j \in Ids \ caught : Exists(j) => users'[j].password.by = users[j].password.by
                                           \/ users'[j].password.by = users[j].email
  PROVE  Own'
<1>1. ASSUME NEW r \in Requests PROVE Knows(r)'
  <2>1. Knows(r)
    BY DEF Own
  <2> QED BY <2>1, KnowsStays
<1>2. ASSUME NEW s \in sessions', s.id \notin caught
      PROVE  users'[s.id] # None /\ users'[s.id].email = s.who
  <2>1. s.id \in Ids /\ Exists(s.id) /\ users[s.id].email = s.who
    BY <1>2 DEF Own, NothingOfAnother, Typed, TypeOK
  <2> QED BY <2>1 DEF SamePeople, Exists
<1>3. ASSUME NEW j \in Ids \ caught, users'[j] # None PROVE users'[j].password.by = users'[j].email
  BY <1>3 DEF Own, NothingOfAnother, SamePeople, Exists
<1>4. NothingOfAnother'
  BY <1>2, <1>3 DEF NothingOfAnother, Exists
<1> QED BY <1>1, <1>4 DEF Own

\* A request that begins to wait knows whom it works for.
LEMMA ReadsOwn ==
  ASSUME Typed, Own, NEW r \in Requests, NEW id \in Ids, NEW p \in Passwords,
         NEW c \in Secrets \cup {None}, NEW op,
         LoginReads(r, id, p, c) \/ SecuredReads(r, op, id, p, c)
  PROVE  Own'
<1>1. /\ UNCHANGED <<users, sessions, caught>>
      /\ Exists(id) /\ waiting'[r].id = id /\ waiting'[r].row = users[id]
      /\ waiting'[r].password.by = users[id].email
      /\ \A o \in Requests : o # r => waiting'[o] = waiting[o]
  BY ReadsTyped DEF rows
<1>2. \A o \in Requests : Knows(o)'
  BY <1>1 DEF Own, Knows, Exists
<1> QED BY <1>1, <1>2 DEF Own, NothingOfAnother, Exists

LEMMA OwnSigning == Typed /\ Own /\ Signing => Own'
<1> SUFFICES ASSUME Typed, Own, Signing PROVE Own'
  OBVIOUS
<1>1. ASSUME NEW r \in Requests, LoginAnswers(r) PROVE Own'
  <2>1. /\ SamePeople /\ caught' = caught /\ waiting[r] \in UserRequest
        /\ \A o \in Requests : waiting'[o] # None => waiting'[o] = waiting[o]
    BY <1>1, LoginTyped, DoneKeeps
  <2>2. \A j \in Ids : users[j] # None => users'[j].password = users[j].password
    BY <1>1, LoginTyped
  <2>3. ASSUME NEW s \in sessions', s \notin sessions, s.id \notin caught
        PROVE  s.id \in Ids /\ Exists(s.id) /\ users[s.id].email = s.who
    <3>1. s.id = waiting[r].id /\ s.who = waiting[r].row.email /\ s.id \in Ids
      BY <1>1, <2>1, <2>3, LoginTyped DEF UserRequest
    <3>2. waiting[r] # None /\ waiting[r].op # "signup"
      BY <1>1 DEF LoginAnswers
    <3> QED BY <2>3, <3>1, <3>2 DEF Own, Knows
  <2>4. \A s \in sessions' : s \in sessions \/ s.id \in Ids
    BY <1>1, <2>1, LoginTyped DEF UserRequest
  <2> QED BY <2>1, <2>2, <2>3, <2>4, OwnStays DEF Exists
<1>2. ASSUME NEW s \in sessions, Logout(s) PROVE Own'
  <2>1. UNCHANGED <<users, waiting, caught>> /\ sessions' \subseteq sessions
    BY <1>2, LogoutTyped
  <2> QED BY <2>1, OwnStays DEF SamePeople
<1>3. ASSUME NEW r \in Requests, NEW id \in Ids, NEW p \in Passwords, NEW c \in Secrets \cup {None},
             LoginReads(r, id, p, c)
      PROVE  Own'
  BY <1>3, ReadsOwn
<1> QED BY <1>1, <1>2, <1>3 DEF Signing

LEMMA OwnSecuring == Typed /\ Own /\ Securing => Own'
<1> SUFFICES ASSUME Typed, Own, Securing PROVE Own'
  OBVIOUS
<1>1. ASSUME NEW r \in Requests, PasswordWrites(r) PROVE Own'
  <2>1. /\ SamePeople /\ caught' = caught /\ sessions' = sessions /\ waiting[r] \in UserRequest
        /\ \A o \in Requests : waiting'[o] # None => waiting'[o] = waiting[o]
    BY <1>1, PasswordTyped, DoneKeeps
  <2>2. ASSUME NEW j \in Ids \ caught, Exists(j)
        PROVE  users'[j].password.by = users[j].password.by \/ users'[j].password.by = users[j].email
    <3>1. \/ users'[j].password = users[j].password
          \/ j = waiting[r].id /\ users'[j].password.by = waiting[r].password.by
      BY <1>1, <2>2, PasswordTyped
    <3>2. waiting[r] # None /\ waiting[r].op # "signup"
      BY <1>1 DEF PasswordWrites
    <3> QED BY <2>2, <3>1, <3>2 DEF Own, Knows
  <2> QED BY <2>1, <2>2, OwnStays
<1>2. ASSUME NEW r \in Requests, TotpOff(r) PROVE Own'
  <2>1. /\ SamePeople /\ caught' = caught /\ sessions' = sessions
        /\ \A o \in Requests : waiting'[o] # None => waiting'[o] = waiting[o]
        /\ \A j \in Ids : Exists(j) => users'[j].password = users[j].password
    BY <1>2, TotpOffTyped, DoneKeeps
  <2> QED BY <2>1, OwnStays
<1>3. ASSUME NEW id \in Ids, NEW s \in Secrets, Factor(id, s) PROVE Own'
  <2>1. SamePeople /\ UNCHANGED <<sessions, waiting, caught>>
    BY <1>3, FactorTyped
  <2>2. \A j \in Ids : users'[j].password = users[j].password
    BY <1>3, FactorTyped
  <2> QED BY <2>1, <2>2, OwnStays
<1>4. ASSUME NEW r \in Requests, NEW id \in Ids, NEW p \in Passwords, NEW c \in Secrets \cup {None},
             NEW op, SecuredReads(r, op, id, p, c)
      PROVE  Own'
  BY <1>4, ReadsOwn
<1>5. ASSUME NEW r \in Requests, DeleteWrites(r) PROVE Own'
  <2> DEFINE id == waiting[r].id
  <2>1. /\ \A o \in Requests : waiting'[o] # None => o # r /\ waiting'[o] = waiting[o]
        /\ id \in Ids
    BY <1>5, DeleteTyped, DoneKeeps DEF UserRequest
  <2>2. CASE UNCHANGED <<rows, caught>>
    <3>1. UNCHANGED <<users, sessions, caught>>
      BY <2>2 DEF rows
    <3> QED BY <2>1, <3>1, OwnStays DEF SamePeople
  <2>3. CASE Deletes(id, r)
    <3>1. /\ users' = [users EXCEPT ![id] = None] /\ sessions' = {s \in sessions : s.id # id}
          /\ caught \subseteq caught'
          /\ \A o \in Requests \ {r} : waiting[o] # None /\ waiting[o].id = id => id \in caught'
      BY <2>3 DEF Deletes, SessionsLeft
    <3> HIDE DEF id
    <3>2. \A j \in Ids : users'[j] = IF j = id THEN None ELSE users[j]
      BY <3>1 DEF Typed, TypeOK
    <3>3. ASSUME NEW o \in Requests PROVE Knows(o)'
      <4>1. SUFFICES ASSUME waiting'[o] # None, waiting'[o].op # "signup", waiting'[o].id \notin caught'
                     PROVE  /\ users'[waiting'[o].id] # None
                            /\ users'[waiting'[o].id].email = waiting'[o].row.email
                            /\ waiting'[o].password.by = waiting'[o].row.email
        BY DEF Knows, Exists
      <4>2. o # r /\ waiting'[o] = waiting[o]
        BY <2>1, <4>1
      <4>3. waiting[o].id \in Ids
        BY <4>1, <4>2, RequestRead DEF UserRequest
      <4>4. waiting[o].id # id /\ waiting[o].id \notin caught
        BY <3>1, <4>1, <4>2
      <4> QED BY <3>2, <4>1, <4>2, <4>3, <4>4 DEF Own, Knows, Exists
    <3>4. ASSUME NEW s \in sessions', s.id \notin caught'
          PROVE  users'[s.id] # None /\ users'[s.id].email = s.who
      BY <3>1, <3>2, <3>4 DEF Own, NothingOfAnother, Typed, TypeOK, Exists
    <3>5. ASSUME NEW j \in Ids \ caught', users'[j] # None
          PROVE  users'[j].password.by = users'[j].email
      BY <3>1, <3>2, <3>5 DEF Own, NothingOfAnother, Exists
    <3>6. NothingOfAnother'
      BY <3>4, <3>5 DEF NothingOfAnother, Exists
    <3> QED BY <3>3, <3>6 DEF Own
  <2> QED BY <1>5, <2>2, <2>3, DeleteTyped
<1> QED BY <1>1, <1>2, <1>3, <1>4, <1>5 DEF Securing, Factor

LEMMA OwnAddressing == Typed /\ Own /\ Addressing => Own'
<1> SUFFICES ASSUME Typed, Own, Addressing PROVE Own'
  OBVIOUS
<1>1. ASSUME NEW l \in mailed, Verify(l) PROVE Own'
  <2>1. SamePeople /\ UNCHANGED <<sessions, waiting, caught>>
    BY <1>1, VerifyTyped
  <2>2. \A j \in Ids : Exists(j) => users'[j].password = users[j].password
    BY <1>1, VerifyTyped
  <2> QED BY <2>1, <2>2, OwnStays
<1>2. ASSUME NEW id \in Ids, NEW m \in Names, NEW a \in Names, Books(id, m, a) PROVE Own'
  <2>1. UNCHANGED <<users, sessions, waiting, caught>>
    BY <1>2, BooksTyped
  <2> QED BY <2>1, OwnStays DEF SamePeople
<1>3. ASSUME NEW r \in Requests, NEW e \in Emails, NEW a \in Names, SignupChecks(r, e, a) PROVE Own'
  <2>1. /\ UNCHANGED <<users, sessions, caught>> /\ waiting'[r] \in SignupRequest
        /\ \A o \in Requests : o # r => waiting'[o] = waiting[o]
    BY <1>3, SignupChecksTyped DEF rows
  <2>2. \A o \in Requests : Knows(o)'
    BY <2>1 DEF Own, Knows, SignupRequest, Exists
  <2> QED BY <2>1, <2>2 DEF Own, NothingOfAnother, Exists
<1>4. ASSUME NEW r \in Requests, SignupWrites(r) PROVE Own'
  <2>1. /\ UNCHANGED <<sessions, caught>> /\ waiting[r] \in SignupRequest
        /\ \A o \in Requests : waiting'[o] # None => o # r /\ waiting'[o] = waiting[o]
    BY <1>4, SignupTyped, DoneKeeps
  <2>2. CASE UNCHANGED users
    BY <2>1, <2>2, OwnStays DEF SamePeople
  <2>3. ASSUME NEW id \in Ids, ~Exists(id), users'[id] # None,
               users'[id].email = waiting[r].email, users'[id].password.by = waiting[r].email,
               \A j \in Ids : j # id => users'[j] = users[j]
        PROVE  Own'
    <3>1. ASSUME NEW o \in Requests PROVE Knows(o)'
      <4>1. SUFFICES ASSUME waiting'[o] # None, waiting'[o].op # "signup", waiting'[o].id \notin caught
                     PROVE  /\ users'[waiting'[o].id] # None
                            /\ users'[waiting'[o].id].email = waiting'[o].row.email
                            /\ waiting'[o].password.by = waiting'[o].row.email
        BY <2>1 DEF Knows, Exists
      <4>2. waiting'[o] = waiting[o]
        BY <2>1, <4>1
      <4>3. waiting[o].id \in Ids
        BY <4>1, <4>2, RequestRead DEF UserRequest
      <4>4. Knows(o)
        BY DEF Own
      <4> QED BY <2>3, <4>1, <4>2, <4>3, <4>4 DEF Knows, Exists
    <3>2. ASSUME NEW s \in sessions, s.id \notin caught
          PROVE  users'[s.id] # None /\ users'[s.id].email = s.who
      BY <2>3, <3>2 DEF Own, NothingOfAnother, Typed, TypeOK, Exists
    <3>3. ASSUME NEW j \in Ids \ caught, users'[j] # None
          PROVE  users'[j].password.by = users'[j].email
      BY <2>3, <3>3 DEF Own, NothingOfAnother, Exists
    <3>4. NothingOfAnother'
      BY <2>1, <3>2, <3>3 DEF NothingOfAnother, Exists
    <3> QED BY <3>1, <3>4 DEF Own
  <2> QED BY <1>4, <2>2, <2>3, SignupTyped
<1> QED BY <1>1, <1>2, <1>3, <1>4, AddressingKinds

LEMMA OwnStep == Typed /\ Own /\ [Next]_vars => Own'
<1> SUFFICES ASSUME Typed, Own, UNCHANGED vars PROVE Own'
  BY OwnSigning, OwnSecuring, OwnAddressing DEF Next
<1>1. UNCHANGED <<users, sessions, waiting, caught>>
  BY DEF vars, rows
<1> QED BY <1>1, OwnStays DEF SamePeople

\* Sessions act for whoever signed in and passwords are their user's own, for any number
\* of users, requests and reused numbers (routes/auth.ts, account-deletion.ts).
THEOREM NumbersStayWhose == Spec => []NothingOfAnother
<1>1. Init => Own
  <2> SUFFICES ASSUME Init PROVE Own
    OBVIOUS
  <2>1. PICK e \in Emails, s \in Secrets \cup {None}, plain \in BOOLEAN :
          users = [id \in Ids |-> IF id = 1 THEN FirstUser(e, s, plain) ELSE None]
    BY DEF Init
  <2>2. \A id \in Ids : Exists(id) => users[id].password.by = users[id].email
    BY <2>1 DEF FirstUser, NewUser, Exists
  <2>3. sessions = {} /\ \A r \in Requests : waiting[r] = None
    BY DEF Init
  <2> QED BY <2>2, <2>3 DEF Own, NothingOfAnother, Knows
<1>2. Own => NothingOfAnother
  BY DEF Own
<1> QED BY <1>1, <1>2, TypesInit, TypesStep, OwnStep, PTL DEF Spec
-----------------------------------------------------------------------------
(* Seeds and emails. *)

\* A row that is new, or whose factor is off or as it was, has the seed that was shown.
LEMMA SeedStays ==
  ASSUME Typed, SeedIsConfirmed, rewritten \subseteq rewritten', caught \subseteq caught',
         \A j \in Ids \ rewritten' :
            \/ users'[j] = None \/ ~users'[j].on
            \/ users'[j].secret = proven'[j]
            \/ /\ users[j] # None /\ users[j].on /\ proven'[j] = proven[j]
               /\ users'[j].secret = users[j].secret
  PROVE  SeedIsConfirmed'
<1> SUFFICES ASSUME NEW j \in Ids, j \notin rewritten', j \notin caught', users'[j] # None, users'[j].on
             PROVE  users'[j].secret = proven'[j]
  BY DEF SeedIsConfirmed, Exists
<1> QED BY DEF SeedIsConfirmed, Exists

LEMMA SeedStep == Typed /\ SeedIsConfirmed /\ [Next]_vars => SeedIsConfirmed'
<1> SUFFICES ASSUME Typed, SeedIsConfirmed, [Next]_vars PROVE SeedIsConfirmed'
  OBVIOUS
<1>1. ASSUME UNCHANGED <<users, proven, caught, rewritten>> PROVE SeedIsConfirmed'
  BY <1>1 DEF SeedIsConfirmed, Exists
<1>2. ASSUME NEW r \in Requests, LoginAnswers(r) PROVE SeedIsConfirmed'
  <2>1. /\ SamePeople /\ UNCHANGED <<proven, caught>> /\ rewritten \subseteq rewritten'
        /\ \A j \in Ids : users[j] # None =>
             users'[j].on = users[j].on /\ (j \notin rewritten' => users'[j].secret = users[j].secret)
    BY <1>2, LoginTyped
  <2> QED BY <2>1, SeedStays DEF SamePeople
<1>3. CASE Signing
  BY <1>1, <1>2, <1>3, ReadsTyped, LogoutTyped DEF Signing, rows
<1>4. ASSUME NEW r \in Requests, PasswordWrites(r) PROVE SeedIsConfirmed'
  <2>1. /\ SamePeople /\ UNCHANGED <<proven, caught, rewritten>>
        /\ \A j \in Ids : Exists(j) => users'[j].on = users[j].on /\ users'[j].secret = users[j].secret
    BY <1>4, PasswordTyped
  <2> QED BY <2>1, SeedStays DEF SamePeople, Exists
<1>5. ASSUME NEW r \in Requests, TotpOff(r) PROVE SeedIsConfirmed'
  <2>1. /\ SamePeople /\ UNCHANGED <<proven, caught, rewritten>>
        /\ \A j \in Ids : Exists(j) =>
             ~users'[j].on \/ (users'[j].on = users[j].on /\ users'[j].secret = users[j].secret)
    BY <1>5, TotpOffTyped
  <2> QED BY <2>1, SeedStays DEF SamePeople, Exists
<1>6. ASSUME NEW r \in Requests, DeleteWrites(r) PROVE SeedIsConfirmed'
  <2>1. UNCHANGED <<proven, rewritten>> /\ waiting[r].id \in Ids
        /\ (UNCHANGED <<rows, caught>> \/ Deletes(waiting[r].id, r))
    BY <1>6, DeleteTyped DEF UserRequest
  <2>2. CASE UNCHANGED <<rows, caught>>
    BY <1>1, <2>1, <2>2 DEF rows
  <2>3. CASE Deletes(waiting[r].id, r)
    <3>1. /\ caught \subseteq caught'
          /\ \A j \in Ids : users'[j] = IF j = waiting[r].id THEN None ELSE users[j]
      BY <2>1, <2>3 DEF Deletes, Typed, TypeOK
    <3> QED BY <2>1, <3>1, SeedStays
  <2> QED BY <2>1, <2>2, <2>3
<1>7. ASSUME NEW id \in Ids, NEW s \in Secrets, Factor(id, s) PROVE SeedIsConfirmed'
  <2>1. /\ UNCHANGED <<caught, rewritten>>
        /\ users'[id].on => users'[id].secret = proven'[id]
        /\ \A j \in Ids : j # id => users'[j] = users[j] /\ proven'[j] = proven[j]
    BY <1>7, FactorTyped
  <2> QED BY <2>1, SeedStays
<1>8. CASE Securing
  BY <1>1, <1>4, <1>5, <1>6, <1>7, <1>8, ReadsTyped DEF Securing, Factor, rows
<1>9. ASSUME NEW l \in mailed, Verify(l) PROVE SeedIsConfirmed'
  <2>1. /\ SamePeople /\ UNCHANGED <<proven, caught, rewritten>>
        /\ \A j \in Ids : Exists(j) => users'[j].on = users[j].on /\ users'[j].secret = users[j].secret
    BY <1>9, VerifyTyped
  <2> QED BY <2>1, SeedStays DEF SamePeople, Exists
<1>10. ASSUME NEW r \in Requests, SignupWrites(r) PROVE SeedIsConfirmed'
  <2>1. UNCHANGED <<caught, rewritten>>
    BY <1>10, SignupTyped
  <2>2. CASE UNCHANGED <<users, proven>>
    BY <1>1, <2>1, <2>2
  <2>3. ASSUME NEW id \in Ids, ~users'[id].on,
               \A j \in Ids : j # id => users'[j] = users[j] /\ proven'[j] = proven[j]
        PROVE  SeedIsConfirmed'
    BY <2>1, <2>3, SeedStays
  <2> QED BY <1>10, <2>2, <2>3, SignupTyped
<1>11. ASSUME NEW id \in Ids, NEW m \in Names, NEW a \in Names, Books(id, m, a) PROVE SeedIsConfirmed'
  BY <1>1, <1>11, BooksTyped
<1>12. ASSUME NEW r \in Requests, NEW e \in Emails, NEW a \in Names, SignupChecks(r, e, a)
       PROVE  SeedIsConfirmed'
  BY <1>1, <1>12, SignupChecksTyped DEF rows
<1>13. CASE Addressing
  BY <1>9, <1>10, <1>11, <1>12, <1>13, AddressingKinds
<1>14. CASE UNCHANGED vars
  BY <1>1, <1>14 DEF vars, rows
<1> QED BY <1>3, <1>8, <1>13, <1>14 DEF Next

\* A seed in use is the one a code was last shown for, whatever sign-ins, set-ups and
\* deletions overlap, unless a sign-in wrote an older one back (routes/auth.ts).
THEOREM SeedsShown == Spec => []SeedIsConfirmed
<1>1. Init => SeedIsConfirmed
  <2> SUFFICES ASSUME Init PROVE SeedIsConfirmed
    OBVIOUS
  <2>1. PICK e \in Emails, s \in Secrets \cup {None}, plain \in BOOLEAN :
          /\ users = [id \in Ids |-> IF id = 1 THEN FirstUser(e, s, plain) ELSE None]
          /\ proven = [id \in Ids |-> IF id = 1 THEN s ELSE None]
    BY DEF Init
  <2> QED BY <2>1 DEF FirstUser, NewUser, Exists, SeedIsConfirmed
<1> QED BY <1>1, TypesInit, TypesStep, SeedStep, PTL DEF Spec

\* The emails of users stay apart when the users are the same.
LEMMA EmailsStay ==
  ASSUME EmailOnce, SamePeople
  PROVE  EmailOnce'
  BY DEF EmailOnce, SamePeople, Exists

LEMMA EmailStep == Typed /\ EmailOnce /\ [Next]_vars => EmailOnce'
<1> SUFFICES ASSUME Typed, EmailOnce, [Next]_vars PROVE EmailOnce'
  OBVIOUS
<1>1. ASSUME UNCHANGED users PROVE EmailOnce'
  BY <1>1 DEF EmailOnce, Exists
<1>2. CASE Signing
  BY <1>1, <1>2, ReadsTyped, LoginTyped, LogoutTyped, EmailsStay DEF Signing, rows
<1>3. ASSUME NEW r \in Requests, DeleteWrites(r) PROVE EmailOnce'
  <2>1. waiting[r].id \in Ids /\ (UNCHANGED <<rows, caught>> \/ Deletes(waiting[r].id, r))
    BY <1>3, DeleteTyped DEF UserRequest
  <2>2. CASE UNCHANGED <<rows, caught>>
    BY <1>1, <2>2 DEF rows
  <2>3. CASE Deletes(waiting[r].id, r)
    <3>1. \A j \in Ids : users'[j] = IF j = waiting[r].id THEN None ELSE users[j]
      BY <2>1, <2>3 DEF Deletes, Typed, TypeOK
    <3> QED BY <3>1 DEF EmailOnce, Exists
  <2> QED BY <2>1, <2>2, <2>3
<1>4. CASE Securing
  BY <1>1, <1>3, <1>4, ReadsTyped, PasswordTyped, TotpOffTyped, FactorTyped, EmailsStay
  DEF Securing, Factor, rows
<1>5. ASSUME NEW r \in Requests, SignupWrites(r) PROVE EmailOnce'
  <2>1. CASE UNCHANGED users
    BY <1>1, <2>1
  <2>2. ASSUME NEW id \in Ids, Unique(waiting[r].email, waiting[r].name),
               users'[id].email = waiting[r].email,
               \A j \in Ids : j # id => users'[j] = users[j]
        PROVE  EmailOnce'
    BY <2>2 DEF Unique, EmailTaken, EmailOnce, Exists
  <2> QED BY <1>5, <2>1, <2>2, SignupTyped
<1>6. CASE Addressing
  BY <1>1, <1>5, <1>6, AddressingKinds, BooksTyped, SignupChecksTyped, VerifyTyped, EmailsStay
  DEF rows
<1>7. CASE UNCHANGED vars
  BY <1>1, <1>7 DEF vars, rows
<1> QED BY <1>2, <1>4, <1>6, <1>7 DEF Next

\* An email signs in to one account, also when two sign-ups with it both looked before
\* either wrote (routes/signup.ts, users.email UNIQUE).
THEOREM EmailsApart == Spec => []EmailOnce
<1>1. Init => EmailOnce
  BY DEF Init, EmailOnce, Exists
<1> QED BY <1>1, TypesInit, TypesStep, EmailStep, PTL DEF Spec
=============================================================================
