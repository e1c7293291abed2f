------------------------------ MODULE Aliases -------------------------------
(***************************************************************************)
(* Aliases of one account and the addresses they may forward to: the       *)
(* routes for both (api.ts), the rows and their verification links         *)
(* (forwarding.ts, forward-pages.ts), the Aliases panel of the web client  *)
(* (AliasManager.tsx) and the alias screens of the app (features/aliases). *)
(*                                                                         *)
(* The panel's calls run beside each other and their answers come in any   *)
(* order. The app is a second client of the same account: it acts on lists *)
(* of any age. SQLite gives a new row the number after the highest one, so *)
(* the number of a deleted row may come back while a list still shows it.  *)
(*                                                                         *)
(* Delivery says what a forwarding alias does with mail, Accounts who may  *)
(* have which alias address. "both" is "forward" here.                     *)
(***************************************************************************)
LOCAL INSTANCE Integers
LOCAL INSTANCE FiniteSets

CONSTANTS
  Emails,     \* addresses outside the service
  Logins,     \* those that are a verified login of the account
  Shelves,    \* mailboxes of the account
  Nil,        \* no target, no row
  Same,       \* a field that is not in the body of a PATCH
  MaxTargets, \* config.aliases.forwardTargetsMaxPerAccount
  MaxRows,    \* config.aliases.maxPerAccount
  MaxLinks,   \* bound: links made
  MaxAsked    \* bound: calls of the owner, on the panel or the phone

Modes == {"store", "forward"}
TargetIds == 1 .. MaxLinks
RowIds == 1 .. MaxAsked

ASSUME AliasesConstantsOK ==
  /\ Logins \subseteq Emails /\ Shelves # {} /\ {Nil, Same} \cap Nat = {}
  /\ Nil \notin [email : Emails, ok : BOOLEAN, token : {Nil} \cup Nat, row : Nat]
  /\ {MaxTargets, MaxRows, MaxLinks, MaxAsked} \subseteq Nat

VARIABLES
  targets,    \* server: forward_targets
  rows,       \* server: aliases
  links,      \* verification links in somebody's inbox
  manager,    \* web: the panel
  asks,       \* web: calls under way
  cut,        \* history: the network has failed
  asked,      \* history: how many calls the owner made
  born,       \* history: how many targets were added and links made
  confirmed   \* history: links opened, as the address they were mailed to and the row they were for

book == <<targets, rows>>
aliasVars == <<book, links, manager, asks, cut, asked, born, confirmed>>

Live(table) == {i \in DOMAIN table : table[i] # Nil}
NextId(table) == CHOOSE i \in DOMAIN table : (\A j \in Live(table) : j < i) /\ (i - 1) \in {0} \cup Live(table)
-----------------------------------------------------------------------------
(* The routes, as what they make of the two tables. Each is one synchronous *)
(* piece of the handler.                                                    *)

\* Mutant of ForwardOk: the address need not be verified.
ForwardOkUnverified(m, t) == m = "store" \/ t \in Live(targets)

\* checkForwardConfig; a target that is only kept must exist (foreign key).
ForwardOk(m, t) ==
  IF m = "store" THEN t = Nil \/ t \in Live(targets) ELSE t \in Live(targets) /\ targets[t].ok

\* POST /api/aliases
CanCreate(m, t) == Cardinality(Live(rows)) < MaxRows /\ ForwardOk(m, t)
Created(b, m, t) == [rows EXCEPT ![NextId(rows)] = [shelf |-> b, mode |-> m, target |-> t, abused |-> FALSE]]

\* PATCH /api/aliases/:id
Patch2(a, m, t) == [rows[a] EXCEPT !.mode = IF m = Same THEN @ ELSE m, !.target = IF t = Same THEN @ ELSE t]
CanPatch(a, m, t) == a \in Live(rows) /\ LET r == Patch2(a, m, t) IN ForwardOk(r.mode, r.target)
Patched(a, m, t) == [rows EXCEPT ![a] = Patch2(a, m, t)]

\* createForwardTarget; an address that is the account's verified login needs no link.
CanAdd(e) == /\ \A t \in Live(targets) : targets[t].email # e
             /\ Cardinality(Live(targets)) < MaxTargets
Added(e) == [targets EXCEPT ![NextId(targets)] =
               [email |-> e, ok |-> e \in Logins, token |-> IF e \in Logins THEN Nil ELSE born + 1, row |-> born + 1]]

\* reissueVerifyToken
CanReissue(t) == t \in Live(targets) /\ ~targets[t].ok
Reissued(t) == [targets EXCEPT ![t].token = born + 1]

\* Mutant of Released: the aliases keep the number.
ReleasedNot(t) == rows

\* deleteForwardTarget: ON DELETE SET NULL in the aliases.
Released(t) == [a \in RowIds |-> IF a \in Live(rows) /\ rows[a].target = t THEN [rows[a] EXCEPT !.target = Nil]
                                 ELSE rows[a]]

\* sendTargetVerificationEmail for the token that was just made, with which the
\* row comes to work; the relay may fail. That the mail leaves after an await
\* makes no difference: it says nothing of the row but its address and token.
Mails(t, sent) ==
  LET r == targets'[t] IN
  links' = IF r.token # Nil /\ sent THEN links \cup {[email |-> r.email, token |-> r.token, row |-> r.row]} ELSE links

\* What the call c of either client does, and whether it succeeds.
PostAlias(c, ok) ==
  /\ c.op = "create" /\ ok = CanCreate(c.mode, c.target)
  /\ rows' = IF ok THEN Created(c.shelf, c.mode, c.target) ELSE rows
  /\ UNCHANGED <<targets, links, born>>

PatchAlias(c, ok) ==
  /\ c.op = "patch" /\ ok = CanPatch(c.id, c.mode, c.target)
  /\ rows' = IF ok THEN Patched(c.id, c.mode, c.target) ELSE rows
  /\ UNCHANGED <<targets, links, born>>

AbuseAlias(c, ok) ==
  /\ c.op \in {"abuse", "restore"} /\ ok = (c.id \in Live(rows))
  /\ rows' = IF ok THEN [rows EXCEPT ![c.id].abused = c.op = "abuse"] ELSE rows
  /\ UNCHANGED <<targets, links, born>>

DropAlias(c, ok) ==
  /\ c.op = "delete" /\ ok = (c.id \in Live(rows))
  /\ rows' = IF ok THEN [rows EXCEPT ![c.id] = Nil] ELSE rows
  /\ UNCHANGED <<targets, links, born>>

\* A mail that fails is passed over here, the owner may send it again.
PostTarget(c, ok) ==
  /\ c.op = "add" /\ ok = CanAdd(c.email)
  /\ IF ok
     THEN /\ born < MaxLinks /\ born' = born + 1
          /\ targets' = Added(c.email)
          /\ \E sent \in BOOLEAN : Mails(NextId(targets), sent)
     ELSE UNCHANGED <<targets, links, born>>
  /\ UNCHANGED rows

ResendTarget(c, ok) ==
  /\ c.op = "resend"
  /\ IF CanReissue(c.id)
     THEN born < MaxLinks /\ born' = born + 1 /\ targets' = Reissued(c.id) /\ Mails(c.id, ok)
     ELSE ~ok /\ UNCHANGED <<targets, links, born>>
  /\ UNCHANGED rows

DropTarget(c, ok) ==
  /\ c.op = "remove" /\ ok = (c.id \in Live(targets))
  /\ IF ok THEN targets' = [targets EXCEPT ![c.id] = Nil] /\ rows' = Released(c.id) ELSE UNCHANGED book
  /\ UNCHANGED <<links, born>>

Serve(c, ok) ==
  \/ PostAlias(c, ok) \/ PatchAlias(c, ok) \/ AbuseAlias(c, ok) \/ DropAlias(c, ok)
  \/ PostTarget(c, ok) \/ ResendTarget(c, ok) \/ DropTarget(c, ok)

\* POST /public/forward/verify by whoever has the mail (GET changes nothing):
\* consumeVerifyToken.
OpenLink(l) ==
  /\ l \in links
  /\ confirmed' = confirmed \cup {[email |-> l.email, row |-> l.row]}
  /\ targets' = [t \in TargetIds |-> IF t \in Live(targets) /\ targets[t].token = l.token
                                     THEN [targets[t] EXCEPT !.ok = TRUE, !.token = Nil] ELSE targets[t]]
  /\ UNCHANGED <<rows, links, manager, asks, cut, asked, born>>

\* verify_expires_at passes: the token is as good as none.
Expires(t) ==
  /\ t \in Live(targets) /\ targets[t].token # Nil
  /\ targets' = [targets EXCEPT ![t].token = Nil]
  /\ UNCHANGED <<rows, links, manager, asks, cut, asked, born, confirmed>>
-----------------------------------------------------------------------------
(* The panel of the web client.                                            *)

\* A call, with the mailbox and the form's target of the render it was made in.
\* Two equal calls that have not arrived are one.
Ask(op) == [op |-> op, at |-> "up", ok |-> FALSE, id |-> Nil, shelf |-> manager.shelf, pick |-> manager.pick,
            mode |-> Same, target |-> Same, email |-> Nil, got |-> {}]

Load(b) == [Ask("list") EXCEPT !.shelf = b, !.pick = Nil]
LoadTargets == [Ask("targets") EXCEPT !.shelf = Nil, !.pick = Nil]

Verified(p) == {t \in p.offered : t.ok}
\* The first of the verified addresses of the list (ORDER BY created_at).
FirstVerified(p) == IF Verified(p) = {} THEN Nil
                    ELSE (CHOOSE t \in Verified(p) : \A u \in Verified(p) : t.row <= u.row).id

\* The effect that gives the form a target.
Settled(p) == IF p.pick = Nil THEN [p EXCEPT !.pick = FirstVerified(p)] ELSE p

OwnerAsks(c) ==
  /\ asked < MaxAsked /\ asked' = asked + 1
  /\ asks' = asks \cup {c}
  /\ UNCHANGED <<book, links, manager, cut, born, confirmed>>

\* For mailbox
PickShelf(b) ==
  /\ b # manager.shelf /\ asked < MaxAsked /\ asked' = asked + 1
  /\ manager' = [manager EXCEPT !.shelf = b]
  /\ asks' = asks \cup {Load(b)}
  /\ UNCHANGED <<book, links, cut, born, confirmed>>

\* Forward to
PickTarget(t) ==
  /\ t \in {v.id : v \in Verified(manager)} \ {manager.pick} /\ asked < MaxAsked /\ asked' = asked + 1
  /\ manager' = [manager EXCEPT !.pick = t]
  /\ UNCHANGED <<book, links, asks, cut, born, confirmed>>

\* What create, changeMode, changeTarget, addTarget and the others send: changeMode the
\* target the list shows, or else the first verified one.
CreateCall(m) == [Ask("create") EXCEPT !.mode = m, !.target = IF m = "store" THEN Nil ELSE manager.pick]
ModeCall(a, m) ==
  [Ask("patch") EXCEPT !.id = a.id, !.mode = m,
                       !.target = IF m = "store" \/ a.target # Nil THEN a.target ELSE FirstVerified(manager)]
TargetCall(a, t) == [Ask("patch") EXCEPT !.id = a.id, !.target = t]
AddCall(e) == [Ask("add") EXCEPT !.email = e]
RowCall(op, id) == [Ask(op) EXCEPT !.id = id]

\* The form; its button is off when no verified address is known.
ClickCreate(m) == (m = "store" \/ Verified(manager) # {}) /\ OwnerAsks(CreateCall(m))

\* The list of aliases, with what it shows of each.
ClickMode(a, m) ==
  /\ a \in manager.shown /\ m # a.mode
  /\ m = "store" \/ Verified(manager) # {}
  /\ OwnerAsks(ModeCall(a, m))

ClickTarget(a, t) ==
  /\ a \in manager.shown /\ a.mode # "store" /\ t \in {v.id : v \in Verified(manager)} \ {a.target}
  /\ OwnerAsks(TargetCall(a, t))

ClickAlias(a, op) ==
  /\ a \in manager.shown /\ op \in {IF a.abused THEN "restore" ELSE "abuse", "delete"}
  /\ OwnerAsks(RowCall(op, a.id))

\* The list of forwarding addresses.
ClickAdd(e) == OwnerAsks(AddCall(e))

ClickOffered(t, op) ==
  /\ t \in manager.offered /\ op \in {"remove"} \cup IF t.ok THEN {} ELSE {"resend"}
  /\ OwnerAsks(RowCall(op, t.id))

\* A call of the panel is served.
Served(c) ==
  /\ c \in asks /\ c.at = "up"
  /\ \/ /\ c.op = "list"
        /\ asks' = (asks \ {c}) \cup {[c EXCEPT !.at = "down", !.ok = TRUE,
             !.got = {[id |-> a, mode |-> rows[a].mode, target |-> rows[a].target, abused |-> rows[a].abused] :
                        a \in {x \in Live(rows) : rows[x].shelf = c.shelf}}]}
        /\ UNCHANGED <<book, links, born>>
     \/ /\ c.op = "targets"
        /\ asks' = (asks \ {c}) \cup {[c EXCEPT !.at = "down", !.ok = TRUE,
             !.got = {[id |-> t, ok |-> targets[t].ok, row |-> targets[t].row] : t \in Live(targets)}]}
        /\ UNCHANGED <<book, links, born>>
     \/ \E ok \in BOOLEAN : /\ Serve(c, ok)
                            /\ asks' = (asks \ {c}) \cup {[c EXCEPT !.at = "down", !.ok = ok]}
  /\ UNCHANGED <<manager, cut, asked, confirmed>>

\* The network fails before or after the call was served.
NoAnswer(c) ==
  /\ ~cut /\ cut' = TRUE               \* bound: once
  /\ c \in asks /\ (c.at = "down" => c.ok)
  /\ asks' = (asks \ {c}) \cup {[c EXCEPT !.at = "down", !.ok = FALSE, !.got = {}]}
  /\ UNCHANGED <<book, links, manager, asked, born, confirmed>>

\* What the panel does when the await of a call ends; a failure only shows a text.
Ends(c) ==
  /\ c \in asks /\ c.at = "down"
  /\ \/ /\ c.op = "list"                 \* setAliases, whatever the mailbox is by now; [] on a failure
        /\ manager' = [manager EXCEPT !.shown = c.got]
        /\ asks' = asks \ {c}
     \/ /\ c.op = "targets"
        /\ manager' = Settled([manager EXCEPT !.offered = c.got])
        /\ asks' = asks \ {c}
     \/ /\ c.op \in {"create", "patch", "abuse", "restore", "delete"}
        /\ UNCHANGED manager
        \* load of the render that made the call: it lists the mailbox of that time
        /\ asks' = (asks \ {c}) \cup IF c.ok THEN {Load(c.shelf)} ELSE {}
     \/ /\ c.op = "add"
        /\ UNCHANGED manager
        /\ asks' = (asks \ {c}) \cup IF c.ok THEN {LoadTargets} ELSE {}
     \/ c.op = "resend" /\ UNCHANGED manager /\ asks' = asks \ {c}
     \/ /\ c.op = "remove"
        /\ manager' = IF c.ok /\ c.pick = c.id THEN Settled([manager EXCEPT !.pick = Nil]) ELSE manager
        /\ asks' = (asks \ {c}) \cup IF c.ok THEN {LoadTargets, Load(c.shelf)} ELSE {}
  /\ UNCHANGED <<book, links, cut, asked, born, confirmed>>
-----------------------------------------------------------------------------
(* The app (AliasScreen, NewAliasScreen, ForwardingPicker,                 *)
(* ForwardTargetsScreen). A call that comes late is a call made on an      *)
(* older list, and its lists may show any number there ever was.           *)

\* ForwardingPicker
Chosen(m) == IF m = "store" THEN {Nil} \cup TargetIds ELSE TargetIds

\* NewAliasScreen, AliasScreen and ForwardTargetsScreen; the label is left out.
NewAliasCalls ==
  UNION {{[op |-> "create", shelf |-> b, mode |-> m, target |-> t] :
            t \in IF m = "store" THEN {Nil} ELSE TargetIds} : b \in Shelves, m \in Modes}
AliasCalls ==
  {[op |-> o, id |-> a] : o \in {"abuse", "restore", "delete"}, a \in RowIds}
  \cup UNION {{[op |-> "patch", id |-> a, mode |-> m, target |-> t] : t \in Chosen(m)} : a \in RowIds, m \in Modes}
TargetCalls ==
  {[op |-> "add", email |-> e] : e \in Emails}
  \cup {[op |-> o, id |-> t] : o \in {"resend", "remove"}, t \in TargetIds}

Phone(c) ==
  /\ asked < MaxAsked /\ asked' = asked + 1
  /\ Serve(c, TRUE)          \* one that fails changes nothing here
  /\ UNCHANGED <<manager, asks, cut, confirmed>>
-----------------------------------------------------------------------------
AliasesInit ==
  /\ targets = [t \in TargetIds |-> Nil] /\ rows = [a \in RowIds |-> Nil]
  /\ links = {} /\ cut = FALSE /\ asked = 0 /\ born = 0 /\ confirmed = {}
  /\ \E b \in Shelves : manager = [shelf |-> b, shown |-> {}, offered |-> {}, pick |-> Nil]
  /\ asks = {}        \* the panel was opened, and its lists came, when there was nothing

Panel ==
  \/ \E b \in Shelves : PickShelf(b)
  \/ \E t \in TargetIds : PickTarget(t)
  \/ \E m \in Modes : ClickCreate(m) \/ \E a \in manager.shown : ClickMode(a, m)
  \/ \E a \in manager.shown : \/ \E t \in TargetIds : ClickTarget(a, t)
                             \/ \E op \in {"abuse", "restore", "delete"} : ClickAlias(a, op)
  \/ \E e \in Emails : ClickAdd(e)
  \/ \E t \in manager.offered, op \in {"resend", "remove"} : ClickOffered(t, op)
  \/ \E c \in asks : Served(c) \/ NoAnswer(c) \/ Ends(c)

AliasesNext ==
  \/ Panel
  \/ \E c \in NewAliasCalls \cup AliasCalls \cup TargetCalls : Phone(c)
  \/ \E l \in links : OpenLink(l)
  \/ \E t \in TargetIds : Expires(t)

AliasesSpec == AliasesInit /\ [][AliasesNext]_aliasVars
-----------------------------------------------------------------------------
(* Properties.                                                             *)

\* Type invariant: tables, lists and calls name rows that were made.
AliasesTypeOK ==
  /\ targets \in [TargetIds -> [email : Emails, ok : BOOLEAN, token : {Nil} \cup 1 .. born, row : 1 .. born] \cup {Nil}]
  /\ rows \in [RowIds -> [shelf : Shelves, mode : Modes, target : {Nil} \cup TargetIds, abused : BOOLEAN] \cup {Nil}]
  /\ \A t, u \in Live(targets) : t # u => targets[t].email # targets[u].email
  /\ \A l \in links : l.email \in Emails /\ {l.token, l.row} \subseteq 1 .. born
  /\ manager.pick \in {Nil} \cup TargetIds /\ asked \in 0 .. MaxAsked /\ born \in 0 .. MaxLinks

\* Mail of an alias is forwarded only where it was asked for: the row it points
\* at is of an address that is the account's login, or that has opened a link
\* which was mailed to that very address for that very row. This holds although
\* rows are removed and their numbers come back, links are sent again, expire or
\* are opened late, and clients send numbers from lists of any age
\* (checkForwardConfig, consumeVerifyToken, ON DELETE SET NULL).
ForwardsToConfirmed ==
  \A a \in Live(rows) : (rows[a].mode = "forward" /\ rows[a].target # Nil) =>
    /\ rows[a].target \in Live(targets)
    /\ LET t == targets[rows[a].target] IN
         t.email \in Logins \/ [email |-> t.email, row |-> t.row] \in confirmed

\* What the comment at the form's effect says (AliasManager.tsx): its target is
\* one of the verified addresses. It is not: removing the first one resets the
\* form before the new list is there, and the effect takes the same one again.
FormOffersVerified ==
  asks = {} /\ manager.pick # Nil /\ Verified(manager) # {} => manager.pick \in {t.id : t \in Verified(manager)}
=============================================================================
