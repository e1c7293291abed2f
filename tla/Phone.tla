-------------------------------- MODULE Phone --------------------------------
(***************************************************************************)
(* The app on a phone and the server's row for it: signing in through a    *)
(* cookie session that is exchanged for a device token, signing out, the   *)
(* 401 signal (stores/authStore.ts, lib/apiClient.ts, requireAuth.ts,      *)
(* sessions.ts, routes/auth.ts), and new-mail notifications (lib/push.ts,  *)
(* push.ts).                                                               *)
(*                                                                         *)
(* One phone and one account; each sign-in has a number, and the session   *)
(* and the device row it makes have the same. Calls are answered in any    *)
(* order, and the app gives one up when it fails or takes too long: then   *)
(* it may still reach the server. Signing in, signing out and starting are *)
(* chains of calls that may overlap: the form is there whenever nobody is  *)
(* signed in, whatever is still under way. The keystore is external and    *)
(* may fail, as lib/secureStore.ts expects. Expo is external: it gives the *)
(* phone a token, replaces it from time to time, and says of an old one    *)
(* DeviceNotRegistered.                                                    *)
(***************************************************************************)
EXTENDS Integers, FiniteSets

CONSTANTS
  MaxSignIns, \* bound: sign-ins begun
  MaxTokens,  \* bound: push tokens Expo gives the phone
  MaxFailed,  \* bound: calls the app gives up
  MaxStarts,  \* bound: restarts of the app
  MaxCalls,   \* bound: calls under way
  MaxNotes    \* bound: notifications under way

SignIns == 1 .. MaxSignIns
Tokens == 1 .. MaxTokens

ASSUME PhoneConstantsOK ==
  {MaxSignIns, MaxTokens, MaxFailed, MaxStarts, MaxCalls, MaxNotes} \subseteq Nat /\ MaxTokens > 0

VARIABLES
  rows,     \* server: devices rows, with the push token or 0
  alive,    \* server: sessions rows
  status,   \* app: authStore.status
  stored,   \* app: the device token in the keystore, by the number of its row, or 0
  cookie,   \* app: the session in the cookie jar, or 0
  expo,     \* phone: the push token that is valid now
  calls,    \* calls under way
  notes,    \* notifications under way: what was read of the rows
  begun,    \* history: sign-ins begun
  failed,   \* history: calls given up
  starts,   \* history: restarts of the app
  given,    \* history: the push token the server last took for a row, or 0
  wants,    \* history: what the user did last, signing in or signing out
  dropped,  \* history: rows whose token the app dropped and not after an answer to that token
  kept      \* history: the stored token if the keystore failed to delete it, or 0

server == <<rows, alive>>
app == <<status, stored, cookie>>
counters == <<begun, failed, starts>>
history == <<counters, given, wants, dropped, kept>>
phoneVars == <<server, app, expo, calls, notes, history>>

NoRow == [made |-> FALSE, active |-> FALSE, push |-> 0]

PhoneInit ==
  /\ rows = [n \in SignIns |-> NoRow]
  /\ alive = {}
  /\ status = "unauthenticated" /\ stored = 0 /\ cookie = 0
  /\ expo = 1
  /\ calls = {} /\ notes = {}
  /\ begun = 0 /\ failed = 0 /\ starts = 0
  /\ given = [n \in SignIns |-> 0]
  /\ wants = "out"
  /\ dropped = {} /\ kept = 0

-----------------------------------------------------------------------------
(* Calls. A call keeps the tokens it was sent with; "ours" until the app gives it up. *)

\* createApiClient: a bearer token unless auth is "omit", and the cookie jar. The number is
\* that of the sign-in that sends the call, that of the last one for a sign-out, or 0.
Call(kind, no, bearer, jar, token) ==
  [kind |-> kind, no |-> no, bearer |-> bearer, cookie |-> jar, token |-> token,
   at |-> "up", ok |-> FALSE, ours |-> TRUE]

\* getDeviceToken: the keystore may not be readable.
Bearers == {stored, 0}

Send(c) == Cardinality(calls) < MaxCalls /\ c \notin calls /\ calls' = calls \cup {c}

\* The server has handled c, with the answer ok.
Answered(c, ok) == calls' = (calls \ {c}) \cup (IF c.ours THEN {[c EXCEPT !.at = "down", !.ok = ok]} ELSE {})

\* requireAuth: the device of the bearer token, if the row is not revoked ...
RowOf(c) == IF c.bearer # 0 /\ rows[c.bearer].active THEN c.bearer ELSE 0

\* Mutant of Device: the cookie goes first.
DeviceAfterCookie(c) == IF c.cookie \in alive THEN 0 ELSE RowOf(c)
Device(c) == RowOf(c)

\* ... or else the session of the cookie.
Allowed(c) == Device(c) # 0 \/ c.cookie \in alive

Up(c, kind) == c.at = "up" /\ c.kind = kind

\* POST /api/auth/login with a right or a wrong password.
ServeLogin(c) ==
  /\ Up(c, "login")
  /\ \/ alive' = alive \cup {c.no} /\ Answered(c, TRUE)
     \/ alive' = alive /\ Answered(c, FALSE)
  /\ UNCHANGED <<rows, app, expo, notes, history>>

\* POST /api/auth/devices.
ServeRegister(c) ==
  /\ Up(c, "register")
  /\ rows' = IF Allowed(c) THEN [rows EXCEPT ![c.no] = [made |-> TRUE, active |-> TRUE, push |-> 0]] ELSE rows
  /\ Answered(c, Allowed(c))
  /\ UNCHANGED <<alive, app, expo, notes, history>>

\* POST /api/auth/logout.
ServeLogout(c) ==
  /\ Up(c, "logout")
  /\ alive' = alive \ {c.cookie}
  /\ Answered(c, TRUE)
  /\ UNCHANGED <<rows, app, expo, notes, history>>

\* GET /api/auth/me, or any other call for a signed-in user.
ServeRead(c) ==
  /\ c.at = "up" /\ c.kind \in {"me", "start", "list"}
  /\ Answered(c, Allowed(c))
  /\ UNCHANGED <<server, app, expo, notes, history>>

\* The rows once row n has the push token t: no other row keeps it.
Given(n, t) ==
  [m \in SignIns |-> IF m = n THEN [rows[m] EXCEPT !.push = t]
                     ELSE IF t # 0 /\ rows[m].push = t THEN [rows[m] EXCEPT !.push = 0] ELSE rows[m]]

\* PUT /api/auth/devices/me/push.
ServePush(c) ==
  /\ Up(c, "push")
  /\ IF Device(c) # 0
       THEN /\ rows' = Given(Device(c), c.token)
            /\ given' = [m \in SignIns |-> IF m = Device(c) THEN c.token
                                           ELSE IF given[m] = c.token THEN 0 ELSE given[m]]
       ELSE UNCHANGED <<rows, given>>
  /\ Answered(c, Device(c) # 0)
  /\ UNCHANGED <<alive, app, expo, notes, counters, wants, dropped, kept>>

\* DELETE /api/auth/devices/me. A caller that is no device is told ok as well.
ServeRevoke(c) ==
  /\ Up(c, "revoke")
  /\ IF Device(c) # 0
       THEN /\ rows' = [rows EXCEPT ![Device(c)].active = FALSE, ![Device(c)].push = 0]
            /\ given' = [given EXCEPT ![Device(c)] = 0]
       ELSE UNCHANGED <<rows, given>>
  /\ Answered(c, Allowed(c))
  /\ UNCHANGED <<alive, app, expo, notes, counters, wants, dropped, kept>>

-----------------------------------------------------------------------------
(* The app. *)

\* The app hears the answer to its call c, or none (ok = "none"), and sends the calls of next.
Answer(c, ok, next) ==
  /\ c.ours
  /\ \/ /\ c.at = "down" /\ ok = (IF c.ok THEN "yes" ELSE "no")
        /\ calls' = (calls \ {c}) \cup next
        /\ UNCHANGED failed
     \/ /\ ok = "none" /\ failed < MaxFailed /\ failed' = failed + 1
        /\ \/ calls' = (calls \ {c}) \cup next
           \/ c.at = "up" /\ calls' = (calls \ {c}) \cup {[c EXCEPT !.ours = FALSE]} \cup next

\* clearDeviceToken: the token is gone, or the deletion failed and nobody is told.
Deleted ==
  {[token |-> 0, kept |-> 0], [token |-> stored, kept |-> stored]}

\* The keystore after one of the outcomes; told is the token the server has answered to.
Clears(outcomes, told) ==
  /\ \E o \in outcomes : stored' = o.token /\ kept' = o.kept
  /\ dropped' = dropped \cup ({stored} \ {stored', 0, told})

\* onApiSignal('unauthorized') looks at the status.
Heeds(s) == s = "authenticated"

\* A 401 signs this phone out, whichever token it was for.
Unauthorized(c) ==
  IF Heeds(status)
    THEN status' = "unauthenticated" /\ Clears(Deleted, c.bearer)
    ELSE UNCHANGED <<status, stored, dropped, kept>>

SignInKinds == {"login", "register", "logout", "me"}
SigningIn == \E c \in calls : c.ours /\ c.kind \in SignInKinds

\* login: the password. The form is there whenever nobody is signed in, and its keyboard submits
\* again while a sign-in is under way (LoginScreen.tsx).
SignIn ==
  /\ status = "unauthenticated" /\ begun < MaxSignIns
  /\ begun' = begun + 1
  /\ Send(Call("login", begun + 1, 0, cookie, 0))
  /\ wants' = "in"
  /\ UNCHANGED <<server, app, expo, notes, failed, starts, given, dropped, kept>>

\* login: the cookie is there, this phone is to be paired.
SignInCookie(c) ==
  /\ c.kind = "login"
  /\ \/ Answer(c, "yes", {Call("register", c.no, 0, c.no, 0)}) /\ cookie' = c.no
     \/ \E no \in {"no", "none"} : Answer(c, no, {}) /\ cookie' = cookie
  /\ UNCHANGED <<server, status, stored, expo, notes, begun, starts, given, wants, dropped, kept>>

\* login: the device token is stored, if the keystore takes it; the cookie session is to end.
SignInToken(c) ==
  /\ c.kind = "register"
  /\ \/ /\ Answer(c, "yes", {Call("logout", c.no, 0, cookie, 0)})
        /\ \/ stored' = c.no /\ kept' = 0
           \/ UNCHANGED <<stored, kept>>
        /\ dropped' = dropped \cup ({stored, c.no} \ {stored', 0})
     \/ \E no \in {"no", "none"} : Answer(c, no, {}) /\ UNCHANGED <<stored, dropped, kept>>
  /\ UNCHANGED <<server, status, cookie, expo, notes, begun, starts, given, wants>>

\* login: whether or not the session has ended, who am I?
SignInLogout(c) ==
  /\ c.kind = "logout"
  /\ \E bearer \in Bearers :
       \/ Answer(c, "yes", {Call("me", c.no, bearer, 0, 0)}) /\ cookie' = 0
       \/ Answer(c, "none", {Call("me", c.no, bearer, cookie, 0)}) /\ cookie' = cookie
  /\ UNCHANGED <<server, status, stored, expo, notes, begun, starts, given, wants, dropped, kept>>

SignInMe(c) ==
  /\ c.kind = "me"
  /\ \/ Answer(c, "yes", {}) /\ status' = "authenticated" /\ UNCHANGED <<stored, dropped, kept>>
     \/ Answer(c, "no", {}) /\ Unauthorized(c)
     \/ Answer(c, "none", {}) /\ UNCHANGED <<status, stored, dropped, kept>>
  /\ UNCHANGED <<server, cookie, expo, notes, begun, starts, given, wants>>

\* The app starts: bootstrap asks who it is. Calls of the app before it are nobody's now.
Start ==
  /\ starts < MaxStarts /\ starts' = starts + 1
  /\ \E gone \in SUBSET {c \in calls : c.at = "up"}, bearer \in Bearers :
       calls' = {[c EXCEPT !.ours = FALSE] : c \in {d \in calls : d.at = "up"} \ gone}
                  \cup {Call("start", 0, bearer, cookie, 0)}
  /\ status' = "unknown"
  /\ UNCHANGED <<server, stored, cookie, expo, notes, begun, failed, given, wants, dropped, kept>>

\* bootstrap: without an answer a token is good enough, if it can be read.
Bootstrap(c) ==
  /\ c.kind = "start"
  /\ \/ Answer(c, "yes", {}) /\ status' = "authenticated" /\ UNCHANGED <<stored, dropped, kept>>
     \/ Answer(c, "no", {}) /\ status' = "unauthenticated" /\ Clears(Deleted, c.bearer)
     \/ /\ Answer(c, "none", {}) /\ UNCHANGED <<stored, dropped, kept>>
        /\ \E bearer \in Bearers :
             status' = IF bearer # 0 THEN "authenticated" ELSE "unauthenticated"
  /\ UNCHANGED <<server, cookie, expo, notes, begun, starts, given, wants>>

\* logout: the server first.
SignOut ==
  /\ status = "authenticated"
  /\ \E bearer \in Bearers : Send(Call("revoke", begun, bearer, cookie, 0))
  /\ UNCHANGED <<server, app, expo, notes, history>>

\* Mutant of Forgotten: only when the server has answered.
ForgottenIf(answer) ==
  IF answer = "yes" THEN Deleted ELSE {[token |-> stored, kept |-> kept]}

\* The keystore after signing out: asked to delete the token, whatever the server answered.
Forgotten(answer) == Deleted

\* logout: then this phone, whoever has signed in meanwhile. It is what the user did last
\* unless a sign-in has been begun since, or was under way.
SignedOut(c) ==
  /\ c.kind = "revoke"
  /\ \E answer \in {"yes", "no", "none"} :
       Answer(c, answer, {}) /\ Clears(Forgotten(answer), IF answer = "none" THEN 0 ELSE c.bearer)
  /\ status' = "unauthenticated"
  /\ wants' = IF c.no = begun /\ ~SigningIn THEN "out" ELSE wants
  /\ UNCHANGED <<server, cookie, expo, notes, begun, starts, given>>

\* A screen of a signed-in user asks for something.
List ==
  /\ status = "authenticated"
  /\ \E bearer \in Bearers : Send(Call("list", 0, bearer, cookie, 0))
  /\ UNCHANGED <<server, app, expo, notes, history>>

Listed(c) ==
  /\ c.kind = "list"
  /\ \/ Answer(c, "no", {}) /\ Unauthorized(c)
     \/ \E ok \in {"yes", "none"} : Answer(c, ok, {}) /\ UNCHANGED <<status, stored, dropped, kept>>
  /\ UNCHANGED <<server, cookie, expo, notes, begun, starts, given, wants>>

\* enablePush, by syncPushOnLaunch or in the settings, and disablePush.
SetPush ==
  /\ status = "authenticated"
  /\ \E t \in {0, expo}, bearer \in Bearers : Send(Call("push", 0, bearer, cookie, t))
  /\ UNCHANGED <<server, app, expo, notes, history>>

\* A 401 of this route is no signal (CREDENTIAL_ENDPOINTS).
PushSet(c) ==
  /\ c.kind = "push"
  /\ \E ok \in {"yes", "no", "none"} : Answer(c, ok, {})
  /\ UNCHANGED <<server, app, expo, notes, begun, starts, given, wants, dropped, kept>>

-----------------------------------------------------------------------------
(* Notifications. *)

\* Expo gives the phone another token.
Rotate ==
  /\ expo < MaxTokens /\ expo' = expo + 1
  /\ UNCHANGED <<server, app, calls, notes, history>>

Notified == {[no |-> n, token |-> rows[n].push] : n \in {m \in SignIns : rows[m].active /\ rows[m].push # 0}}

\* notifyNewMail reads the rows, and waits for Expo.
Notify ==
  /\ Notified # {} /\ Cardinality(notes) < MaxNotes
  /\ Notified \notin notes
  /\ notes' = notes \cup {Notified}
  /\ UNCHANGED <<server, app, expo, calls, history>>

\* Mutant of StillDead: whatever token the row has now.
StillDeadAny(row, token) == TRUE

\* A ticket clears the token it is about.
StillDead(row, token) == row.push = token

\* The tickets: DeviceNotRegistered for tokens Expo has replaced. Or the call fails.
Tickets ==
  \E note \in notes :
    /\ notes' = notes \ {note}
    /\ \/ rows' = [n \in SignIns |->
                     IF \E d \in note : d.no = n /\ d.token # expo /\ StillDead(rows[n], d.token)
                       THEN [rows[n] EXCEPT !.push = 0] ELSE rows[n]]
       \/ rows' = rows
    /\ UNCHANGED <<alive, app, expo, calls, history>>

-----------------------------------------------------------------------------
Serve ==
  \E c \in calls : ServeLogin(c) \/ ServeRegister(c) \/ ServeLogout(c) \/ ServeRead(c) \/ ServePush(c) \/ ServeRevoke(c)

App ==
  \/ SignIn \/ Start \/ SignOut \/ List \/ SetPush
  \/ \E c \in calls :
       \/ SignInCookie(c) \/ SignInToken(c) \/ SignInLogout(c) \/ SignInMe(c)
       \/ Bootstrap(c) \/ SignedOut(c) \/ Listed(c) \/ PushSet(c)

PhoneNext == Serve \/ App \/ Rotate \/ Notify \/ Tickets

PhoneSpec == PhoneInit /\ [][PhoneNext]_phoneVars

-----------------------------------------------------------------------------
(* The type of every variable. *)
PhoneTypeOK ==
  /\ rows \in [SignIns -> [made : BOOLEAN, active : BOOLEAN, push : Tokens \cup {0}]]
  /\ alive \subseteq SignIns
  /\ status \in {"unknown", "unauthenticated", "authenticated"}
  /\ stored \in 0 .. MaxSignIns /\ cookie \in 0 .. MaxSignIns
  /\ expo \in Tokens
  /\ \A c \in calls : c.bearer \in 0 .. MaxSignIns /\ c.no \in 0 .. MaxSignIns /\ c.token \in 0 .. MaxTokens
  /\ \A note \in notes : \A d \in note : d.no \in SignIns /\ d.token \in Tokens
  /\ given \in [SignIns -> 0 .. MaxTokens]
  /\ wants \in {"in", "out"} /\ dropped \subseteq SignIns /\ kept \in {stored, 0}

\* Only the row whose token the phone holds is notified, and rows whose token the app
\* dropped when the server had not answered to it: it was another sign-out's answer, or
\* none. A sign-out the server has answered ends the notifications (requireAuth.ts:
\* "if the cookie won ... could never revoke the token").
QuietAfterSignOut ==
  \A n \in SignIns : rows[n].active /\ rows[n].push # 0 => n = stored \/ n \in dropped

\* No two rows hold one push token, so a phone is notified once (routes/auth.ts).
NotifiedOnce ==
  \A m, n \in SignIns : m # n /\ rows[m].push = rows[n].push => rows[m].push = 0

\* A row loses the push token it was given last only when Expo has replaced that token,
\* also when the ticket that says so comes after a newer one was registered (push.ts).
NotificationsStayOn ==
  \A n \in SignIns : rows[n].push = given[n] \/ (rows[n].push = 0 /\ given[n] # expo)

\* A user who has signed out last, and was not signing in at the time, is signed in again
\* by nothing but a cookie of a session whose end the server did not confirm (authStore.ts,
\* step 3 of login), or a token that the keystore did not delete (secureStore.ts).
StaysSignedOut ==
  wants = "out" /\ status = "authenticated" => stored = kept /\ (stored = 0 => cookie # 0)
=============================================================================
