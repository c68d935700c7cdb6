----------------------------- MODULE Sessions -----------------------------
(***************************************************************************)
(* Accounts, refresh-token sessions and password resets                    *)
(* (backend/services/auth_service.py, account_service.py,                  *)
(* backend/api/routers/auth.py, account.py and get_current_user).          *)
(*                                                                         *)
(* One account and one browser that keeps the refresh cookie; its requests *)
(* (tabs, retries, forms sent twice) overlap.  A request reads in one      *)
(* statement and writes in a later one, nothing is locked.  A refresh      *)
(* token is named after the login or refresh that mints it, a reset token  *)
(* after the request that asks for it, a password after the registration   *)
(* or reset that sets it.                                                  *)
(***************************************************************************)
EXTENDS Naturals, FiniteSets

CONSTANTS
    SignUp, Login, Refresh, Logout,   \* /auth/register, login, refresh, logout
    Removal, Cancel,                  \* DELETE /account, /account/cancel-deletion
    Forgot, Confirm,                  \* /auth/reset-password/request and confirm
    None                              \* no token, no password

Request  == UNION {SignUp, Login, Refresh, Logout, Removal, Cancel, Forgot, Confirm}
Token    == Login \cup Refresh
Password == SignUp \cup Confirm
SignOut  == Logout \cup Removal

\* The kinds of request are told apart, and are none of them None.
ASSUME SessionsAssumption ==
    /\ None \notin Request
    /\ LET kind == <<SignUp, Login, Refresh, Logout, Removal, Cancel, Forgot, Confirm>>
       IN  \A m, n \in 1..8 : m # n => kind[m] \cap kind[n] = {}

VARIABLES
    account,     \* users row: absent, active, or deletion_scheduled_at set
    password,    \* users.password_hash
    resetToken,  \* users.reset_password_token
    sessions,    \* tokens whose hash is in user_sessions
    expired,     \* those of the stored tokens whose time has passed
    cookie,      \* the browser's refresh cookie
    pc,          \* where each request stands
    given,       \* the token it has presented
    origin,      \* history: the login a token descends from
    forked,      \* history: logins and reset tokens that two requests used at once
    crossed,     \* history: sign-outs that overlapped a login or refresh
    lost         \* history: has a response been lost?

row     == <<account, password, resetToken>>
history == <<origin, forked, crossed, lost>>
vars == <<row, sessions, expired, cookie, pc, given, history>>

TypeOK ==
    /\ account \in {"none", "active", "scheduled"}
    /\ password \in Password \cup {None}
    /\ resetToken \in Forgot \cup {None}
    /\ sessions \subseteq Token
    /\ expired \subseteq (sessions \cup {resetToken}) \ {None}
    /\ cookie \in Token \cup {None}
    /\ pc \in [Request -> {"new", "write", "reply", "done", "denied"}]
    /\ given \in [Request -> Token \cup Forgot \cup {None}]
    /\ origin \in [Token -> Login \cup {None}]
    /\ forked \subseteq Login \cup Forgot
    /\ crossed \subseteq SignOut
    /\ lost \in BOOLEAN

Init ==
    /\ account = "none"
    /\ password = None
    /\ resetToken = None
    /\ sessions = {}
    /\ expired = {}
    /\ cookie = None
    /\ pc = [r \in Request |-> "new"]
    /\ given = [r \in Request |-> None]
    /\ origin = [t \in Token |-> None]
    /\ forked = {}
    /\ crossed = {}
    /\ lost = FALSE

Goto(r, l)    == pc' = [pc EXCEPT ![r] = l]
Present(r, t) == given' = [given EXCEPT ![r] = t]
InFlight(r)   == pc[r] \in {"write", "reply"}
Valid(t)      == t \in sessions \ expired

\* A row of user_sessions for a token of login l, beside those in rest.
Store(t, l, rest) ==
    /\ sessions' = rest \cup {t}
    /\ origin' = [origin EXCEPT ![t] = l]

\* The response's Set-Cookie reaches the browser.
SetCookie(t) == cookie' = t

\* The reset token is in the response to the request for it.
Disclosed(f) == f \in Forgot /\ pc[f] = "done"

\* A login or refresh that begins crosses every sign-out under way.
Cross == crossed' = crossed \cup {x \in SignOut : InFlight(x)}

\* _extract_token: the browser has an access token, from any response so far.
SignedIn == \E t \in Token : pc[t] = "done"

\* get_current_user: 401 unless the user is there and not scheduled for deletion.
CurrentUser == account = "active"

---------------------------------------------------------------------------
(* Registration *)

\* register_user: 409 if the email is taken ...
ReadEmail(h) ==
    /\ h \in SignUp
    /\ pc[h] = "new"
    /\ Goto(h, IF account = "none" THEN "write" ELSE "denied")
    /\ UNCHANGED <<row, sessions, expired, cookie, given, history>>

\* ... else an insert, which the unique index refuses if the email is taken now.
InsertUser(h) ==
    /\ h \in SignUp
    /\ pc[h] = "write"
    /\ IF account = "none"
       THEN /\ account' = "active"
            /\ password' = h
            /\ Goto(h, "done")
       ELSE /\ Goto(h, "denied")
            /\ UNCHANGED <<account, password>>
    /\ UNCHANGED <<resetToken, sessions, expired, cookie, given, history>>

---------------------------------------------------------------------------
(* Login, refresh, logout *)

\* authenticate_user: 401 for a wrong password, 403 for a scheduled account.
Authenticate(h, p) ==
    /\ h \in Login
    /\ pc[h] = "new"
    /\ Goto(h, IF p = password /\ account = "active" THEN "write" ELSE "denied")
    /\ Cross
    /\ UNCHANGED <<row, sessions, expired, cookie, given, origin, forked, lost>>

\* create_session, in a transaction of its own.
CreateSession(h) ==
    /\ h \in Login
    /\ pc[h] = "write"
    /\ Store(h, h, sessions)
    /\ Goto(h, "reply")
    /\ UNCHANGED <<row, expired, cookie, given, forked, crossed, lost>>

\* refresh_session: 401 unless the row of the cookie's token is there ...
ReadSession(r) ==
    /\ r \in Refresh
    /\ pc[r] = "new"
    /\ cookie # None
    /\ IF Valid(cookie)
       THEN /\ Present(r, cookie)
            /\ Goto(r, "write")
            /\ forked' = forked \cup {origin[cookie] : q \in
                             {q \in Refresh : pc[q] = "write" /\ given[q] = cookie}}
       ELSE /\ Goto(r, "denied")
            /\ UNCHANGED <<given, forked>>
    /\ Cross
    /\ UNCHANGED <<row, sessions, expired, cookie, origin, lost>>

\* Mutant: the old row is not deleted.
KeepOldSession(r) ==
    /\ r \in Refresh
    /\ pc[r] = "write"
    /\ Store(r, origin[given[r]], sessions)
    /\ Present(r, None)
    /\ Goto(r, "reply")
    /\ UNCHANGED <<row, expired, cookie, forked, crossed, lost>>

\* ... then the old row is deleted, if it is still there, and a new one added.
RotateSession(r) ==
    /\ r \in Refresh
    /\ pc[r] = "write"
    /\ Store(r, origin[given[r]], sessions \ {given[r]})
    /\ expired' = expired \ {given[r]}
    /\ Present(r, None)
    /\ Goto(r, "reply")
    /\ UNCHANGED <<row, cookie, forked, crossed, lost>>

\* Mutant: the response of a refresh does not carry the new cookie.
SetLoginCookie(t) ==
    /\ t \in Token
    /\ pc[t] = "reply"
    /\ SetCookie(IF t \in Login THEN t ELSE cookie)
    /\ Goto(t, "done")
    /\ UNCHANGED <<row, sessions, expired, given, history>>

\* _set_refresh_cookie: the response reaches the browser.
SetRefreshCookie(t) ==
    /\ t \in Token
    /\ pc[t] = "reply"
    /\ SetCookie(t)
    /\ Goto(t, "done")
    /\ UNCHANGED <<row, sessions, expired, given, history>>

\* The process dies after the commit, or the connection breaks.  (One that dies
\* before its commit has changed nothing: it is a request that never goes on.)
LoseResponse(r) ==
    /\ r \in Token \cup Logout
    /\ pc[r] = "reply"
    /\ Goto(r, "denied")
    /\ lost' = TRUE
    /\ UNCHANGED <<row, sessions, expired, cookie, given, origin, forked, crossed>>

\* logout_route depends on get_current_user; without a cookie nothing is deleted.
BeginLogout(x) ==
    /\ x \in Logout
    /\ pc[x] = "new"
    /\ SignedIn
    /\ Present(x, cookie)
    /\ Goto(x, IF CurrentUser THEN "write" ELSE "denied")
    /\ crossed' = crossed \cup {x : t \in {s \in Token : InFlight(s)}}
    /\ UNCHANGED <<row, sessions, expired, cookie, origin, forked, lost>>

\* Mutant: the row stays, only the cookie is cleared.
KeepSession(x) ==
    /\ x \in Logout
    /\ pc[x] = "write"
    /\ Goto(x, "reply")
    /\ UNCHANGED <<row, sessions, expired, cookie, given, history>>

\* logout: a DELETE by token, which may find no row.
DeleteSession(x) ==
    /\ x \in Logout
    /\ pc[x] = "write"
    /\ sessions' = sessions \ {given[x]}
    /\ expired' = expired \ {given[x]}
    /\ Goto(x, "reply")
    /\ UNCHANGED <<row, cookie, given, history>>

\* _clear_refresh_cookie
ClearRefreshCookie(x) ==
    /\ x \in Logout
    /\ pc[x] = "reply"
    /\ SetCookie(None)
    /\ Goto(x, "done")
    /\ UNCHANGED <<row, sessions, expired, given, history>>

---------------------------------------------------------------------------
(* Account deletion *)

\* delete_account and verify_password
BeginRemoval(x, p) ==
    /\ x \in Removal
    /\ pc[x] = "new"
    /\ SignedIn
    /\ Goto(x, IF CurrentUser /\ p = password THEN "write" ELSE "denied")
    /\ crossed' = crossed \cup {x : t \in {s \in Token : InFlight(s)}}
    /\ UNCHANGED <<row, sessions, expired, cookie, given, origin, forked, lost>>

\* schedule_account_deletion: the flag, and all sessions of the user, at once.
ScheduleDeletion(x) ==
    /\ x \in Removal
    /\ pc[x] = "write"
    /\ account' = "scheduled"
    /\ sessions' = {}
    /\ expired' = expired \ Token
    /\ Goto(x, "done")
    /\ UNCHANGED <<password, resetToken, cookie, given, history>>

\* restore_account is for a user who passes get_current_user, so one that is not
\* scheduled as far as this request knows: setting the flag it has read as NULL
\* to NULL writes nothing, and the request may as well be sent again.
RestoreAccount(x) ==
    /\ x \in Cancel
    /\ pc[x] = "new"
    /\ SignedIn
    /\ Goto(x, IF CurrentUser THEN "new" ELSE "denied")
    /\ UNCHANGED <<row, sessions, expired, cookie, given, history>>

---------------------------------------------------------------------------
(* Password reset *)

\* request_password_reset: a new token replaces the one there may be.
RequestReset(f) ==
    /\ f \in Forgot
    /\ pc[f] = "new"
    /\ IF account = "none"
       THEN Goto(f, "denied") /\ UNCHANGED <<resetToken, expired>>
       ELSE Goto(f, "done") /\ resetToken' = f /\ expired' = expired \ Forgot
    /\ UNCHANGED <<account, password, sessions, cookie, given, history>>

\* confirm_password_reset: 400 unless the row has this token, in time ...
ReadResetToken(c, f) ==
    /\ c \in Confirm
    /\ pc[c] = "new"
    /\ Disclosed(f)
    /\ Present(c, f)
    /\ Goto(c, IF resetToken = f /\ f \notin expired THEN "write" ELSE "denied")
    /\ forked' = forked \cup {f : d \in {e \in Confirm : pc[e] = "write" /\ given[e] = f}}
    /\ UNCHANGED <<row, sessions, expired, cookie, origin, crossed, lost>>

\* Mutant: the token is not cleared.
SetPasswordOnly(c) ==
    /\ c \in Confirm
    /\ pc[c] = "write"
    /\ password' = c
    /\ Goto(c, "done")
    /\ UNCHANGED <<account, resetToken, sessions, expired, cookie, given, history>>

\* ... then it gets the new password and loses the token, whichever it has now.
SetPassword(c) ==
    /\ c \in Confirm
    /\ pc[c] = "write"
    /\ password' = c
    /\ resetToken' = None
    /\ expired' = expired \ Forgot
    /\ Goto(c, "done")
    /\ UNCHANGED <<account, sessions, cookie, given, history>>

\* expires_at of a session, reset_password_expires_at of the row
Expire(t) ==
    /\ t \in sessions \cup ({resetToken} \ {None})
    /\ t \notin expired
    /\ expired' = expired \cup {t}
    /\ UNCHANGED <<row, sessions, cookie, pc, given, history>>

---------------------------------------------------------------------------

Next ==
    \/ \E h \in SignUp  : ReadEmail(h) \/ InsertUser(h)
    \/ \E h \in Login   : (\E p \in Password : Authenticate(h, p)) \/ CreateSession(h)
    \/ \E r \in Refresh : ReadSession(r) \/ RotateSession(r)
    \/ \E t \in Token   : SetRefreshCookie(t)
    \/ \E x \in Logout  : BeginLogout(x) \/ DeleteSession(x) \/ ClearRefreshCookie(x)
    \/ \E x \in Removal : (\E p \in Password : BeginRemoval(x, p)) \/ ScheduleDeletion(x)
    \/ \E x \in Cancel  : RestoreAccount(x)
    \/ \E f \in Forgot  : RequestReset(f)
    \/ \E c \in Confirm : (\E f \in Forgot : ReadResetToken(c, f)) \/ SetPassword(c)
    \/ \E r \in Token \cup Logout : LoseResponse(r)
    \/ \E t \in Token \cup Forgot : Expire(t)

Spec == Init /\ [][Next]_vars

---------------------------------------------------------------------------
(* Properties *)

Family(l) == {t \in Token : origin[t] = l}

\* Rotation keeps one session for each login, however many refreshes there are
\* and wherever responses are lost, unless two refreshes of one token overlap
\* (auth_service.py:165-193; nothing locks the row between its read and delete).
OneSessionPerLogin ==
    \A l \in Login \ forked : Cardinality(Family(l) \cap sessions) <= 1

\* A reset token changes the password once, unless two uses of it overlap
\* ("Clears the token after use to prevent replay", auth_service.py:246).
ResetTokenUsedOnce ==
    \A c, d \in Confirm :
        pc[c] = "done" /\ pc[d] = "done" /\ given[c] = given[d] /\ c # d
            => given[c] \in forked

\* The cookie a browser is left with works: whatever its tabs refreshed at the
\* same time and in whatever order the responses came, once all have arrived the
\* cookie's session is there, unless the account is to be deleted.
CookieWorks ==
    ~lost /\ account = "active" /\ cookie # None /\ (\A r \in Request : ~InFlight(r))
        => cookie \in sessions

\* Signed out is signed out: after a logout no session of that login is left or
\* comes back, and an account to be deleted has none, unless a login or refresh
\* overlapped it (account_service.py:42, auth_service.py:201-210).
SignedOutStaysOut ==
    /\ \A x \in Logout \ crossed : pc[x] = "done" /\ given[x] # None /\ ~lost
          => LET l == origin[given[x]] IN l \in forked \/ Family(l) \cap sessions = {}
    /\ account = "scheduled" /\ Removal \cap crossed = {} => sessions = {}
===========================================================================
