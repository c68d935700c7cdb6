-------------------------- MODULE Sessions_proofs --------------------------
(***************************************************************************)
(* Proofs about Sessions, for any number of logins, refreshes, sign-outs   *)
(* and resets: rotation keeps one session for each login, a reset token    *)
(* changes the password once unless two uses of it overlap, the cookie the *)
(* browser is left with works, and signed out is signed out.               *)
(***************************************************************************)
EXTENDS Sessions, FiniteSetTheorems, TLAPS

\* Who has minted what: a token has a login once it is stored, and that login
\* has created its session by then.
Minted ==
    /\ \A t \in Token : pc[t] \in {"new", "write"} => origin[t] = None
    /\ \A t \in sessions : origin[t] \in Login
    /\ \A r \in Refresh : pc[r] = "write" => given[r] \in Token /\ origin[given[r]] \in Login
    /\ \A t \in Token : origin[t] # None => pc[origin[t]] \notin {"new", "write"}

LEMMA Kinds ==
    /\ None \notin Request
    /\ Login \cap (SignUp \cup Refresh \cup Logout \cup Removal \cup Cancel \cup Forgot \cup Confirm) = {}
    /\ Refresh \cap (SignUp \cup Logout \cup Removal \cup Cancel \cup Forgot \cup Confirm) = {}
    /\ Forgot \cap (SignUp \cup Logout \cup Removal \cup Cancel \cup Confirm) = {}
    /\ Confirm \cap (SignUp \cup Logout \cup Removal \cup Cancel) = {}
    /\ Logout \cap (SignUp \cup Removal \cup Cancel) = {}
    /\ Removal \cap (SignUp \cup Cancel) = {}
<1> DEFINE kind == <<SignUp, Login, Refresh, Logout, Removal, Cancel, Forgot, Confirm>>
<1>1. \A m, n \in 1..8 : m # n => kind[m] \cap kind[n] = {}
    BY SessionsAssumption
<1>2. \A n \in 1..8 : n # 2 => Login \cap kind[n] = {}
    BY <1>1
<1>3. \A n \in 1..8 : n # 3 => Refresh \cap kind[n] = {}
    BY <1>1
<1>4. \A n \in 1..8 : n # 7 => Forgot \cap kind[n] = {}
    BY <1>1
<1>5. \A n \in 1..8 : n # 8 => Confirm \cap kind[n] = {}
    BY <1>1
<1>6. \A n \in 1..8 : n # 4 => Logout \cap kind[n] = {}
    BY <1>1
<1>7. \A n \in 1..8 : n # 5 => Removal \cap kind[n] = {}
    BY <1>1
<1> QED
    BY <1>2, <1>3, <1>4, <1>5, <1>6, <1>7, SessionsAssumption

LEMMA InitTypes == Init => TypeOK /\ Minted
BY DEF Init, TypeOK, Minted, Request, Token

LEMMA NextTypes == TypeOK /\ Minted /\ [Next]_vars => TypeOK' /\ Minted'
<1> SUFFICES ASSUME TypeOK, Minted, [Next]_vars PROVE TypeOK' /\ Minted'
    OBVIOUS
<1> USE Kinds DEF Goto, Present, Store, SetCookie, Cross, InFlight, row, history,
                  Request, Token, Password, SignOut
<1>1. ASSUME NEW h \in SignUp, ReadEmail(h) \/ InsertUser(h) PROVE TypeOK' /\ Minted'
    BY <1>1 DEF ReadEmail, InsertUser, TypeOK, Minted
<1>2. ASSUME NEW h \in Login, NEW p \in Password, Authenticate(h, p) PROVE TypeOK' /\ Minted'
    BY <1>2 DEF Authenticate, TypeOK, Minted
<1>3. ASSUME NEW h \in Login, CreateSession(h) PROVE TypeOK' /\ Minted'
    BY <1>3 DEF CreateSession, TypeOK, Minted
<1>4. ASSUME NEW r \in Refresh, ReadSession(r) PROVE TypeOK' /\ Minted'
    BY <1>4 DEF ReadSession, Valid, TypeOK, Minted
<1>5. ASSUME NEW r \in Refresh, RotateSession(r) PROVE TypeOK' /\ Minted'
    BY <1>5 DEF RotateSession, TypeOK, Minted
<1>6. ASSUME NEW t \in Token, SetRefreshCookie(t) PROVE TypeOK' /\ Minted'
    BY <1>6 DEF SetRefreshCookie, TypeOK, Minted
<1>7. ASSUME NEW r \in Token \cup Logout, LoseResponse(r) PROVE TypeOK' /\ Minted'
    BY <1>7 DEF LoseResponse, TypeOK, Minted
<1>8. ASSUME NEW x \in Logout, BeginLogout(x) \/ DeleteSession(x) \/ ClearRefreshCookie(x)
      PROVE  TypeOK' /\ Minted'
    BY <1>8 DEF BeginLogout, DeleteSession, ClearRefreshCookie, TypeOK, Minted
<1>9. ASSUME NEW x \in Removal, (\E p \in Password : BeginRemoval(x, p)) \/ ScheduleDeletion(x)
      PROVE  TypeOK' /\ Minted'
    BY <1>9 DEF BeginRemoval, ScheduleDeletion, TypeOK, Minted
<1>10. ASSUME NEW x \in Cancel, RestoreAccount(x) PROVE TypeOK' /\ Minted'
    BY <1>10 DEF RestoreAccount, TypeOK, Minted
<1>11. ASSUME NEW f \in Forgot, RequestReset(f) PROVE TypeOK' /\ Minted'
    BY <1>11 DEF RequestReset, TypeOK, Minted
<1>12. ASSUME NEW c \in Confirm, NEW f \in Forgot, ReadResetToken(c, f) PROVE TypeOK' /\ Minted'
    BY <1>12 DEF ReadResetToken, TypeOK, Minted
<1>13. ASSUME NEW c \in Confirm, SetPassword(c) PROVE TypeOK' /\ Minted'
    BY <1>13 DEF SetPassword, TypeOK, Minted
<1>14. ASSUME NEW t \in Token \cup Forgot, Expire(t) PROVE TypeOK' /\ Minted'
    BY <1>14 DEF Expire, TypeOK, Minted
<1>15. CASE UNCHANGED vars
    BY <1>15 DEF vars, TypeOK, Minted
<1> QED
    BY <1>1, <1>2, <1>3, <1>4, <1>5, <1>6, <1>7, <1>8, <1>9, <1>10, <1>11, <1>12, <1>13,
       <1>14, <1>15 DEF Next

\* Every variable keeps its type, and tokens descend from logins that were made.
THEOREM TypeCorrect == Spec => [](TypeOK /\ Minted)
<1> QED
    BY InitTypes, NextTypes, PTL DEF Spec

---------------------------------------------------------------------------
(* Rotation *)

Rotating(r, l) == r \in Refresh /\ pc[r] = "write" /\ origin[given[r]] = l

\* Of a login that no two refreshes have used at once, one session is stored, and
\* a refresh under way is alone and holds that one.
Rotation ==
    \A l \in Login : l \notin forked =>
        /\ \A t, u \in Family(l) \cap sessions : t = u
        /\ \A r \in Refresh : Rotating(r, l) =>
               /\ \A t \in Family(l) \cap sessions : t = given[r]
               /\ \A q \in Refresh : Rotating(q, l) => q = r

LEMMA NextRotation == TypeOK /\ Minted /\ Rotation /\ [Next]_vars => Rotation'
<1> SUFFICES ASSUME TypeOK, Minted, Rotation, [Next]_vars PROVE Rotation'
    OBVIOUS
<1> USE DEF Goto, Present, SetCookie, Cross, row, history
<1>1. ASSUME NEW h \in Login, CreateSession(h) PROVE Rotation'
    <2>1. /\ sessions' = sessions \cup {h}
          /\ origin' = [origin EXCEPT ![h] = h]
          /\ pc' = [pc EXCEPT ![h] = "reply"]
          /\ pc[h] = "write"
          /\ UNCHANGED <<given, forked>>
          /\ h \in Token
        BY <1>1 DEF CreateSession, Store, Token
    <2>2. \A t \in Token : origin[t] # h
        BY <2>1, Kinds DEF Minted, Request
    <2>3. origin'[h] = h /\ \A t \in Token : t # h => origin'[t] = origin[t]
        BY <2>1 DEF TypeOK
    <2>4. \A r \in Refresh : pc'[r] = pc[r]
        BY <2>1, Kinds DEF TypeOK, Request
    <2>5. origin[h] = None
        BY <2>1 DEF Minted
    <2>6. \A r \in Refresh : pc[r] = "write" => given[r] # h
        BY <2>5, Kinds DEF Minted, Request
    <2>7. ASSUME NEW l \in Login, l # h
          PROVE  /\ (Family(l) \cap sessions)' = Family(l) \cap sessions
                 /\ \A r \in Refresh : Rotating(r, l)' => Rotating(r, l)
        <3>1. \A t \in Token : origin'[t] = l <=> origin[t] = l
            BY <2>3, <2>5, <2>7, Kinds DEF Request
        <3>2. Family(l)' = Family(l) /\ h \notin Family(l)
            BY <2>3, <2>7, <3>1 DEF Family
        <3>3. (Family(l) \cap sessions)' = Family(l) \cap sessions
            BY <2>1, <3>2
        <3>4. ASSUME NEW r \in Refresh, Rotating(r, l)' PROVE Rotating(r, l)
            BY <2>1, <2>4, <3>1, <3>4 DEF Rotating, Minted
        <3> QED
            BY <3>3, <3>4
    <2>8. \A t \in (Family(h) \cap sessions)' : t = h
        BY <2>2, <2>3 DEF Family
    <2>9. ASSUME NEW r \in Refresh, Rotating(r, h)' PROVE FALSE
        BY <2>1, <2>2, <2>3, <2>4, <2>6, <2>9 DEF Rotating, Minted
    <2> SUFFICES ASSUME NEW l \in Login, l \notin forked'
                 PROVE  /\ \A t, u \in (Family(l) \cap sessions)' : t = u
                        /\ \A r \in Refresh : Rotating(r, l)' =>
                               /\ \A t \in (Family(l) \cap sessions)' : t = given'[r]
                               /\ \A q \in Refresh : Rotating(q, l)' => q = r
        BY DEF Rotation
    <2>10. CASE l = h
        BY <2>8, <2>9, <2>10
    <2>11. CASE l # h
        BY <2>1, <2>7, <2>11 DEF Rotation
    <2> QED
        BY <2>10, <2>11
<1>2. ASSUME NEW r \in Refresh, ReadSession(r) PROVE Rotation'
    <2>1. /\ pc[r] = "new"
          /\ UNCHANGED <<sessions, origin>>
          /\ forked \subseteq forked'
        BY <1>2 DEF ReadSession
    <2>2. \A l \in Login : (Family(l) \cap sessions)' = Family(l) \cap sessions
        BY <2>1 DEF Family
    <2>3. \A q \in Refresh : q # r => pc'[q] = pc[q] /\ given'[q] = given[q]
        BY <1>2 DEF ReadSession, TypeOK, Request
    <2>4. CASE ~Valid(cookie)
        <3>1. pc'[r] # "write"
            BY <1>2, <2>4 DEF ReadSession, TypeOK, Request, Token
        <3>2. \A q \in Refresh, l \in Login : Rotating(q, l)' => Rotating(q, l) /\ given'[q] = given[q]
            BY <2>1, <2>3, <3>1 DEF Rotating
        <3> QED
            BY <2>1, <2>2, <3>2 DEF Rotation
    <2>5. CASE Valid(cookie)
        <3>1. cookie \in sessions /\ cookie \in Token
            BY <2>5 DEF Valid, TypeOK
        <3>2. given'[r] = cookie
            BY <1>2, <2>5 DEF ReadSession, TypeOK, Request, Token
        <3>3. \A q \in Refresh, l \in Login :
                  Rotating(q, l)' => IF q = r THEN l = origin[cookie] ELSE Rotating(q, l)
            BY <2>1, <2>3, <3>2 DEF Rotating
        <3>4. ASSUME NEW q \in Refresh, Rotating(q, origin[cookie]), origin[cookie] \notin forked
              PROVE  origin[cookie] \in forked'
            <4>1. cookie \in Family(origin[cookie]) \cap sessions /\ origin[cookie] \in Login
                BY <3>1 DEF Family, Minted
            <4>2. given[q] = cookie
                BY <3>4, <4>1 DEF Rotation
            <4>3. q \in {p \in Refresh : pc[p] = "write" /\ given[p] = cookie}
                BY <3>4, <4>2 DEF Rotating
            <4>4. forked' = forked \cup {origin[cookie] : p \in
                                {p \in Refresh : pc[p] = "write" /\ given[p] = cookie}}
                BY <1>2, <2>5 DEF ReadSession
            <4> QED
                BY <4>3, <4>4
        <3> SUFFICES ASSUME NEW l \in Login, l \notin forked',
                            NEW p \in Refresh, Rotating(p, l)'
                     PROVE  /\ \A t \in Family(l) \cap sessions : t = given'[p]
                            /\ \A q \in Refresh : Rotating(q, l)' => q = p
            BY <2>1, <2>2 DEF Rotation
        <3>5. CASE l = origin[cookie]
            <4>1. \A q \in Refresh : ~Rotating(q, l)
                BY <2>1, <3>4, <3>5
            <4>2. p = r /\ \A q \in Refresh : Rotating(q, l)' => q = r
                BY <3>3, <4>1
            <4>3. cookie \in Family(l) \cap sessions
                BY <3>1, <3>5 DEF Family
            <4>4. \A t \in Family(l) \cap sessions : t = cookie
                BY <2>1, <4>3 DEF Rotation
            <4> QED
                BY <3>2, <4>2, <4>4
        <3>6. CASE l # origin[cookie]
            <4>1. \A q \in Refresh : Rotating(q, l)' => q # r /\ Rotating(q, l)
                BY <3>3, <3>6
            <4> QED
                BY <2>1, <2>3, <4>1 DEF Rotation
        <3> QED
            BY <3>5, <3>6
    <2> QED
        BY <2>4, <2>5
<1>3. ASSUME NEW r \in Refresh, RotateSession(r) PROVE Rotation'
    <2> DEFINE m == origin[given[r]]
    <2>1. /\ sessions' = (sessions \ {given[r]}) \cup {r}
          /\ origin' = [origin EXCEPT ![r] = m]
          /\ pc[r] = "write"
          /\ pc' = [pc EXCEPT ![r] = "reply"]
          /\ given' = [given EXCEPT ![r] = None]
          /\ forked' = forked
          /\ r \in Token
        BY <1>3 DEF RotateSession, Store, Token
    <2>2. given[r] \in Token /\ m \in Login /\ origin[r] = None
        BY <2>1 DEF Minted
    <2>3. m # None
        BY <2>2, Kinds DEF Request
    <2>4. origin'[r] = m /\ \A t \in Token : t # r => origin'[t] = origin[t]
        BY <2>1 DEF TypeOK
    <2>5. pc'[r] = "reply" /\ \A q \in Refresh : q # r => pc'[q] = pc[q] /\ given'[q] = given[q]
        BY <2>1 DEF TypeOK, Request, Token
    <2>6. ASSUME NEW q \in Refresh, NEW l \in Login, Rotating(q, l)'
          PROVE  q # r /\ Rotating(q, l) /\ given'[q] = given[q]
        <3>1. q # r /\ pc[q] = "write" /\ given'[q] = given[q]
            BY <2>5, <2>6 DEF Rotating
        <3>2. given[q] \in Token /\ origin[given[q]] # None
            BY <3>1, Kinds DEF Minted, Request
        <3>3. given[q] # r
            BY <2>2, <3>2
        <3> QED
            BY <2>4, <2>6, <3>1, <3>2, <3>3 DEF Rotating
    <2>7. ASSUME NEW l \in Login, l # m, NEW t \in (Family(l) \cap sessions)'
          PROVE  t \in Family(l) \cap sessions
        BY <2>1, <2>4, <2>7 DEF Family
    <2>8. ASSUME NEW l \in Login, l = m, NEW t \in (Family(l) \cap sessions)'
          PROVE  t = r \/ (t \in Family(l) \cap sessions /\ t # given[r])
        BY <2>1, <2>4, <2>8 DEF Family
    <2>9. Rotating(r, m)
        BY <2>1 DEF Rotating
    <2> SUFFICES ASSUME NEW l \in Login, l \notin forked
                 PROVE  /\ \A t, u \in (Family(l) \cap sessions)' : t = u
                        /\ \A p \in Refresh : Rotating(p, l)' =>
                               /\ \A t \in (Family(l) \cap sessions)' : t = given'[p]
                               /\ \A q \in Refresh : Rotating(q, l)' => q = p
        BY <2>1 DEF Rotation
    <2>10. CASE l = m
        <3>1. \A t \in (Family(l) \cap sessions)' : t = r
            BY <2>8, <2>9, <2>10 DEF Rotation
        <3>2. \A q \in Refresh : ~Rotating(q, l)'
            BY <2>6, <2>9, <2>10 DEF Rotation
        <3> QED
            BY <3>1, <3>2
    <2>11. CASE l # m
        BY <2>6, <2>7, <2>11 DEF Rotation
    <2> QED
        BY <2>10, <2>11
<1>4. ASSUME \/ \E x \in Logout  : DeleteSession(x)
             \/ \E x \in Removal : ScheduleDeletion(x)
      PROVE  Rotation'
    <2>1. sessions' \subseteq sessions /\ UNCHANGED <<origin, given, forked>>
        BY <1>4 DEF DeleteSession, ScheduleDeletion
    <2>2. \A r \in Refresh : pc'[r] = pc[r]
        BY <1>4, Kinds DEF DeleteSession, ScheduleDeletion, TypeOK, Request
    <2> QED
        BY <2>1, <2>2 DEF Rotation, Family, Rotating
<1>5. ASSUME \/ \E h \in SignUp  : ReadEmail(h) \/ InsertUser(h)
             \/ \E h \in Login   : \E p \in Password : Authenticate(h, p)
             \/ \E t \in Token   : SetRefreshCookie(t)
             \/ \E x \in Logout  : BeginLogout(x) \/ ClearRefreshCookie(x)
             \/ \E x \in Removal : \E p \in Password : BeginRemoval(x, p)
             \/ \E x \in Cancel  : RestoreAccount(x)
             \/ \E f \in Forgot  : RequestReset(f)
             \/ \E c \in Confirm : (\E f \in Forgot : ReadResetToken(c, f)) \/ SetPassword(c)
             \/ \E r \in Token \cup Logout : LoseResponse(r)
             \/ \E t \in Token \cup Forgot : Expire(t)
             \/ UNCHANGED vars
      PROVE  Rotation'
    <2>1. forked \subseteq forked' /\ UNCHANGED <<sessions, origin>>
        BY <1>5 DEF ReadEmail, InsertUser, Authenticate, SetRefreshCookie, BeginLogout,
           ClearRefreshCookie, BeginRemoval, RestoreAccount, RequestReset, ReadResetToken,
           SetPassword, LoseResponse, Expire, vars
    <2>2. \A r \in Refresh : pc'[r] = "write" => pc[r] = "write" /\ given'[r] = given[r]
        BY <1>5, Kinds DEF ReadEmail, InsertUser, Authenticate, SetRefreshCookie, BeginLogout,
           ClearRefreshCookie, BeginRemoval, RestoreAccount, RequestReset, ReadResetToken,
           SetPassword, LoseResponse, Expire, vars, TypeOK,
           Request, Token
    <2> QED
        BY <2>1, <2>2 DEF Rotation, Family, Rotating
<1> QED
    BY <1>1, <1>2, <1>3, <1>4, <1>5 DEF Next

\* However many refreshes there are, and wherever responses are lost or sign-outs
\* come in between, a login has one session unless two refreshes of one token
\* overlap (auth_service.py:165-193).
THEOREM OneSessionForLogin == Spec => []OneSessionPerLogin
<1>1. Init => Rotation
    BY DEF Init, Rotation, Family, Rotating, Request
<1>2. Rotation => OneSessionPerLogin
    <2> SUFFICES ASSUME Rotation, NEW l \in Login, l \notin forked
                 PROVE  Cardinality(Family(l) \cap sessions) <= 1
        BY DEF OneSessionPerLogin
    <2>1. CASE Family(l) \cap sessions = {}
        BY <2>1, FS_EmptySet
    <2>2. ASSUME NEW t \in Family(l) \cap sessions
          PROVE  Cardinality(Family(l) \cap sessions) <= 1
        <3>1. Family(l) \cap sessions = {t}
            BY <2>2 DEF Rotation
        <3> QED
            BY <3>1, FS_Singleton
    <2> QED
        BY <2>1, <2>2
<1> QED
    BY <1>1, <1>2, InitTypes, NextTypes, NextRotation, PTL DEF Spec

---------------------------------------------------------------------------
(* Password reset *)

\* A confirmation names a token that was sent; one that is done has cleared it;
\* two that got past the check were there together.
Resets ==
    /\ \A c \in Confirm : pc[c] \in {"write", "done"} =>
           given[c] \in Forgot /\ pc[given[c]] = "done"
    /\ \A c \in Confirm : pc[c] = "done" => resetToken # given[c]
    /\ \A c, d \in Confirm :
           /\ pc[c] \in {"write", "done"} /\ pc[d] \in {"write", "done"}
           /\ given[c] = given[d] /\ c # d
           => given[c] \in forked

LEMMA NextResets == TypeOK /\ Resets /\ [Next]_vars => Resets'
<1> SUFFICES ASSUME TypeOK, Resets, [Next]_vars PROVE Resets'
    OBVIOUS
<1> USE Kinds DEF Goto, Present, SetCookie, Store, Cross, row, history, Token, Request
<1>1. ASSUME NEW f \in Forgot, RequestReset(f) PROVE Resets'
    BY <1>1 DEF RequestReset, Resets, TypeOK
<1>2. ASSUME NEW c \in Confirm, NEW f \in Forgot, ReadResetToken(c, f) PROVE Resets'
    BY <1>2 DEF ReadResetToken, Disclosed, Resets, TypeOK
<1>3. ASSUME NEW c \in Confirm, SetPassword(c) PROVE Resets'
    BY <1>3 DEF SetPassword, Resets, TypeOK
<1>4. ASSUME \/ \E h \in SignUp  : ReadEmail(h) \/ InsertUser(h)
             \/ \E h \in Login   : (\E p \in Password : Authenticate(h, p)) \/ CreateSession(h)
             \/ \E r \in Refresh : ReadSession(r) \/ RotateSession(r)
             \/ \E t \in Token   : SetRefreshCookie(t)
             \/ \E x \in Logout  : BeginLogout(x) \/ DeleteSession(x) \/ ClearRefreshCookie(x)
             \/ \E x \in Removal : (\E p \in Password : BeginRemoval(x, p)) \/ ScheduleDeletion(x)
             \/ \E x \in Cancel  : RestoreAccount(x)
             \/ \E r \in Token \cup Logout : LoseResponse(r)
             \/ \E t \in Token \cup Forgot : Expire(t)
             \/ UNCHANGED vars
      PROVE  Resets'
    <2>1. forked \subseteq forked' /\ resetToken' = resetToken
        BY <1>4 DEF ReadEmail, InsertUser, Authenticate, CreateSession, ReadSession, RotateSession,
           SetRefreshCookie, BeginLogout, DeleteSession, ClearRefreshCookie, BeginRemoval,
           ScheduleDeletion, RestoreAccount, LoseResponse, Expire, vars
    <2>2. \A c \in Confirm \cup Forgot : pc'[c] = pc[c] /\ given'[c] = given[c]
        BY <1>4 DEF ReadEmail, InsertUser, Authenticate, CreateSession, ReadSession, RotateSession,
           SetRefreshCookie, BeginLogout, DeleteSession, ClearRefreshCookie, BeginRemoval,
           ScheduleDeletion, RestoreAccount, LoseResponse, Expire, vars, TypeOK
    <2> QED
        BY <2>1, <2>2 DEF Resets
<1> QED
    BY <1>1, <1>2, <1>3, <1>4 DEF Next

\* "Clears the token after use to prevent replay" (auth_service.py:246): for any
\* number of reset mails and forms, a token changes the password once unless two
\* uses of it overlap.
THEOREM ResetTokenIsUsedOnce == Spec => []ResetTokenUsedOnce
<1>1. Init => Resets
    BY DEF Init, Resets, Request
<1>2. Resets => ResetTokenUsedOnce
    BY DEF Resets, ResetTokenUsedOnce
<1> QED
    BY <1>1, <1>2, InitTypes, NextTypes, NextResets, PTL DEF Spec

---------------------------------------------------------------------------
(* The browser's cookie *)

\* A cookie, and a token presented, came with a response that has arrived, and
\* every token that was sent descends from a login; until
\* the account is to be deleted nothing touches the session of a response under
\* way; and the cookie's session is gone only while a response is under way.
Cookies ==
    /\ cookie # None => pc[cookie] = "done"
    /\ \A q \in Request : given[q] \in Token => pc[given[q]] = "done"
    /\ \A t \in Token : pc[t] \in {"reply", "done"} => origin[t] \in Login
    /\ account # "scheduled" => \A t \in Token : pc[t] = "reply" => t \in sessions
    /\ ~lost /\ account # "scheduled" /\ cookie # None /\ cookie \notin sessions
           => \E q \in Token \cup Logout : pc[q] = "reply"

LEMMA NextCookies == TypeOK /\ Minted /\ Cookies /\ [Next]_vars => Cookies'
<1> SUFFICES ASSUME TypeOK, Minted, Cookies, [Next]_vars PROVE Cookies'
    OBVIOUS
<1> USE Kinds DEF Goto, Present, Store, SetCookie, Cross, InFlight, row, history,
                  Request, Token, SignOut
<1>1. ASSUME NEW h \in Login, CreateSession(h) PROVE Cookies'
    BY <1>1 DEF CreateSession, TypeOK, Minted, Cookies
<1>2. ASSUME NEW r \in Refresh, ReadSession(r) PROVE Cookies'
    BY <1>2 DEF ReadSession, Valid, TypeOK, Cookies
<1>3. ASSUME NEW r \in Refresh, RotateSession(r) PROVE Cookies'
    BY <1>3 DEF RotateSession, TypeOK, Minted, Cookies
<1>4. ASSUME NEW t \in Token, SetRefreshCookie(t) PROVE Cookies'
    BY <1>4 DEF SetRefreshCookie, TypeOK, Cookies
<1>5. ASSUME NEW x \in Logout, BeginLogout(x) PROVE Cookies'
    BY <1>5 DEF BeginLogout, TypeOK, Cookies
<1>6. ASSUME NEW x \in Logout, DeleteSession(x) PROVE Cookies'
    BY <1>6 DEF DeleteSession, TypeOK, Cookies
<1>7. ASSUME NEW x \in Logout, ClearRefreshCookie(x) PROVE Cookies'
    BY <1>7 DEF ClearRefreshCookie, TypeOK, Cookies
<1>8. ASSUME NEW x \in Removal, ScheduleDeletion(x) PROVE Cookies'
    BY <1>8 DEF ScheduleDeletion, TypeOK, Cookies
<1>9. ASSUME NEW r \in Token \cup Logout, LoseResponse(r) PROVE Cookies'
    BY <1>9 DEF LoseResponse, TypeOK, Cookies
<1>10. ASSUME NEW h \in SignUp, ReadEmail(h) \/ InsertUser(h) PROVE Cookies'
    BY <1>10 DEF ReadEmail, InsertUser, TypeOK, Cookies
<1>11. ASSUME NEW c \in Confirm, NEW f \in Forgot, ReadResetToken(c, f) PROVE Cookies'
    BY <1>11 DEF ReadResetToken, TypeOK, Cookies
<1>12. ASSUME \/ \E h \in Login   : \E p \in Password : Authenticate(h, p)
              \/ \E x \in Removal : \E p \in Password : BeginRemoval(x, p)
              \/ \E x \in Cancel  : RestoreAccount(x)
              \/ \E f \in Forgot  : RequestReset(f)
              \/ \E c \in Confirm : SetPassword(c)
              \/ \E t \in Token \cup Forgot : Expire(t)
              \/ UNCHANGED vars
       PROVE  Cookies'
    BY <1>12 DEF Authenticate, BeginRemoval, RestoreAccount, RequestReset, SetPassword, Expire,
       vars, TypeOK, Cookies
<1> QED
    BY <1>1, <1>2, <1>3, <1>4, <1>5, <1>6, <1>7, <1>8, <1>9, <1>10, <1>11, <1>12 DEF Next

\* Whatever the tabs of a browser refreshed at once, and in whatever order the
\* responses came, the cookie it is left with has a session (auth_service.py:165-193,
\* backend/api/routers/auth.py).
THEOREM CookieHasSession == Spec => []CookieWorks
<1>1. Init => Cookies
    BY Kinds DEF Init, Cookies, Request, Token
<1>2. Cookies => CookieWorks
    BY DEF Cookies, CookieWorks, InFlight, Request, Token
<1> QED
    BY <1>1, <1>2, InitTypes, NextTypes, NextCookies, PTL DEF Spec

---------------------------------------------------------------------------
(* Signing out *)

\* A sign-out under way that crosses no login or refresh has none beside it; and
\* one that deletes the account leaves no session, and no request to add one.
Quiet ==
    /\ \A x \in SignOut \ crossed : InFlight(x) => \A t \in Token : ~InFlight(t)
    /\ account = "scheduled" /\ Removal \cap crossed = {}
           => sessions = {} /\ \A t \in Token : pc[t] # "write"

LEMMA NextQuiet == TypeOK /\ Quiet /\ [Next]_vars => Quiet'
<1> SUFFICES ASSUME TypeOK, Quiet, [Next]_vars PROVE Quiet'
    OBVIOUS
<1> USE Kinds DEF Goto, Present, Store, SetCookie, Cross, InFlight, row, history,
                  Request, Token, SignOut
<1>1. ASSUME NEW h \in Login, (\E p \in Password : Authenticate(h, p)) \/ CreateSession(h)
      PROVE  Quiet'
    BY <1>1 DEF Authenticate, CreateSession, TypeOK, Quiet
<1>2. ASSUME NEW r \in Refresh, ReadSession(r) PROVE Quiet'
    BY <1>2 DEF ReadSession, Valid, TypeOK, Quiet
<1>3. ASSUME NEW r \in Refresh, RotateSession(r) PROVE Quiet'
    BY <1>3 DEF RotateSession, TypeOK, Quiet
<1>4. ASSUME NEW x \in Logout, BeginLogout(x) PROVE Quiet'
    BY <1>4 DEF BeginLogout, TypeOK, Quiet
<1>5. ASSUME NEW x \in Removal, NEW p \in Password, BeginRemoval(x, p) PROVE Quiet'
    BY <1>5 DEF BeginRemoval, TypeOK, Quiet
<1>6. ASSUME NEW x \in Removal, ScheduleDeletion(x) PROVE Quiet'
    BY <1>6 DEF ScheduleDeletion, TypeOK, Quiet
<1>7. ASSUME \/ \E h \in SignUp  : ReadEmail(h) \/ InsertUser(h)
             \/ \E t \in Token   : SetRefreshCookie(t)
             \/ \E x \in Logout  : DeleteSession(x) \/ ClearRefreshCookie(x)
             \/ \E x \in Cancel  : RestoreAccount(x)
             \/ \E f \in Forgot  : RequestReset(f)
             \/ \E c \in Confirm : (\E f \in Forgot : ReadResetToken(c, f)) \/ SetPassword(c)
             \/ \E r \in Token \cup Logout : LoseResponse(r)
             \/ \E t \in Token \cup Forgot : Expire(t)
             \/ UNCHANGED vars
      PROVE  Quiet'
    <2>1. /\ crossed' = crossed
          /\ account' = account \/ account' = "active"
          /\ sessions' \subseteq sessions
        BY <1>7 DEF ReadEmail, InsertUser, SetRefreshCookie, DeleteSession, ClearRefreshCookie,
           RestoreAccount, RequestReset, ReadResetToken, SetPassword, LoseResponse, Expire, vars
    <2>2. \A q \in Token \cup SignOut : pc'[q] = pc[q] \/ pc'[q] \notin {"write", "reply"}
                                           \/ (pc[q] = "write" /\ pc'[q] = "reply")
        BY <1>7 DEF ReadEmail, InsertUser, SetRefreshCookie, DeleteSession, ClearRefreshCookie,
           RestoreAccount, RequestReset, ReadResetToken, SetPassword, LoseResponse, Expire, vars,
           TypeOK
    <2>3. \A x \in SignOut \ crossed' : InFlight(x)' => \A t \in Token : ~InFlight(t)'
        BY <2>1, <2>2 DEF Quiet
    <2>4. account' = "scheduled" /\ Removal \cap crossed' = {}
              => sessions' = {} /\ \A t \in Token : pc'[t] # "write"
        <3>1. sessions = {} => sessions' = {}
            BY <2>1
        <3> QED
            BY <2>1, <2>2, <3>1 DEF Quiet
    <2> QED
        BY <2>3, <2>4 DEF Quiet
<1> QED
    BY <1>1, <1>2, <1>3, <1>4, <1>5, <1>6, <1>7 DEF Next

\* Of a login without overlapping refreshes: the response under way carries its only
\* session, and no refresh is about to replace that one; the browser holds it, or a
\* response is about to bring it; a logout is about to delete it, or has.
SoleResponse(t) ==
    pc[t] = "reply" /\ origin[t] \notin forked =>
        /\ Family(origin[t]) \cap sessions \subseteq {t}
        /\ \A r \in Refresh : ~Rotating(r, origin[t])

BrowserHolds ==
    ~lost /\ cookie # None /\ origin[cookie] \notin forked =>
        Family(origin[cookie]) \cap sessions \subseteq {cookie} \cup {t \in Token : pc[t] = "reply"}

LoggedOut(x) ==
    ~lost /\ x \notin crossed /\ given[x] # None /\ origin[given[x]] \notin forked =>
        LET l == origin[given[x]]
        IN  /\ pc[x] = "write" => Family(l) \cap sessions \subseteq {given[x]}
            /\ pc[x] \in {"reply", "done"} =>
                   Family(l) \cap sessions = {} /\ \A r \in Refresh : ~Rotating(r, l)

LoginsEnd ==
    /\ \A t \in Token : SoleResponse(t)
    /\ BrowserHolds
    /\ \A x \in Logout : LoggedOut(x)
    /\ \A x \in Logout : given[x] \in Token \cup {None}

LEMMA NextLoginsEnd ==
    TypeOK /\ Minted /\ Rotation /\ Cookies /\ Quiet /\ LoginsEnd /\ [Next]_vars => LoginsEnd'
<1> SUFFICES ASSUME TypeOK, Minted, Rotation, Cookies, Quiet, LoginsEnd, [Next]_vars
             PROVE  LoginsEnd'
    OBVIOUS
<1> USE DEF Goto, Present, SetCookie, Cross, row, history
<1>a. \A q \in Request : given[q] \in Token => origin[given[q]] \in Login
    BY DEF Cookies
<1>b. cookie # None => cookie \in Token /\ origin[cookie] \in Login
    BY DEF Cookies, TypeOK
<1>1. ASSUME NEW h \in Login, CreateSession(h) PROVE LoginsEnd'
    <2>1. /\ sessions' = sessions \cup {h}
          /\ origin' = [origin EXCEPT ![h] = h]
          /\ pc[h] = "write" /\ h \in Token
          /\ UNCHANGED <<cookie, given, forked, crossed, lost>>
        BY <1>1 DEF CreateSession, Store, Token
    <2>2. pc'[h] = "reply" /\ \A q \in Request \ {h} : pc'[q] = pc[q]
        BY <1>1, <2>1 DEF CreateSession, TypeOK, Request, Token
    <2>3. /\ origin'[h] = h /\ origin[h] = None
          /\ \A t \in Token \ {h} : origin'[t] = origin[t] /\ origin[t] # h
        BY <2>1, Kinds DEF TypeOK, Minted, Request
    <2>4. \A l \in Login \ {h} : (Family(l) \cap sessions)' = Family(l) \cap sessions
        BY <2>1, <2>3, Kinds DEF Family, Request
    <2>5. Family(h)' = {h}
        BY <2>1, <2>3 DEF Family
    <2>6. \A q \in Request : given[q] \in Token => given[q] # h
        BY <2>1 DEF Cookies
    <2>7. \A r \in Refresh, l \in Login : Rotating(r, l)' => l # h /\ Rotating(r, l)
        BY <2>1, <2>2, <2>3, <2>6, Kinds DEF Rotating, Minted, Request
    <2>8. ASSUME NEW t \in Token PROVE SoleResponse(t)'
        <3>1. CASE t = h
            BY <2>1, <2>3, <2>5, <2>7, <3>1 DEF SoleResponse
        <3>2. CASE t # h
            BY <2>1, <2>2, <2>3, <2>4, <2>7, <3>2
               DEF SoleResponse, LoginsEnd, Cookies, Request, Token
        <3> QED
            BY <3>1, <3>2
    <2>9. BrowserHolds'
        <3>1. cookie # None => cookie # h
            BY <2>1 DEF Cookies
        <3> QED
            BY <1>b, <2>1, <2>2, <2>3, <2>4, <3>1 DEF BrowserHolds, LoginsEnd, Request, Token
    <2>10. ASSUME NEW x \in Logout PROVE LoggedOut(x)'
        <3>1. pc'[x] = pc[x] /\ (x \notin crossed => pc[x] \notin {"write", "reply"})
            BY <2>1, <2>2, Kinds DEF Quiet, InFlight, SignOut, Request
        <3> QED
            BY <1>a, <2>1, <2>3, <2>4, <2>6, <2>7, <3>1 DEF LoggedOut, LoginsEnd, Request
    <2> QED
        BY <2>1, <2>8, <2>9, <2>10 DEF LoginsEnd
<1>2. ASSUME NEW r \in Refresh, RotateSession(r) PROVE LoginsEnd'
    <2>m. PICK m \in Login : m = origin[given[r]]
        BY <1>2 DEF RotateSession, Minted
    <2>1. /\ sessions' = (sessions \ {given[r]}) \cup {r}
          /\ origin' = [origin EXCEPT ![r] = m]
          /\ pc[r] = "write" /\ r \in Token
          /\ given' = [given EXCEPT ![r] = None]
          /\ UNCHANGED <<cookie, forked, crossed, lost>>
        BY <1>2, <2>m DEF RotateSession, Store, Token
    <2>2. /\ pc'[r] = "reply" /\ \A q \in Request \ {r} : pc'[q] = pc[q]
          /\ \A q \in Request \ {r} : given'[q] = given[q]
        BY <1>2 DEF RotateSession, TypeOK, Request, Token
    <2>3. given[r] \in Token /\ origin[given[r]] = m /\ m # None /\ origin[r] = None
        BY <2>m, <2>1, Kinds DEF Minted, Request
    <2>4. origin'[r] = m /\ \A t \in Token \ {r} : origin'[t] = origin[t]
        BY <2>1 DEF TypeOK
    <2>5. \A l \in Login \ {m} : (Family(l) \cap sessions)' = Family(l) \cap sessions
        BY <2>1, <2>3, <2>4, Kinds DEF Family, Request
    <2>6. (Family(m) \cap sessions)' = ((Family(m) \cap sessions) \ {given[r]}) \cup {r}
        BY <2>1, <2>3, <2>4 DEF Family
    <2>7. \A q \in Request : given[q] \in Token => given[q] # r
        BY <2>1 DEF Cookies
    <2>8. \A q \in Refresh, l \in Login : Rotating(q, l)' => q # r /\ Rotating(q, l)
        BY <2>1, <2>2, <2>4, <2>7, Kinds DEF Rotating, Minted, Request
    <2>9. Rotating(r, m)
        BY <2>1, <2>3 DEF Rotating
    <2>10. ASSUME NEW t \in Token PROVE SoleResponse(t)'
        <3>1. CASE t = r
            BY <2>1, <2>3, <2>4, <2>6, <2>8, <2>9, <3>1 DEF SoleResponse, Rotation
        <3>2. CASE t # r /\ pc[t] = "reply"
            <4>1. origin[t] \in Login /\ origin'[t] = origin[t]
                BY <2>4, <3>2 DEF Cookies
            <4>2. origin[t] = m => m \in forked
                BY <2>9, <3>2 DEF SoleResponse, LoginsEnd
            <4> QED
                BY <2>1, <2>5, <2>8, <3>2, <4>1, <4>2 DEF SoleResponse, LoginsEnd
        <3> QED
            BY <2>2, <3>1, <3>2 DEF SoleResponse, Request, Token
    <2>11. BrowserHolds'
        <3>1. cookie # None => cookie # r
            BY <2>1 DEF Cookies
        <3>2. \A t \in Token : pc[t] = "reply" => pc'[t] = "reply"
            BY <2>1, <2>2 DEF Request, Token
        <3>3. \A l \in Login : (Family(l) \cap sessions)' \subseteq (Family(l) \cap sessions) \cup {r}
            BY <2>5, <2>6
        <3> QED
            BY <1>b, <2>1, <2>2, <2>4, <3>1, <3>2, <3>3 DEF BrowserHolds, LoginsEnd
    <2>12. ASSUME NEW x \in Logout PROVE LoggedOut(x)'
        <3>1. pc'[x] = pc[x] /\ given'[x] = given[x]
            BY <2>2, Kinds DEF Request
        <3>2. x \notin crossed => pc[x] \notin {"write", "reply"}
            BY <2>1 DEF Quiet, InFlight, SignOut
        <3>3. given[x] # None => /\ origin'[given[x]] = origin[given[x]]
                                 /\ origin[given[x]] \in Login
            BY <1>a, <2>4, <2>7 DEF LoginsEnd, Request
        <3>4. LoggedOut(x)
            BY DEF LoginsEnd
        <3> QED
            BY <2>1, <2>5, <2>8, <2>9, <3>1, <3>2, <3>3, <3>4 DEF LoggedOut
    <2> QED
        BY <2>2, <2>10, <2>11, <2>12, Kinds DEF LoginsEnd, Request
<1>3. ASSUME NEW r \in Refresh, ReadSession(r) PROVE LoginsEnd'
    <2>1. /\ pc[r] = "new" /\ r \in Token /\ cookie # None
          /\ forked \subseteq forked'
          /\ crossed' = crossed \cup {x \in SignOut : InFlight(x)}
          /\ UNCHANGED <<sessions, origin, cookie, lost>>
        BY <1>3 DEF ReadSession, Token
    <2>2. \A q \in Request \ {r} : pc'[q] = pc[q] /\ given'[q] = given[q]
        BY <1>3 DEF ReadSession, TypeOK, Request
    <2>3. pc'[r] # "reply" /\ (pc'[r] = "write" => cookie \in sessions /\ given'[r] = cookie)
        BY <1>3 DEF ReadSession, Valid, TypeOK, Request
    <2>4. \A q \in Refresh, l \in Login :
              Rotating(q, l)' => Rotating(q, l) \/ (l = origin[cookie] /\ cookie \in Family(l) \cap sessions)
        BY <2>1, <2>2, <2>3 DEF Rotating, Family, TypeOK, Request
    <2>5. \A l \in Login : Family(l)' = Family(l)
        BY <2>1 DEF Family
    <2>6. ASSUME NEW t \in Token PROVE SoleResponse(t)'
        <3>1. pc'[t] = "reply" => pc[t] = "reply" /\ t # cookie
            BY <2>1, <2>2, <2>3 DEF Cookies, Request, Token
        <3>2. pc[t] = "reply" => origin[t] \in Login
            BY DEF Cookies
        <3> QED
            BY <2>1, <2>4, <2>5, <3>1, <3>2 DEF SoleResponse, LoginsEnd
    <2>7. BrowserHolds'
        <3>1. \A t \in Token : pc[t] = "reply" => pc'[t] = "reply"
            BY <2>1, <2>2 DEF Request, Token
        <3> QED
            BY <1>b, <2>1, <2>5, <3>1 DEF BrowserHolds, LoginsEnd
    <2>8. ASSUME NEW x \in Logout PROVE LoggedOut(x)'
        <3>1. pc'[x] = pc[x] /\ given'[x] = given[x]
            BY <2>2, Kinds DEF Request
        <3>2. x \notin crossed' => x \notin crossed /\ pc[x] \notin {"write", "reply"}
            BY <2>1 DEF InFlight, SignOut
        <3>3. given[x] # None => origin[given[x]] \in Login
            BY <1>a DEF LoginsEnd, Request
        <3>4. LoggedOut(x)
            BY DEF LoginsEnd
        <3> QED
            BY <2>1, <2>4, <2>5, <3>1, <3>2, <3>3, <3>4 DEF LoggedOut
    <2> QED
        BY <2>2, <2>6, <2>7, <2>8, Kinds DEF LoginsEnd, Request
<1>4. ASSUME NEW u \in Token, SetRefreshCookie(u) PROVE LoginsEnd'
    <2>1. /\ pc[u] = "reply" /\ cookie' = u
          /\ UNCHANGED <<sessions, origin, given, forked, crossed, lost>>
        BY <1>4 DEF SetRefreshCookie
    <2>2. pc'[u] = "done" /\ \A q \in Request \ {u} : pc'[q] = pc[q]
        BY <1>4 DEF SetRefreshCookie, TypeOK, Request, Token
    <2>3. \A q \in Refresh, l \in Login : Rotating(q, l)' => Rotating(q, l)
        BY <2>1, <2>2 DEF Rotating, Request
    <2>4. \A l \in Login : Family(l)' = Family(l)
        BY <2>1 DEF Family
    <2>5. ASSUME NEW t \in Token PROVE SoleResponse(t)'
        BY <2>1, <2>2, <2>3, <2>4 DEF SoleResponse, LoginsEnd, Cookies, Request, Token
    <2>6. BrowserHolds'
        <3>1. SoleResponse(u) /\ origin[u] \in Login
            BY <2>1 DEF LoginsEnd, Cookies
        <3> QED
            BY <2>1, <2>4, <3>1 DEF BrowserHolds, SoleResponse
    <2>7. ASSUME NEW x \in Logout PROVE LoggedOut(x)'
        <3>1. pc'[x] = pc[x] /\ LoggedOut(x)
            BY <2>2, Kinds DEF LoginsEnd, Request, Token
        <3>2. given[x] # None => origin[given[x]] \in Login
            BY <1>a DEF LoginsEnd, Request
        <3> QED
            BY <2>1, <2>3, <2>4, <3>1, <3>2 DEF LoggedOut
    <2> QED
        BY <2>1, <2>5, <2>6, <2>7 DEF LoginsEnd
<1>5. ASSUME NEW y \in Logout, BeginLogout(y) PROVE LoginsEnd'
    <2>1. /\ pc[y] = "new"
          /\ crossed' = crossed \cup {y : t \in {s \in Token : InFlight(s)}}
          /\ UNCHANGED <<sessions, origin, cookie, forked, lost>>
        BY <1>5 DEF BeginLogout
    <2>2. /\ given'[y] = cookie /\ pc'[y] \in {"write", "denied"}
          /\ \A q \in Request \ {y} : pc'[q] = pc[q] /\ given'[q] = given[q]
        BY <1>5 DEF BeginLogout, TypeOK, Request
    <2>3. \A q \in Token : pc'[q] = pc[q] /\ given'[q] = given[q]
        BY <2>2, Kinds DEF Request, Token
    <2>4. \A q \in Refresh, l \in Login : Rotating(q, l)' => Rotating(q, l)
        BY <2>1, <2>3 DEF Rotating, Token
    <2>5. \A l \in Login : Family(l)' = Family(l)
        BY <2>1 DEF Family
    <2>6. ASSUME NEW t \in Token PROVE SoleResponse(t)'
        BY <2>1, <2>3, <2>4, <2>5 DEF SoleResponse, LoginsEnd, Cookies
    <2>7. BrowserHolds'
        BY <1>b, <2>1, <2>3, <2>5 DEF BrowserHolds, LoginsEnd
    <2>8. ASSUME NEW x \in Logout PROVE LoggedOut(x)'
        <3>1. CASE x = y
            <4>1. y \notin crossed' => \A t \in Token : pc[t] # "reply"
                BY <2>1 DEF InFlight
            <4>2. BrowserHolds
                BY DEF LoginsEnd
            <4> QED
                BY <1>b, <2>1, <2>2, <2>5, <3>1, <4>1, <4>2 DEF LoggedOut, BrowserHolds
        <3>2. CASE x # y
            <4>1. pc'[x] = pc[x] /\ given'[x] = given[x] /\ LoggedOut(x)
                BY <2>2, <3>2 DEF LoginsEnd, Request
            <4>2. given[x] # None => origin[given[x]] \in Login
                BY <1>a DEF LoginsEnd, Request
            <4> QED
                BY <2>1, <2>4, <2>5, <4>1, <4>2 DEF LoggedOut
        <3> QED
            BY <3>1, <3>2
    <2>9. \A x \in Logout : given'[x] \in Token \cup {None}
        BY <2>2 DEF LoginsEnd, TypeOK, Request
    <2> QED
        BY <2>6, <2>7, <2>8, <2>9 DEF LoginsEnd
<1>6. ASSUME NEW y \in Logout, DeleteSession(y) PROVE LoginsEnd'
    <2>1. /\ pc[y] = "write"
          /\ sessions' = sessions \ {given[y]}
          /\ UNCHANGED <<origin, cookie, given, forked, crossed, lost>>
        BY <1>6 DEF DeleteSession
    <2>2. pc'[y] = "reply" /\ \A q \in Request \ {y} : pc'[q] = pc[q]
        BY <1>6 DEF DeleteSession, TypeOK, Request
    <2>3. \A q \in Token : pc'[q] = pc[q]
        BY <2>2, Kinds DEF Request, Token
    <2>4. \A q \in Refresh, l \in Login : Rotating(q, l)' => Rotating(q, l)
        BY <2>1, <2>3 DEF Rotating, Token
    <2>5. \A l \in Login : (Family(l) \cap sessions)' = (Family(l) \cap sessions) \ {given[y]}
        BY <2>1 DEF Family
    <2>6. ASSUME NEW t \in Token PROVE SoleResponse(t)'
        BY <2>1, <2>3, <2>4, <2>5 DEF SoleResponse, LoginsEnd, Cookies
    <2>7. BrowserHolds'
        BY <1>b, <2>1, <2>3, <2>5 DEF BrowserHolds, LoginsEnd
    <2>8. ASSUME NEW x \in Logout PROVE LoggedOut(x)'
        <3>1. given[x] # None => origin[given[x]] \in Login
            BY <1>a DEF LoginsEnd, Request
        <3>2. LoggedOut(x)
            BY DEF LoginsEnd
        <3>3. CASE x = y
            <4>1. y \notin crossed => \A r \in Refresh : pc[r] # "write"
                BY <2>1 DEF Quiet, InFlight, SignOut, Token
            <4>2. y \notin crossed => \A r \in Refresh, l \in Login : ~Rotating(r, l)'
                BY <2>4, <4>1 DEF Rotating
            <4> QED
                BY <2>1, <2>2, <2>5, <3>1, <3>2, <3>3, <4>2 DEF LoggedOut
        <3>4. CASE x # y
            <4>1. pc'[x] = pc[x]
                BY <2>2, <3>4 DEF Request
            <4> QED
                BY <2>1, <2>4, <2>5, <3>1, <3>2, <4>1 DEF LoggedOut
        <3> QED
            BY <3>3, <3>4
    <2> QED
        BY <2>1, <2>6, <2>7, <2>8 DEF LoginsEnd
<1>7. ASSUME \/ \E h \in SignUp  : ReadEmail(h) \/ InsertUser(h)
             \/ \E h \in Login   : \E p \in Password : Authenticate(h, p)
             \/ \E x \in Logout  : ClearRefreshCookie(x)
             \/ \E x \in Removal : (\E p \in Password : BeginRemoval(x, p)) \/ ScheduleDeletion(x)
             \/ \E x \in Cancel  : RestoreAccount(x)
             \/ \E f \in Forgot  : RequestReset(f)
             \/ \E c \in Confirm : (\E f \in Forgot : ReadResetToken(c, f)) \/ SetPassword(c)
             \/ \E r \in Token \cup Logout : LoseResponse(r)
             \/ \E t \in Token \cup Forgot : Expire(t)
             \/ UNCHANGED vars
      PROVE  LoginsEnd'
    <2>1. /\ sessions' \subseteq sessions /\ origin' = origin
          /\ cookie' = cookie \/ cookie' = None
          /\ forked \subseteq forked' /\ crossed \subseteq crossed' /\ (lost => lost')
        BY <1>7 DEF ReadEmail, InsertUser, Authenticate, ClearRefreshCookie, BeginRemoval,
           ScheduleDeletion, RestoreAccount, RequestReset, ReadResetToken, SetPassword,
           LoseResponse, Expire, vars
    <2>2. /\ \A t \in Token : pc'[t] = "reply" => pc[t] = "reply"
          /\ \A t \in Token : pc[t] = "reply" => pc'[t] = "reply" \/ lost'
          /\ \A q \in Refresh : pc'[q] = "write" => pc[q] = "write"
          /\ \A q \in Token \cup Logout : given'[q] = given[q]
          /\ \A x \in Logout : pc'[x] = pc[x] \/ lost' \/ (pc[x] = "reply" /\ pc'[x] = "done")
        BY <1>7, Kinds DEF ReadEmail, InsertUser, Authenticate, ClearRefreshCookie, BeginRemoval,
           ScheduleDeletion, RestoreAccount, RequestReset, ReadResetToken, SetPassword,
           LoseResponse, Expire, vars, TypeOK, Request, Token
    <2>3. \A q \in Refresh, l \in Login : Rotating(q, l)' => Rotating(q, l)
        BY <2>1, <2>2 DEF Rotating, Token
    <2>4. \A l \in Login : (Family(l) \cap sessions)' \subseteq Family(l) \cap sessions
        BY <2>1 DEF Family
    <2>5. ASSUME NEW t \in Token PROVE SoleResponse(t)'
        BY <2>1, <2>2, <2>3, <2>4 DEF SoleResponse, LoginsEnd, Cookies
    <2>6. BrowserHolds'
        BY <1>b, <2>1, <2>2, <2>4 DEF BrowserHolds, LoginsEnd
    <2>7. ASSUME NEW x \in Logout PROVE LoggedOut(x)'
        <3>1. given[x] # None => origin[given[x]] \in Login
            BY <1>a DEF LoginsEnd, Request
        <3>2. LoggedOut(x) /\ given'[x] = given[x]
            BY <2>2 DEF LoginsEnd
        <3> QED
            BY <2>1, <2>2, <2>3, <2>4, <3>1, <3>2 DEF LoggedOut
    <2> QED
        BY <2>2, <2>5, <2>6, <2>7 DEF LoginsEnd
<1> QED
    BY <1>1, <1>2, <1>3, <1>4, <1>5, <1>6, <1>7 DEF Next

\* After a logout no session of that login is left or comes back, and an account to
\* be deleted has none, unless a login or refresh overlapped the sign-out
\* (auth_service.py:201-210, account_service.py:42).
THEOREM SignedOutForGood == Spec => []SignedOutStaysOut
<1>1. Init => Cookies /\ Quiet /\ LoginsEnd /\ Rotation
    BY Kinds DEF Init, Cookies, Quiet, LoginsEnd, SoleResponse, BrowserHolds, LoggedOut, Rotation,
       Family, Rotating, InFlight, Request, Token, SignOut
<1>2. Quiet /\ LoginsEnd => SignedOutStaysOut
    BY DEF Quiet, LoginsEnd, LoggedOut, SignedOutStaysOut
<1> QED
    BY <1>1, <1>2, InitTypes, NextTypes, NextRotation, NextCookies, NextQuiet, NextLoginsEnd,
       PTL DEF Spec
===========================================================================
