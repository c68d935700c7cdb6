\* One user: two sign-ups, a login, three refreshes, and what ends a session.
SPECIFICATION Spec
CONSTANTS
    g1 = g1
    g2 = g2
    l1 = l1
    r1 = r1
    r2 = r2
    r3 = r3
    x1 = x1
    x2 = x2
    k1 = k1
    f1 = f1
    c1 = c1
    c2 = c2
    None = None
    SignUp <- MCSignUp
    Login <- MCLogin
    Refresh <- MCRefresh
    Logout <- MCLogout
    Removal <- MCRemoval
    Cancel <- MCCancel
    Forgot <- MCForgot
    Confirm <- MCConfirm
SYMMETRY Perms
INVARIANTS
    OneSessionPerLogin
    ResetTokenUsedOnce
    CookieWorks
    SignedOutStaysOut
CHECK_DEADLOCK FALSE
