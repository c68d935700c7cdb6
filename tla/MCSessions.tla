---------------------------- MODULE MCSessions ----------------------------
(* TLC instance of Sessions: the requests of one user. *)
EXTENDS Sessions, TLC

CONSTANTS g1, g2, l1, r1, r2, r3, x1, x2, k1, f1, c1, c2

MCSignUp  == {g1, g2}
MCLogin   == {l1}
MCRefresh == {r1, r2, r3}
MCLogout  == {x1}
MCRemoval == {x2}
MCCancel  == {k1}
MCForgot  == {f1}
MCConfirm == {c1, c2}

Perms == Permutations(MCSignUp) \cup Permutations(MCRefresh) \cup Permutations(MCConfirm)
===========================================================================
