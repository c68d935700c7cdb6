--------------------------- MODULE MCWorkspaces ---------------------------
(* TLC instance of Workspaces: a has an account, b may be invited. *)
EXTENDS Workspaces

CONSTANTS w1, w2, a, b, s1, s2

MCWorkspace  == {w1, w2}
MCUser       == {a, b}
MCRegistered == {a}
MCSlot       == {s1, s2}
===========================================================================
