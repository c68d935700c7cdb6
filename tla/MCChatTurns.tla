--------------------------- MODULE MCChatTurns ---------------------------
(* TLC instances of ChatTurns: retries and sockets. *)
EXTENDS ChatTurnsRefinement, TLC

CONSTANTS r1, r2, r3, s1, s2

MCRequest3 == {r1, r2, r3}
MCSocket2  == {s1, s2}

SocketPerms == Permutations(MCSocket2)
===========================================================================
