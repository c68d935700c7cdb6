--------------------------- MODULE MCApprovals ---------------------------
(* TLC instances of Approvals: operators, retries and a worker that dies. *)
EXTENDS ApprovalsRefinement, TLC

CONSTANTS h1, h2, h3

MCRequest3   == {h1, h2, h3}
MCRequest2   == {h1, h2}
MCKeyed1     == {h1}
RequestPerms == Permutations(MCRequest3)
===========================================================================
