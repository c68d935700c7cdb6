------------------------- MODULE MCKnowledgeBase -------------------------
(* TLC instances of KnowledgeBase: an upload, its retries and deletions. *)
EXTENDS KnowledgeBase, TLC

CONSTANTS u, q1, q2, d1

MCRetry1   == {q1}
MCRetry2   == {q1, q2}
MCDeleter1 == {d1}

Perms == Permutations(MCRetry2)
===========================================================================
