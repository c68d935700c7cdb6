-------------------------- MODULE MCActionLedger --------------------------
(* TLC instances of ActionLedger: parallel and retried tool calls of a turn. *)
EXTENDS ActionLedgerRefinement

CONSTANTS a1, a2, a3

MCAttempt == {a1, a2, a3}

\* Which of the two actions is the first attempt's makes no difference.
FirstAttemptRefunds == req[a1] # NoRequest => req[a1].action = "issue_refund"
===========================================================================
