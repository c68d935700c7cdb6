--------------------------- MODULE MCOrchestrator ---------------------------
(* TLC instances of Orchestrator and CustomerFacts: two turns of a thread. *)
EXTENDS CustomerFacts

CONSTANTS r1, r2

MCRun2 == {r1, r2}

MCCallLists == {<<"risky">>, <<"escalation_agent", "risky">>}
=============================================================================
