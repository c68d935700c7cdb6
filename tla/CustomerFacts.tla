--------------------------- MODULE CustomerFacts ---------------------------
(***************************************************************************)
(* What the agent remembers of a customer across conversations             *)
(* (load_memory and save_memory of support_system/root_agent/graph.py).    *)
(*                                                                         *)
(* A chat turn runs the graph on the customer's identifier.  The run loads *)
(* the stored facts first, and in its last node reads them again, has an   *)
(* LLM merge what the conversation adds, and puts the result over what is  *)
(* stored.  Runs of several conversations are threads of one process or    *)
(* more, and nothing locks the item between the read and the put.          *)
(*                                                                         *)
(* Customers share no item, so one stands for all.  The LLM may answer     *)
(* anything: add facts, leave some out, or answer no JSON at all.  Nothing *)
(* of a thread enters the item, so FactsSpec is about runs of any threads; *)
(* MemorySpec composes it with the graph of Orchestrator.                  *)
(***************************************************************************)
EXTENDS Orchestrator

CONSTANT Fact   \* what an item can hold

VARIABLES
    facts,     \* the item of the customer; no item is no fact
    at,        \* where each run stands
    context,   \* its customer_context
    existing,  \* existing_facts its save_memory has read
    put,       \* history: what it has put
    crossed,   \* history: pairs of runs that were in save_memory at once
    dropped    \* history: facts a merge was shown and left out since the last
               \* put that had them

factsVars == <<facts, at, context, existing, put, crossed, dropped>>

Where == {"new", "loaded", "saving", "saved", "skipped", "raised"}

FactsTypeOK ==
    /\ facts \subseteq Fact
    /\ at \in [Run -> Where]
    /\ context \in [Run -> SUBSET Fact]
    /\ existing \in [Run -> SUBSET Fact]
    /\ put \in [Run -> SUBSET Fact]
    /\ crossed \subseteq Run \X Run
    /\ dropped \subseteq Fact

FactsInit ==
    /\ facts = {}
    /\ at = [t \in Run |-> "new"]
    /\ context = [t \in Run |-> {}]
    /\ existing = [t \in Run |-> {}]
    /\ put = [t \in Run |-> {}]
    /\ crossed = {}
    /\ dropped = {}

Saving == {t \in Run : at[t] = "saving"}

Become(t, s) == at' = [at EXCEPT ![t] = s]

LoadFacts(t) ==
    /\ at[t] = "new"
    /\ context' = [context EXCEPT ![t] = facts]
    /\ Become(t, "loaded")
    /\ UNCHANGED <<facts, existing, put, crossed, dropped>>

\* Mutant: what load_memory loaded is merged.
ReadFactsFromContext(t) ==
    /\ at[t] = "loaded"
    /\ existing' = [existing EXCEPT ![t] = context[t]]
    /\ crossed' = crossed \cup ({t} \X Saving) \cup (Saving \X {t})
    /\ Become(t, "saving")
    /\ UNCHANGED <<facts, context, put, dropped>>

\* save_memory, up to the call of the LLM.
ReadFacts(t) ==
    /\ at[t] = "loaded"
    /\ existing' = [existing EXCEPT ![t] = facts]
    /\ crossed' = crossed \cup ({t} \X Saving) \cup (Saving \X {t})
    /\ Become(t, "saving")
    /\ UNCHANGED <<facts, context, put, dropped>>

\* The LLM answers new; the state is updated unless the put raises all the same.
PutFacts(t, new) ==
    /\ at[t] = "saving"
    /\ facts' = new
    /\ put' = [put EXCEPT ![t] = new]
    /\ dropped' = (dropped \cup existing[t]) \ new
    /\ context' \in {context, [context EXCEPT ![t] = new]}
    /\ Become(t, "saved")
    /\ UNCHANGED <<existing, crossed>>

\* The LLM or the store raises, or the answer is no JSON: nothing is put.
SkipPut(t) ==
    /\ at[t] = "saving"
    /\ Become(t, "skipped")
    /\ UNCHANGED <<facts, context, existing, put, crossed, dropped>>

\* The run raises before save_memory, or its get or build_model does, which stand
\* outside the try; or it is interrupted, or its process dies.
LeaveGraph(t) ==
    /\ at[t] \in {"new", "loaded", "saving"}
    /\ Become(t, "raised")
    /\ UNCHANGED <<facts, context, existing, put, crossed, dropped>>

FactsNext ==
    \E t \in Run :
        \/ LoadFacts(t) \/ ReadFacts(t)
        \/ \E new \in SUBSET Fact : PutFacts(t, new)
        \/ SkipPut(t) \/ LeaveGraph(t)

FactsSpec == FactsInit /\ [][FactsNext]_factsVars

---------------------------------------------------------------------------
(* The graph with its memory *)

memoryVars == <<vars, factsVars>>

\* A run that ends before its graph does is not in save_memory any more.
Abandon(t) ==
    IF at[t] \in {"saved", "skipped"} THEN UNCHANGED factsVars ELSE LeaveGraph(t)

\* A step of node save_memory, before it returns.
Remember(t) ==
    /\ node[t] = "save_memory"
    /\ ReadFacts(t) \/ SkipPut(t) \/ \E new \in SUBSET Fact : PutFacts(t, new)
    /\ UNCHANGED vars

MemoryNext ==
    \E t \in Run :
        \/ LoadMemory(t) /\ LoadFacts(t)
        \/ Remember(t)
        \/ at[t] \in {"saved", "skipped"} /\ SaveMemory(t) /\ UNCHANGED factsVars
        \/ /\ \/ GuardrailRaises(t) \/ ToolsStop(t)
              \/ RunRaises(t) \/ Crash(t)
           /\ Abandon(t)
        \/ /\ \/ Start(t) \/ PruneMessages(t) \/ OrchestratorAgent(t)
              \/ GuardrailCheck(t) \/ ExecuteTools(t) \/ Synthesise(t)
              \/ \E j \in DOMAIN outcome[t], how \in {"answered", "raised", "interrupted"} :
                    ToolEnds(t, j, how)
           /\ UNCHANGED factsVars

MemoryInit == Init /\ FactsInit

MemorySpec == MemoryInit /\ [][MemoryNext]_memoryVars

---------------------------------------------------------------------------
(* Properties *)

\* A put has replaced another one that had the fact, made while both runs were in
\* save_memory.
Overwritten(f) ==
    \E t, u \in Run :
        /\ <<t, u>> \in crossed /\ at[t] = "saved" /\ at[u] = "saved"
        /\ f \in put[t] \ put[u]

\* A fact that was stored and is gone was left out by a merge that had been shown
\* it, or two runs were in save_memory at once (graph.py:78 and 105) and one put
\* replaced what the other had added: what a run loaded at its start is never
\* written back over what others have stored since.
LostFactNeedsOverlap ==
    \A t \in Run : \A f \in put[t] \ facts : f \in dropped \/ Overwritten(f)
===========================================================================
