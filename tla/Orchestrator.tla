---------------------------- MODULE Orchestrator ----------------------------
(***************************************************************************)
(* The root agent's graph (support_system/root_agent/graph.py) on one      *)
(* thread.  A run is one invocation of the graph for one customer message: *)
(* it loads the thread's latest checkpoint, appends the message, and loops *)
(* through prune_messages, orchestrator_agent, guardrail_check and         *)
(* execute_tools until the LLM calls no tool.  Every node boundary writes  *)
(* a checkpoint, and nothing keeps two runs of a thread apart.             *)
(*                                                                         *)
(* Messages keep their order, their kind and the calls they make or        *)
(* answer; contents are left out.  The LLM and the subagents are free in   *)
(* what they say.  A tool is named "risky" when it is a call of            *)
(* action_agent whose params validate_action rates HIGH.                   *)
(***************************************************************************)
EXTENDS Integers, Sequences, FiniteSets

CONSTANTS
    Run,            \* invocations of the graph on this thread
    CallLists,      \* what the LLM may put into tool_calls of one message
    MAX_MESSAGES,   \* messages that prune_messages keeps
    MaxRounds       \* LLM calls before LangGraph's recursion limit

Tool == {"retrieval_agent", "action_agent", "risky", "escalation_agent"}

ASSUME CallListsAssumption == CallLists \subseteq Seq(Tool) \ {<<>>}
ASSUME BoundsAssumption == MAX_MESSAGES \in Nat \ {0} /\ MaxRounds \in Nat \ {0}
\* The calls of one LLM response are bounded, as the response is.
ASSUME LongestAssumption == \E list \in CallLists : \A other \in CallLists : Len(other) <= Len(list)

VARIABLES
    messages,    \* the state a run carries from node to node
    checkpoint,  \* the messages of the thread's latest checkpoint
    node,        \* the next node of a run, or how the run ended
    rounds,      \* calls of orchestrator_agent so far
    outcome,     \* of the tool calls execute_tools is running
    performed,   \* calls of action_agent that took effect (history)
    cut          \* runs that were open or had failed when another one started (history)

vars == <<messages, checkpoint, node, rounds, outcome, performed, cut>>

Nodes    == {"load_memory", "prune_messages", "orchestrator_agent", "guardrail_check",
             "execute_tools", "synthesise", "save_memory"}
Failed   == {"raised", "frozen", "dead"}
IsAction(tool) == tool \in {"action_agent", "risky"}

Human(r)       == [kind |-> "human", run |-> r, round |-> 0, calls |-> <<>>, call |-> 0]
AI(r, k, list) == [kind |-> "ai", run |-> r, round |-> k, calls |-> list, call |-> 0]
Answer(r, k, j) == [kind |-> "tool", run |-> r, round |-> k, calls |-> <<>>, call |-> j]

Last(r) == messages[r][Len(messages[r])]

----------------------------------------------------------------------------

Init ==
    /\ messages = [r \in Run |-> <<>>]
    /\ checkpoint = <<>>
    /\ node = [r \in Run |-> "new"]
    /\ rounds = [r \in Run |-> 0]
    /\ outcome = [r \in Run |-> <<>>]
    /\ performed = {}
    /\ cut = {}

\* A node has returned: the run goes on with its state, which is the thread's
\* latest checkpoint now.
Proceed(r, history, next) ==
    /\ messages' = [messages EXCEPT ![r] = history]
    /\ checkpoint' = history
    /\ node' = [node EXCEPT ![r] = next]

\* process_chat_turn invokes the graph: the latest checkpoint, whatever state
\* its run is in, with the customer's message.
Start(r) ==
    /\ node[r] = "new"
    /\ Proceed(r, Append(checkpoint, Human(r)), "load_memory")
    /\ cut' = cut \cup {a \in Run : node[a] \notin {"new", "done"}}
    /\ UNCHANGED <<rounds, outcome, performed>>

LoadMemory(r) ==
    /\ node[r] = "load_memory"
    /\ Proceed(r, messages[r], "prune_messages")
    /\ UNCHANGED <<rounds, outcome, performed, cut>>

\* Mutant: a boundary that may fall between a call and its answers.
BoundaryPlain(history) ==
    IF Len(history) <= MAX_MESSAGES THEN 0 ELSE Len(history) - MAX_MESSAGES

\* Mutant: walks forward, over the answers.
BoundaryForward(history) ==
    LET cuts == {d \in (Len(history) - MAX_MESSAGES) .. Len(history) :
                     d = Len(history) \/ history[d + 1].kind # "tool"}
    IN  IF Len(history) <= MAX_MESSAGES THEN 0
        ELSE CHOOSE d \in cuts : \A e \in cuts : d <= e

\* How many messages go: all but the last MAX_MESSAGES, fewer when the first
\* one that stays would be a tool's answer.
Boundary(history) ==
    LET cuts == {d \in 0 .. (Len(history) - MAX_MESSAGES) :
                     d = 0 \/ history[d + 1].kind # "tool"}
    IN  IF Len(history) <= MAX_MESSAGES THEN 0
        ELSE CHOOSE d \in cuts : \A e \in cuts : e <= d

Pruned(history) == SubSeq(history, Boundary(history) + 1, Len(history))

PruneMessages(r) ==
    /\ node[r] = "prune_messages"
    /\ Proceed(r, Pruned(messages[r]), "orchestrator_agent")
    /\ UNCHANGED <<rounds, outcome, performed, cut>>

\* The LLM calls tools, or it replies; should_call_tools routes.
OrchestratorAgent(r) ==
    /\ node[r] = "orchestrator_agent"
    /\ rounds[r] < MaxRounds
    /\ rounds' = [rounds EXCEPT ![r] = @ + 1]
    /\ \E list \in CallLists \cup {<<>>} :
          Proceed(r, Append(messages[r], AI(r, rounds[r] + 1, list)),
                  IF list = <<>> THEN "synthesise" ELSE "guardrail_check")
    /\ UNCHANGED <<outcome, performed, cut>>

\* Mutant: validate_action is given the wrong dictionary and rates it LOW.
InterceptedNever(list) == FALSE

\* The first call of the message is the only one looked at.
Intercepted(list) == list[1] = "risky"

GuardrailCheck(r) ==
    /\ node[r] = "guardrail_check"
    /\ ~Intercepted(Last(r).calls)
    /\ Proceed(r, messages[r], "execute_tools")
    /\ outcome' = [outcome EXCEPT ![r] = [j \in DOMAIN Last(r).calls |-> "running"]]
    /\ UNCHANGED <<rounds, performed, cut>>

\* EscalationRequest requires conversation_id and workspace_id, which the
\* guardrail does not pass: building it raises a ValidationError.
GuardrailRaises(r) ==
    /\ node[r] = "guardrail_check"
    /\ Intercepted(Last(r).calls)
    /\ node' = [node EXCEPT ![r] = "raised"]
    /\ UNCHANGED <<messages, checkpoint, rounds, outcome, performed, cut>>

\* The calls of a message run in parallel.  One answers, raises (ToolNode only
\* turns invalid arguments into an answer), or is the escalation agent's
\* interrupt(); a call of action_agent may take effect in either way.
ToolEnds(r, j, how) ==
    /\ node[r] = "execute_tools"
    /\ j \in DOMAIN outcome[r]
    /\ outcome[r][j] = "running"
    /\ how = "interrupted" => Last(r).calls[j] = "escalation_agent"
    /\ outcome' = [outcome EXCEPT ![r][j] = how]
    /\ performed' \in IF IsAction(Last(r).calls[j])
                      THEN {performed, performed \cup {[run |-> r, round |-> rounds[r], call |-> j,
                                                    tool |-> Last(r).calls[j]]}}
                      ELSE {performed}
    /\ UNCHANGED <<messages, checkpoint, node, rounds, cut>>

Settled(r) == \A j \in DOMAIN outcome[r] : outcome[r][j] # "running"
Broken(r)  == {j \in DOMAIN outcome[r] : outcome[r][j] \in {"raised", "interrupted"}}

\* Mutant: goes on with the answers there are.
ExecuteToolsPartly(r) ==
    /\ node[r] = "execute_tools"
    /\ Settled(r)
    /\ \E answers \in {SelectSeq([j \in DOMAIN outcome[r] |-> Answer(r, rounds[r], j)],
                                 LAMBDA m : m.call \notin Broken(r))} :
          Proceed(r, messages[r] \o answers, "prune_messages")
    /\ outcome' = [outcome EXCEPT ![r] = <<>>]
    /\ UNCHANGED <<rounds, performed, cut>>

\* All have answered: the answers are appended in the order of the calls.
ExecuteTools(r) ==
    /\ node[r] = "execute_tools"
    /\ Settled(r) /\ Broken(r) = {}
    /\ Proceed(r, messages[r] \o [j \in DOMAIN outcome[r] |-> Answer(r, rounds[r], j)],
               "prune_messages")
    /\ outcome' = [outcome EXCEPT ![r] = <<>>]
    /\ UNCHANGED <<rounds, performed, cut>>

\* The first call in order that did not answer decides how the run stops; what
\* the others have answered is lost.
ToolsStop(r) ==
    /\ node[r] = "execute_tools"
    /\ Settled(r)
    /\ \E j \in Broken(r) :
          /\ \A k \in Broken(r) : j <= k
          /\ node' = [node EXCEPT ![r] = IF outcome[r][j] = "raised" THEN "raised" ELSE "frozen"]
    /\ UNCHANGED <<messages, checkpoint, rounds, outcome, performed, cut>>

Synthesise(r) ==
    /\ node[r] = "synthesise"
    /\ Proceed(r, Append(messages[r], AI(r, rounds[r] + 1, <<>>)), "save_memory")
    /\ UNCHANGED <<rounds, outcome, performed, cut>>

SaveMemory(r) ==
    /\ node[r] = "save_memory"
    /\ Proceed(r, messages[r], "done")
    /\ UNCHANGED <<rounds, outcome, performed, cut>>

\* Whatever the node: the store, the LLM or the checkpointer fails, or the
\* recursion limit is reached (the only way on from the last round).
RunRaises(r) ==
    /\ node[r] \in Nodes
    /\ node' = [node EXCEPT ![r] = "raised"]
    /\ UNCHANGED <<messages, checkpoint, rounds, outcome, performed, cut>>

\* The process dies; the checkpoints stay.
Crash(r) ==
    /\ node[r] \in Nodes
    /\ node' = [node EXCEPT ![r] = "dead"]
    /\ UNCHANGED <<messages, checkpoint, rounds, outcome, performed, cut>>

Step(r) ==
    \/ LoadMemory(r) \/ PruneMessages(r) \/ OrchestratorAgent(r)
    \/ GuardrailCheck(r) \/ GuardrailRaises(r)
    \/ \E j \in DOMAIN outcome[r], how \in {"answered", "raised", "interrupted"} :
          ToolEnds(r, j, how)
    \/ ExecuteTools(r) \/ ToolsStop(r)
    \/ Synthesise(r) \/ SaveMemory(r) \/ RunRaises(r)

Next == \E r \in Run : Start(r) \/ Step(r) \/ Crash(r)

Spec == Init /\ [][Next]_vars

----------------------------------------------------------------------------
(* Properties *)

Longest == CHOOSE n \in {Len(list) : list \in CallLists} :
               \A list \in CallLists : Len(list) <= n

Message ==
    [kind : {"human", "ai", "tool"}, run : Run, round : 0 .. (MaxRounds + 1),
     calls : CallLists \cup {<<>>}, call : 0 .. Longest]

\* Every variable has its type.
TypeOK ==
    /\ messages \in [Run -> Seq(Message)]
    /\ checkpoint \in Seq(Message)
    /\ node \in [Run -> Nodes \cup Failed \cup {"new", "done"}]
    /\ rounds \in [Run -> 0 .. MaxRounds]
    /\ outcome \in [Run -> Seq({"running", "answered", "raised", "interrupted"})]
    /\ performed \subseteq [run : Run, round : 1 .. MaxRounds, call : 1 .. Longest, tool : Tool]
    /\ cut \subseteq Run

SameRound(m, n) == m.run = n.run /\ m.round = n.round

\* The message at i of the history is an answer of the call message at k.
Answers(history, k, i) ==
    /\ k < i
    /\ history[k].kind = "ai"
    /\ \A m \in (k + 1) .. i : history[m].kind = "tool" /\ SameRound(history[m], history[k])

\* However often the history is pruned, and whatever checkpoint a run starts
\* from, a tool's answer stands behind the message that called the tool, with
\* nothing but answers of the same message in between (prune_messages,
\* execute_and_record).
NoOrphanAnswer ==
    \A history \in {messages[r] : r \in Run} \cup {checkpoint} :
        \A i \in DOMAIN history :
            history[i].kind = "tool" => \E k \in 1 .. i : Answers(history, k, i)

Unanswered(history, k) ==
    \E j \in DOMAIN history[k].calls :
        ~ \E i \in DOMAIN history : history[i].call = j /\ Answers(history, k, i)

\* A run never carries a call of its own without its answers beyond
\* execute_tools, and finds one in its history only when the run that made the
\* call had failed, or was still on its way, when a later run started: the LLM
\* is given a broken history for no other reason.
UnansweredNeedsCutRun ==
    \A r \in Run : \A k \in DOMAIN messages[r] :
        Unanswered(messages[r], k) =>
            IF messages[r][k].run = r
            THEN /\ k = Len(messages[r])
                 /\ node[r] \in {"guardrail_check", "execute_tools"} \cup Failed
            ELSE messages[r][k].run \in cut

\* However many turns and rounds there are, pruning keeps the prompt bounded
\* (walking back keeps at most the answers of one message more), and the LLM is
\* asked without the customer's message of this very turn only after the turn's
\* own tool calls have filled all that is kept.
QuestionLostByLongTurn ==
    \A r \in Run : node[r] = "orchestrator_agent" =>
        /\ Len(messages[r]) <= MAX_MESSAGES + Longest
        /\ \/ \E i \in DOMAIN messages[r] : messages[r][i] = Human(r)
           \/ /\ Len(messages[r]) >= MAX_MESSAGES
              /\ \A i \in DOMAIN messages[r] : messages[r][i].run = r

\* guardrail_check lets a risky action through only in the company of an
\* earlier call of the same message.
RiskyOnlyBehindAnother ==
    \A c \in performed : c.tool = "risky" => c.call > 1
=============================================================================
