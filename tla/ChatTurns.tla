---------------------------- MODULE ChatTurns ----------------------------
(***************************************************************************)
(* Chat turns of one conversation (backend/services/chat_service.py,       *)
(* backend/api/routers/chat.py, backend/api/routers/ws_chat.py and         *)
(* backend/api/ws_manager.py).                                             *)
(*                                                                         *)
(* A customer message arrives as an HTTP request, optionally with an       *)
(* Idempotency-Key, or over a WebSocket.  Its handler counts the turns,    *)
(* inserts the customer's turn at that index, runs the agent graph on the  *)
(* conversation's checkpoint and inserts the agent's turn at the next      *)
(* index.  Every await is a point where other handlers run, so each        *)
(* database, Redis or graph call is a step of its own.                     *)
(*                                                                         *)
(* Conversations do not share rows, so one stands for all.  A message is a *)
(* user action; the requests that carry it are its retries and share its   *)
(* key.  The graph is external here: it may prune, answer or raise, and all *)
(* that is kept of the checkpoint is the set of messages it remembers.     *)
(***************************************************************************)
EXTENDS Integers, Sequences

CONSTANTS
    Request,        \* HTTP requests
    Socket,         \* WebSocket connections
    Message,        \* user actions
    KeyedMessage,   \* those sent with an Idempotency-Key
    Nobody          \* no socket is registered

ASSUME ChatTurnsAssumption ==
    /\ Request \cap Socket = {}
    /\ KeyedMessage \subseteq Message
    /\ Nobody \notin Socket
    /\ Message # {}

Handler == Request \cup Socket

\* Values of a Redis idempotency key other than a cached response, which is
\* represented by the index of the turn it returns.
Absent     == -1
InProgress == -2

VARIABLES
    status,      \* conversations.status
    turns,       \* rows of conversation_turns, in the order of their inserts
    memory,      \* messages in the latest checkpoint of the thread
    cache,       \* idemp:chat:<key>, by keyed message
    registered,  \* the socket in ConnectionManager.active_connections
    pc,          \* where each handler stands
    msg,         \* the message it handles
    sent,        \* history: the messages a handler was given
    idx,         \* its turn_index
    seen,        \* the messages its graph run knows of
    reply,       \* the outcome of its last message
    answer,      \* the turn that outcome refers to
    poisoned,    \* sockets whose database session awaits a rollback
    pruned,      \* history: messages some run has pruned
    expired      \* history: keys that Redis has expired

store    == <<status, turns, memory, cache, registered>>
handlers == <<pc, msg, sent, idx, seen, reply, answer, poisoned>>
history  == <<pruned, expired>>
vars     == <<store, handlers, history>>

Turn == [index : Nat, role : {"customer", "agent"}, by : Handler, msg : Message]

Control == {"new", "get", "setnx", "check", "ready", "count", "customer",
            "config", "graph", "agent", "respond", "return", "fail", "done"}
Reply   == {"none", "ok", "cached", "conflict", "refused", "error", "lost"}

\* A handler in one of these owns the key of its message.
Holding == {"check", "count", "customer", "config", "graph", "agent",
            "respond", "return", "fail"}

Keyed(h) == h \in Request /\ msg[h] \in KeyedMessage
Holds(h) == Keyed(h) /\ pc[h] \in Holding

TypeOK ==
    /\ status \in {"open", "closed"}
    /\ turns \in Seq(Turn)
    /\ memory \subseteq Message
    /\ cache \in [KeyedMessage -> Nat \cup {Absent, InProgress}]
    /\ registered \in Socket \cup {Nobody}
    /\ pc \in [Handler -> Control]
    /\ msg \in [Handler -> Message]
    /\ \A h \in Handler : pc[h] \in {"get", "setnx"} => Keyed(h)
    /\ sent \in [Handler -> SUBSET Message]
    /\ idx \in [Handler -> Nat]
    /\ seen \in [Handler -> SUBSET Message]
    /\ reply \in [Handler -> Reply]
    /\ answer \in [Handler -> Nat \cup {Absent}]
    /\ poisoned \subseteq Socket
    /\ pruned \subseteq Message
    /\ expired \subseteq KeyedMessage

---------------------------------------------------------------------------

Goto(h, l) == pc' = [pc EXCEPT ![h] = l]

\* A request ends with a response; a socket goes on with its next message.
Rest(h) == IF h \in Socket THEN "ready" ELSE "done"
Finish(h, r, i) ==
    /\ Goto(h, Rest(h))
    /\ reply' = [reply EXCEPT ![h] = r]
    /\ answer' = [answer EXCEPT ![h] = i]

SetKey(h, v) == cache' = [cache EXCEPT ![msg[h]] = v]

Init ==
    /\ status = "open"
    /\ turns = << >>
    /\ memory = {}
    /\ cache = [k \in KeyedMessage |-> Absent]
    /\ registered = Nobody
    /\ pc = [h \in Handler |-> "new"]
    /\ msg = [h \in Handler |-> CHOOSE m \in Message : TRUE]
    /\ sent = [h \in Handler |-> {}]
    /\ idx = [h \in Handler |-> 0]
    /\ seen = [h \in Handler |-> {}]
    /\ reply = [h \in Handler |-> "none"]
    /\ answer = [h \in Handler |-> Absent]
    /\ poisoned = {}
    /\ pruned = {}
    /\ expired = {}

---------------------------------------------------------------------------
(* HTTP: POST .../chat *)

Submit(h, m) ==
    /\ h \in Request
    /\ pc[h] = "new"
    /\ msg' = [msg EXCEPT ![h] = m]
    /\ sent' = [sent EXCEPT ![h] = {m}]
    /\ Goto(h, IF m \in KeyedMessage THEN "get" ELSE "check")
    /\ UNCHANGED <<store, idx, seen, reply, answer, poisoned, history>>

\* A cached response is returned as it is, a key in progress is a conflict.
GetKey(h) ==
    /\ pc[h] = "get"
    /\ LET cached == cache[msg[h]] IN
          \/ /\ cached = Absent
             /\ Goto(h, "setnx")
             /\ UNCHANGED <<reply, answer>>
          \/ /\ cached = InProgress
             /\ Finish(h, "conflict", Absent)
          \/ /\ cached \notin {Absent, InProgress}
             /\ Finish(h, "cached", cached)
    /\ UNCHANGED <<store, msg, sent, idx, seen, poisoned, history>>

\* Mutant: the SET has lost its NX.
AcquireKeyPlainSet(h) ==
    /\ pc[h] = "setnx"
    /\ SetKey(h, InProgress)
    /\ Goto(h, "check")
    /\ UNCHANGED <<status, turns, memory, registered, msg, sent, idx, seen,
                   reply, answer, poisoned, history>>

\* Mutant: the SET NX has moved into the try block.
AcquireKeyInTry(h) ==
    /\ pc[h] = "setnx"
    /\ \/ /\ cache[msg[h]] = Absent
          /\ SetKey(h, InProgress)
          /\ Goto(h, "check")
       \/ /\ cache[msg[h]] # Absent
          /\ Goto(h, "fail")
          /\ UNCHANGED cache
    /\ UNCHANGED <<status, turns, memory, registered, msg, sent, idx, seen, reply,
                   answer, poisoned, history>>

\* SET key in_progress NX EX 86400
AcquireKey(h) ==
    /\ pc[h] = "setnx"
    /\ \/ /\ cache[msg[h]] = Absent
          /\ SetKey(h, InProgress)
          /\ Goto(h, "check")
          /\ UNCHANGED <<reply, answer>>
       \/ /\ cache[msg[h]] # Absent
          /\ Finish(h, "conflict", Absent)
          /\ UNCHANGED cache
    /\ UNCHANGED <<status, turns, memory, registered, msg, sent, idx, seen,
                   poisoned, history>>

\* The 404 and the 400 are raised outside the try block: the key stays.
CheckConversation(h) ==
    /\ pc[h] = "check"
    /\ \/ /\ status = "open"
          /\ Goto(h, "count")
          /\ UNCHANGED <<reply, answer>>
       \/ /\ status # "open"
          /\ Finish(h, "refused", Absent)
    /\ UNCHANGED <<store, msg, sent, idx, seen, poisoned, history>>

---------------------------------------------------------------------------
(* WebSocket: .../ws *)

\* The conversation is looked at once, when the socket is accepted.
Connect(h) ==
    /\ h \in Socket
    /\ pc[h] = "new"
    /\ IF status = "open"
       THEN Goto(h, "ready") /\ registered' = h
       ELSE Goto(h, "done") /\ UNCHANGED registered
    /\ UNCHANGED <<status, turns, memory, cache, msg, sent, idx, seen, reply,
                   answer, poisoned, history>>

\* A message frame; each message once per socket.
Receive(h, m) ==
    /\ h \in Socket
    /\ pc[h] = "ready"
    /\ m \notin sent[h]
    /\ msg' = [msg EXCEPT ![h] = m]
    /\ sent' = [sent EXCEPT ![h] = @ \cup {m}]
    /\ Goto(h, "count")
    /\ UNCHANGED <<store, idx, seen, reply, answer, poisoned, history>>

\* Mutant: the registration outlives the socket.
DisconnectQuietly(h) ==
    /\ h \in Socket
    /\ pc[h] \in {"ready", "count", "graph", "respond", "fail"}
    /\ Goto(h, "done")
    /\ UNCHANGED <<store, msg, sent, idx, seen, reply, answer, poisoned, history>>

\* The peer goes away, noticed while the handler receives or sends.  Whatever
\* socket is registered for the conversation is removed.
Disconnect(h) ==
    /\ h \in Socket
    /\ pc[h] \in {"ready", "count", "graph", "respond", "fail"}
    /\ Goto(h, "done")
    /\ registered' = Nobody
    /\ UNCHANGED <<status, turns, memory, cache, msg, sent, idx, seen, reply,
                   answer, poisoned, history>>

---------------------------------------------------------------------------
(* process_chat_turn and process_chat_turn_streaming *)

\* turn_index = number of rows.
CountTurns(h) ==
    /\ pc[h] = "count"
    /\ h \notin poisoned
    /\ idx' = [idx EXCEPT ![h] = Len(turns)]
    /\ Goto(h, "customer")
    /\ UNCHANGED <<store, msg, sent, seen, reply, answer, poisoned, history>>

\* Mutant: the unique constraint is dropped.
IndexUnchecked(i) == TRUE

\* uix_conversation_turn_index
IndexFree(i) == \A n \in 1..Len(turns) : turns[n].index # i

InsertTurn(i, who, h) ==
    turns' = Append(turns, [index |-> i, role |-> who, by |-> h, msg |-> msg[h]])

InsertCustomerTurn(h) ==
    /\ pc[h] = "customer"
    /\ IndexFree(idx[h])
    /\ InsertTurn(idx[h], "customer", h)
    /\ Goto(h, "config")
    /\ UNCHANGED <<status, memory, cache, registered, msg, sent, idx, seen,
                   reply, answer, poisoned, history>>

\* Mutant: the graph has no checkpointer to load from.
StartGraphAfresh(h) ==
    /\ pc[h] = "config"
    /\ memory' = {msg[h]}
    /\ seen' = [seen EXCEPT ![h] = {msg[h]}]
    /\ Goto(h, "graph")
    /\ UNCHANGED <<status, turns, cache, registered, msg, sent, idx, reply,
                   answer, poisoned, history>>

\* build_agent_config is done; the graph loads the latest checkpoint of the
\* thread and writes its input to a new one.
StartGraph(h) ==
    /\ pc[h] = "config"
    /\ memory' = memory \cup {msg[h]}
    /\ seen' = [seen EXCEPT ![h] = memory \cup {msg[h]}]
    /\ Goto(h, "graph")
    /\ UNCHANGED <<status, turns, cache, registered, msg, sent, idx, reply,
                   answer, poisoned, history>>

\* Node prune_messages has found more than MAX_MESSAGES messages: the oldest ones
\* are removed, however many turns they come from, but never the run's own.
GraphPrunes(h) ==
    /\ pc[h] = "graph"
    /\ \E old \in SUBSET (seen[h] \ {msg[h]}) :
          /\ old # {}
          /\ seen' = [seen EXCEPT ![h] = @ \ old]
          /\ memory' = seen[h] \ old
          /\ pruned' = pruned \cup old
    /\ UNCHANGED <<status, turns, cache, registered, pc, msg, sent, idx, reply, answer,
                   poisoned, expired>>

\* A node of the run is done: its checkpoint becomes the latest of the thread.
GraphCheckpoints(h) ==
    /\ pc[h] = "graph"
    /\ memory' = seen[h]
    /\ UNCHANGED <<status, turns, cache, registered, handlers, history>>

\* Mutant: the agent's turn is not stored.
GraphAnswersOnly(h) ==
    /\ pc[h] = "graph"
    /\ memory' = seen[h]
    /\ Goto(h, "respond")
    /\ UNCHANGED <<status, turns, cache, registered, msg, sent, idx, seen,
                   reply, answer, poisoned, history>>

\* So does the run's last checkpoint.
GraphAnswers(h) ==
    /\ pc[h] = "graph"
    /\ memory' = seen[h]
    /\ Goto(h, "agent")
    /\ UNCHANGED <<status, turns, cache, registered, msg, sent, idx, seen,
                   reply, answer, poisoned, history>>

\* Mutant: the index is counted again after the graph's run.
InsertAgentTurnRecounts(h) ==
    /\ pc[h] = "agent"
    /\ InsertTurn(Len(turns), "agent", h)
    /\ Goto(h, "respond")
    /\ UNCHANGED <<status, memory, cache, registered, msg, sent, idx, seen,
                   reply, answer, poisoned, history>>

InsertAgentTurn(h) ==
    /\ pc[h] = "agent"
    /\ IndexFree(idx[h] + 1)
    /\ InsertTurn(idx[h] + 1, "agent", h)
    /\ Goto(h, "respond")
    /\ UNCHANGED <<status, memory, cache, registered, msg, sent, idx, seen,
                   reply, answer, poisoned, history>>

\* Mutant: the customer's turn is cached.
StoreQuestion(h) ==
    /\ pc[h] = "respond"
    /\ Keyed(h)
    /\ SetKey(h, idx[h])
    /\ Goto(h, "return")
    /\ UNCHANGED <<status, turns, memory, registered, msg, sent, idx, seen, reply,
                   answer, poisoned, history>>

\* refresh, then SET key <response> EX 86400.  From here on a retry is told the
\* response, while this handler has not returned it.
StoreResponse(h) ==
    /\ pc[h] = "respond"
    /\ Keyed(h)
    /\ SetKey(h, idx[h] + 1)
    /\ Goto(h, "return")
    /\ UNCHANGED <<status, turns, memory, registered, msg, sent, idx, seen, reply,
                   answer, poisoned, history>>

\* The response, or the turn_complete frame.
Respond(h) ==
    /\ pc[h] = (IF Keyed(h) THEN "return" ELSE "respond")
    /\ Finish(h, "ok", idx[h] + 1)
    /\ UNCHANGED <<store, msg, sent, idx, seen, poisoned, history>>

\* Any of these calls may raise, before or after it took effect (a commit whose
\* acknowledgement is lost is an insert followed by the next step's exception, a
\* SET whose answer is lost leaves the handler at "return", to raise there);
\* the inserts do raise when their index is taken.
\* An error of the database leaves a socket's session waiting for a rollback
\* that never comes, and then the next count raises.
MayRaise == {"count", "customer", "config", "graph", "agent", "respond", "return"}

TurnRaises(h) ==
    /\ pc[h] \in MayRaise
    /\ Goto(h, "fail")
    /\ \/ /\ pc[h] \in {"config", "graph"}
          /\ UNCHANGED poisoned
       \/ /\ pc[h] # "graph"
          /\ poisoned' = poisoned \cup ({h} \cap Socket)
    /\ UNCHANGED <<store, msg, sent, idx, seen, reply, answer, history>>

\* Mutant: the turn is tried again, with the index it had.
HandleFailureRetries(h) ==
    /\ pc[h] = "fail"
    /\ Goto(h, "customer")
    /\ UNCHANGED <<store, msg, sent, idx, seen, reply, answer, poisoned, history>>

\* The exception handler: the key is deleted before the 500, whatever it holds,
\* unless Redis fails there too.
HandleFailure(h) ==
    /\ pc[h] = "fail"
    /\ \/ Keyed(h) /\ SetKey(h, Absent)
       \/ UNCHANGED cache
    /\ Finish(h, "error", Absent)
    /\ UNCHANGED <<status, turns, memory, registered, msg, sent, idx, seen,
                   poisoned, history>>

---------------------------------------------------------------------------
(* Surroundings *)

\* The request's task is cancelled or its process dies: no handler runs.
Crash(h) ==
    /\ h \in Request
    /\ pc[h] \notin {"new", "done"}
    /\ Finish(h, "lost", Absent)
    /\ UNCHANGED <<store, msg, sent, idx, seen, poisoned, history>>

\* The conversation is closed elsewhere.
Close ==
    /\ status = "open"
    /\ status' = "closed"
    /\ UNCHANGED <<turns, memory, cache, registered, handlers, history>>

\* Mutant: the key was set in progress without an expiry.
ExpireAnswer(k) ==
    /\ cache[k] \notin {Absent, InProgress}
    /\ cache' = [cache EXCEPT ![k] = Absent]
    /\ expired' = expired \cup {k}
    /\ UNCHANGED <<status, turns, memory, registered, handlers, pruned>>

\* Twenty-four hours have passed since the key was written; no request runs
\* that long.
Expire(k) ==
    /\ cache[k] # Absent
    /\ \A h \in Request : Holds(h) => msg[h] # k
    /\ cache' = [cache EXCEPT ![k] = Absent]
    /\ expired' = expired \cup {k}
    /\ UNCHANGED <<status, turns, memory, registered, handlers, pruned>>

---------------------------------------------------------------------------

\* Steps a started handler takes by itself.
Handle(h) ==
    \/ GetKey(h) \/ AcquireKey(h) \/ CheckConversation(h)
    \/ CountTurns(h) \/ InsertCustomerTurn(h) \/ StartGraph(h)
    \/ GraphAnswers(h) \/ InsertAgentTurn(h)
    \/ StoreResponse(h) \/ Respond(h)
    \/ TurnRaises(h) \/ HandleFailure(h)

Next ==
    \/ \E h \in Handler :
          \/ \E m \in Message : Submit(h, m) \/ Receive(h, m)
          \/ Connect(h) \/ Disconnect(h) \/ Crash(h)
          \/ Handle(h) \/ GraphPrunes(h) \/ GraphCheckpoints(h)
    \/ Close
    \/ \E k \in KeyedMessage : Expire(k)

Spec == Init /\ [][Next]_vars

\* Handlers keep running and the graph, whose steps LangGraph limits, answers or
\* raises; Redis enforces the expiry the code sets.
FairSpec ==
    /\ Spec
    /\ \A h \in Handler : WF_vars(Handle(h))
    /\ \A k \in KeyedMessage : WF_vars(Expire(k))
---------------------------------------------------------------------------
(* Properties *)

\* turn_index counts the rows before it: whatever handlers overlap, fail or
\* disappear, the transcript has no gap and no duplicate (the unlocked count of
\* chat_service.py:121 against uix_conversation_turn_index).
TranscriptContiguous == \A n \in 1..Len(turns) : turns[n].index = n - 1

\* The agent's turn directly follows the customer's turn it answers, never
\* another handler's question, although the graph ran in between.
ReplyFollowsQuestion ==
    \A n \in 1..Len(turns) :
        turns[n].role = "agent" =>
            /\ n > 1
            /\ turns[n - 1] = [turns[n] EXCEPT !.role = "customer", !.index = n - 2]

\* Nothing serialises the runs of a thread (chat_service.py:159): a run writes its
\* checkpoint over those of others.  Yet an answered message is missing from the
\* latest checkpoint only if a run has pruned it, or if a question in front of its
\* own was left unanswered, whose run may have started without it.
ForgottenNeedsUnanswered ==
    \A n \in 1..Len(turns) :
        turns[n].role = "agent" /\ turns[n].msg \notin memory \cup pruned =>
            \E p \in 1..(n - 2) : turns[p].role = "customer" /\ turns[p + 1].role = "customer"

\* A handler that reports success has stored both turns of its exchange
\* ("exactly two turns per successful request", test_chat_concurrency.py:80).
SuccessHasTwoTurns ==
    \A h \in Request :
        reply[h] = "ok" =>
            \E n \in 1..(Len(turns) - 1) :
                /\ turns[n].role = "customer" /\ turns[n].by = h
                /\ turns[n + 1].role = "agent" /\ turns[n + 1].by = h
                /\ turns[n + 1].index = answer[h]

\* The Redis key is a lock: one request at a time works on a keyed message, and
\* as long as it does the key is in progress or holds this request's own response,
\* whichever retries, failures and expiries come before (the get and the SET NX of
\* chat.py:39-47 are two steps, and so are the SET of the response and the return).
KeyIsLock ==
    \A h, g \in Request :
        Holds(h) =>
            /\ \/ pc[h] # "return" /\ cache[msg[h]] = InProgress
               \/ pc[h] \in {"return", "fail"} /\ cache[msg[h]] = idx[h] + 1
            /\ Holds(g) /\ msg[g] = msg[h] => g = h

\* The response of f was stored, and withdrawn by its exception handler.
Withdrawn(k, i) ==
    \E f \in Request : Keyed(f) /\ msg[f] = k /\ reply[f] = "error" /\ idx[f] + 1 = i

\* Retries of a keyed message that get an answer within the life of the key all get
\* the same turn, unless the handler that stored one of the answers then raised
\* (chat.py:76-80) and took it back: no other failure, cancellation or order of
\* the steps makes two retries disagree.
SameAnswerForSameKey ==
    \A h, g \in Request :
        /\ Keyed(h) /\ Keyed(g) /\ msg[h] = msg[g]
        /\ msg[h] \notin expired
        /\ {reply[h], reply[g]} \subseteq {"ok", "cached"}
        /\ answer[h] # answer[g]
        => Withdrawn(msg[h], answer[h]) \/ Withdrawn(msg[h], answer[g])

\* Within the life of the key the agent runs a second time for a keyed message
\* only when the first run ended in an error response ("return the cached
\* response and never re-invoke the agent", README.md:61).
SecondRunNeedsFailure ==
    \A h, g \in Request :
        /\ h # g /\ Keyed(h) /\ Keyed(g) /\ msg[h] = msg[g]
        /\ msg[h] \notin expired
        /\ seen[h] # {} /\ seen[g] # {}
        => "error" \in {reply[h], reply[g]}

\* A cached response is about a committed agent turn of the same message.
CachedAnswerIsStored ==
    \A k \in KeyedMessage :
        cache[k] >= 0 =>
            \E n \in 1..Len(turns) :
                turns[n].index = cache[k] /\ turns[n].role = "agent" /\ turns[n].msg = k

\* The registry never holds a socket that was never accepted or is gone,
\* whichever sockets come and go: a disconnect removes the entry of its
\* conversation, be it its own or not (ws_manager.py:13-15).
RegistryHoldsLiveSocket ==
    registered # Nobody => pc[registered] \notin {"new", "done"}

\* Every request that was submitted ends.
EveryRequestEnds ==
    \A h \in Request : pc[h] \in {"get", "check"} ~> pc[h] = "done"

\* A key does not stay in progress for ever, even when the request that set it
\* was refused, cancelled or died with its process.
KeyIsFreedInTheEnd ==
    \A k \in KeyedMessage : cache[k] = InProgress ~> cache[k] # InProgress
===========================================================================
