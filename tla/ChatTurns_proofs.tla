------------------------- MODULE ChatTurns_proofs -------------------------
(***************************************************************************)
(* Proofs about ChatTurns, for any requests, sockets and messages: the     *)
(* transcript is contiguous and paired, a success has its two turns, the   *)
(* Redis key is a lock, and it implements IdempotencyKey.                  *)
(***************************************************************************)
EXTENDS ChatTurnsRefinement, TLAPS

LEMMA InitTypeOK == Init => TypeOK
BY ChatTurnsAssumption
DEF Init, TypeOK, Turn, Control, Reply, Absent, InProgress

\* A row of the transcript is a turn.
LEMMA InsertType ==
    ASSUME TypeOK, NEW h \in Handler, NEW i \in Nat, NEW who \in {"customer", "agent"},
           InsertTurn(i, who, h)
    PROVE  turns' \in Seq(Turn)
BY DEF TypeOK, InsertTurn, Turn

LEMMA NextTypeOK == TypeOK /\ [Next]_vars => TypeOK'
<1> SUFFICES ASSUME TypeOK, [Next]_vars PROVE TypeOK'
    OBVIOUS
<1> USE DEF Control, Reply, Goto, Finish, Rest, SetKey, Keyed, store, handlers, history
<1>1. ASSUME NEW h \in Handler, NEW m \in Message, Submit(h, m) PROVE TypeOK'
    <2>1. \A g \in Handler : pc'[g] \in {"get", "setnx"} => Keyed(g)'
        BY <1>1 DEF Submit, TypeOK
    <2> QED
        BY <1>1, <2>1 DEF Submit, TypeOK
<1>2. ASSUME NEW h \in Handler, NEW m \in Message, Receive(h, m) PROVE TypeOK'
    <2>1. \A g \in Handler : pc'[g] \in {"get", "setnx"} => Keyed(g)'
        BY <1>2 DEF Receive, TypeOK
    <2> QED
        BY <1>2, <2>1 DEF Receive, TypeOK
<1>3. ASSUME NEW h \in Handler, Connect(h) \/ Disconnect(h) \/ Crash(h)
      PROVE  TypeOK'
    <2>1. CASE Connect(h)
        BY <2>1 DEF Connect, TypeOK
    <2>2. CASE Disconnect(h)
        BY <2>2 DEF Disconnect, TypeOK
    <2>3. CASE Crash(h)
        BY <2>3 DEF Crash, TypeOK
    <2> QED
        BY <1>3, <2>1, <2>2, <2>3
<1>4. ASSUME NEW h \in Handler, GetKey(h) PROVE TypeOK'
    BY <1>4 DEF GetKey, TypeOK, Absent, InProgress
<1>5. ASSUME NEW h \in Handler, AcquireKey(h) PROVE TypeOK'
    BY <1>5 DEF AcquireKey, TypeOK
<1>6. ASSUME NEW h \in Handler, CheckConversation(h) \/ CountTurns(h) \/ TurnRaises(h)
      PROVE  TypeOK'
    <2>1. CASE CheckConversation(h)
        BY <2>1 DEF CheckConversation, TypeOK
    <2>2. CASE CountTurns(h)
        <3>1. idx' \in [Handler -> Nat]
            BY <2>2 DEF CountTurns, TypeOK
        <3> QED
            BY <2>2, <3>1 DEF CountTurns, TypeOK
    <2>3. CASE TurnRaises(h)
        BY <2>3 DEF TurnRaises, MayRaise, TypeOK
    <2> QED
        BY <1>6, <2>1, <2>2, <2>3
<1>7. ASSUME NEW h \in Handler, InsertCustomerTurn(h) PROVE TypeOK'
    <2>1. turns' \in Seq(Turn)
        BY <1>7, InsertType DEF InsertCustomerTurn, TypeOK
    <2> QED
        BY <1>7, <2>1 DEF InsertCustomerTurn, TypeOK
<1>8. ASSUME NEW h \in Handler, InsertAgentTurn(h) PROVE TypeOK'
    <2>1. turns' \in Seq(Turn)
        BY <1>8, InsertType DEF InsertAgentTurn, TypeOK
    <2> QED
        BY <1>8, <2>1 DEF InsertAgentTurn, TypeOK
<1>9. ASSUME NEW h \in Handler,
             StartGraph(h) \/ GraphPrunes(h) \/ GraphCheckpoints(h) \/ GraphAnswers(h)
      PROVE  TypeOK'
    <2>1. CASE StartGraph(h)
        BY <2>1 DEF StartGraph, TypeOK
    <2>2. CASE GraphCheckpoints(h)
        BY <2>2 DEF GraphCheckpoints, TypeOK
    <2>3. CASE GraphAnswers(h)
        BY <2>3 DEF GraphAnswers, TypeOK
    <2>4. CASE GraphPrunes(h)
        BY <2>4 DEF GraphPrunes, TypeOK
    <2> QED
        BY <1>9, <2>1, <2>2, <2>3, <2>4
<1>10. ASSUME NEW h \in Handler, StoreResponse(h) \/ Respond(h) \/ HandleFailure(h)
       PROVE  TypeOK'
    <2>1. idx[h] + 1 \in Nat
        BY DEF TypeOK
    <2>2. CASE StoreResponse(h)
        <3>1. cache' = [cache EXCEPT ![msg[h]] = idx[h] + 1]
            BY <2>2 DEF StoreResponse
        <3>2. cache' \in [KeyedMessage -> Nat \cup {Absent, InProgress}]
            BY <2>1, <3>1 DEF TypeOK
        <3> QED
            BY <2>2, <3>2 DEF StoreResponse, TypeOK
    <2>3. CASE Respond(h)
        BY <2>1, <2>3 DEF Respond, TypeOK
    <2>4. CASE HandleFailure(h)
        <3>1. cache' \in [KeyedMessage -> Nat \cup {Absent, InProgress}]
            BY <2>4 DEF HandleFailure, TypeOK
        <3> QED
            BY <2>4, <3>1 DEF HandleFailure, TypeOK
    <2> QED
        BY <1>10, <2>2, <2>3, <2>4
<1>11. ASSUME Close \/ \E k \in KeyedMessage : Expire(k) PROVE TypeOK'
    BY <1>11 DEF Close, Expire, TypeOK
<1>12. CASE UNCHANGED vars
    BY <1>12 DEF vars, TypeOK
<1> QED
    BY <1>1, <1>2, <1>3, <1>4, <1>5, <1>6, <1>7, <1>8, <1>9, <1>10, <1>11, <1>12
    DEF Next, Handle

\* Rows, keys and handlers keep their types: no interleaving writes a turn
\* without an index or caches anything but a turn.
THEOREM TypeCorrect == Spec => []TypeOK
BY InitTypeOK, NextTypeOK, PTL DEF Spec

---------------------------------------------------------------------------
(* The transcript *)

Question(h) == [index |-> idx[h], role |-> "customer", by |-> h, msg |-> msg[h]]
Response(h) == [index |-> idx[h] + 1, role |-> "agent", by |-> h, msg |-> msg[h]]

\* The count a handler has taken was true of a prefix of the transcript; the
\* customer's turn it stored is at its place, and so is the agent's.
Placed(h) ==
    /\ pc[h] = "customer" => idx[h] <= Len(turns)
    /\ pc[h] \in {"config", "graph", "agent"} =>
          Len(turns) >= idx[h] + 1 /\ turns[idx[h] + 1] = Question(h)
    /\ pc[h] \in {"respond", "return"} =>
          /\ Len(turns) >= idx[h] + 2
          /\ turns[idx[h] + 1] = Question(h)
          /\ turns[idx[h] + 2] = Response(h)

TranscriptInv ==
    /\ TranscriptContiguous
    /\ ReplyFollowsQuestion
    /\ SuccessHasTwoTurns
    /\ CachedAnswerIsStored
    /\ \A h \in Handler : Placed(h)

LEMMA InitTranscriptInv == Init => TranscriptInv
BY DEF Init, TranscriptInv, TranscriptContiguous, ReplyFollowsQuestion, SuccessHasTwoTurns,
       CachedAnswerIsStored, Placed, Absent, Handler

\* A free index that is at most the number of rows is the next one.
LEMMA FreeIndexIsNext ==
    ASSUME TypeOK, TranscriptContiguous, NEW i \in Nat, i <= Len(turns), IndexFree(i)
    PROVE  i = Len(turns)
<1> SUFFICES ASSUME i < Len(turns) PROVE FALSE
    BY DEF TypeOK
<1>1. i + 1 \in 1..Len(turns) /\ turns[i + 1].index = i
    BY DEF TypeOK, TranscriptContiguous
<1> QED
    BY <1>1 DEF IndexFree

\* Only the two inserts touch the transcript, and they append to it.
LEMMA TranscriptGrows ==
    ASSUME TypeOK, [Next]_vars
    PROVE  \/ turns' = turns
           \/ \E h \in Handler : InsertCustomerTurn(h) \/ InsertAgentTurn(h)
BY DEF Next, Handle, Submit, Receive, Connect, Disconnect, Crash, GetKey, AcquireKey,
       CheckConversation, CountTurns, StartGraph, GraphPrunes, GraphCheckpoints, GraphAnswers,
       StoreResponse, Respond, TurnRaises, HandleFailure, Close, Expire, vars, store

\* Steps that leave the transcript alone.
LEMMA PlacedStays ==
    ASSUME TypeOK, [Next]_vars, turns' = turns, NEW h \in Handler, Placed(h)
    PROVE  Placed(h)'
<1> USE DEF Placed, Question, Response, Goto, Finish, Rest, TypeOK, Handler, store, handlers,
            history
<1>1. ASSUME NEW g \in Handler, NEW m \in Message, Submit(g, m) \/ Receive(g, m)
      PROVE  Placed(h)'
    BY <1>1 DEF Submit, Receive
<1>2. ASSUME NEW g \in Handler, Connect(g) \/ Disconnect(g) \/ Crash(g) \/ GetKey(g)
                                \/ AcquireKey(g) \/ CheckConversation(g)
      PROVE  Placed(h)'
    BY <1>2 DEF Connect, Disconnect, Crash, GetKey, AcquireKey, CheckConversation
<1>3. ASSUME NEW g \in Handler, CountTurns(g) PROVE Placed(h)'
    BY <1>3 DEF CountTurns
<1>4. ASSUME NEW g \in Handler, InsertCustomerTurn(g) \/ InsertAgentTurn(g) PROVE FALSE
    BY <1>4 DEF InsertCustomerTurn, InsertAgentTurn, InsertTurn
<1>5. ASSUME NEW g \in Handler, StartGraph(g) \/ GraphPrunes(g) \/ GraphCheckpoints(g)
                                \/ GraphAnswers(g) \/ StoreResponse(g) \/ Respond(g)
                                \/ TurnRaises(g) \/ HandleFailure(g)
      PROVE  Placed(h)'
    BY <1>5 DEF StartGraph, GraphPrunes, GraphCheckpoints, GraphAnswers, StoreResponse,
                Respond, TurnRaises, HandleFailure
<1>6. ASSUME Close \/ (\E k \in KeyedMessage : Expire(k)) \/ UNCHANGED vars
      PROVE  Placed(h)'
    BY <1>6 DEF Close, Expire, vars
<1> QED
    BY <1>1, <1>2, <1>3, <1>4, <1>5, <1>6 DEF Next, Handle

\* What an insert keeps and what it adds.
LEMMA AppendKeeps ==
    ASSUME TypeOK, NEW t \in Turn, turns' = Append(turns, t)
    PROVE  /\ Len(turns') = Len(turns) + 1
           /\ \A n \in 1..Len(turns) : turns'[n] = turns[n]
           /\ turns'[Len(turns) + 1] = t
           /\ Len(turns) \in Nat
BY DEF TypeOK

\* Only Respond reports success.
LEMMA OnlyRespondReplies ==
    ASSUME TypeOK, [Next]_vars, NEW h \in Request, reply'[h] = "ok"
    PROVE  (reply[h] = "ok" /\ answer'[h] = answer[h]) \/ Respond(h)
<1> USE DEF Goto, Finish, TypeOK, Handler, store, handlers, history
<1>1. ASSUME NEW g \in Handler, NEW m \in Message, Submit(g, m) \/ Receive(g, m)
      PROVE  reply[h] = "ok" /\ answer'[h] = answer[h]
    BY <1>1 DEF Submit, Receive
<1>2. ASSUME NEW g \in Handler, Connect(g) \/ Disconnect(g) \/ Crash(g) \/ GetKey(g)
                                \/ AcquireKey(g) \/ CheckConversation(g) \/ CountTurns(g)
      PROVE  reply[h] = "ok" /\ answer'[h] = answer[h]
    BY <1>2 DEF Connect, Disconnect, Crash, GetKey, AcquireKey, CheckConversation, CountTurns
<1>3. ASSUME NEW g \in Handler, InsertCustomerTurn(g) \/ InsertAgentTurn(g) \/ StartGraph(g)
                                \/ GraphPrunes(g) \/ GraphCheckpoints(g) \/ GraphAnswers(g)
      PROVE  reply[h] = "ok" /\ answer'[h] = answer[h]
    BY <1>3 DEF InsertCustomerTurn, InsertAgentTurn, StartGraph, GraphPrunes,
                GraphCheckpoints, GraphAnswers
<1>4. ASSUME NEW g \in Handler, StoreResponse(g) \/ TurnRaises(g) \/ HandleFailure(g)
      PROVE  reply[h] = "ok" /\ answer'[h] = answer[h]
    BY <1>4 DEF StoreResponse, TurnRaises, HandleFailure
<1>5. ASSUME NEW g \in Handler, Respond(g), g # h
      PROVE  reply[h] = "ok" /\ answer'[h] = answer[h]
    BY <1>5 DEF Respond
<1>6. ASSUME Close \/ (\E k \in KeyedMessage : Expire(k)) \/ UNCHANGED vars
      PROVE  reply[h] = "ok" /\ answer'[h] = answer[h]
    BY <1>6 DEF Close, Expire, vars
<1> QED
    BY <1>1, <1>2, <1>3, <1>4, <1>5, <1>6 DEF Next, Handle

\* Only StoreResponse caches a turn.
LEMMA OnlyStoreCaches ==
    ASSUME TypeOK, [Next]_vars, NEW k \in KeyedMessage, cache'[k] >= 0
    PROVE  \/ cache'[k] = cache[k]
           \/ \E h \in Request : StoreResponse(h) /\ msg[h] = k /\ cache'[k] = idx[h] + 1
<1> USE DEF Goto, Finish, SetKey, Absent, InProgress, TypeOK, store, handlers, history
<1>1. ASSUME NEW g \in Handler, NEW m \in Message, Submit(g, m) \/ Receive(g, m)
      PROVE  cache'[k] = cache[k]
    BY <1>1 DEF Submit, Receive
<1>2. ASSUME NEW g \in Handler, Connect(g) \/ Disconnect(g) \/ Crash(g) \/ GetKey(g)
                                \/ AcquireKey(g) \/ CheckConversation(g) \/ CountTurns(g)
      PROVE  cache'[k] = cache[k]
    BY <1>2 DEF Connect, Disconnect, Crash, GetKey, AcquireKey, CheckConversation, CountTurns
<1>3. ASSUME NEW g \in Handler, InsertCustomerTurn(g) \/ InsertAgentTurn(g) \/ StartGraph(g)
                                \/ GraphPrunes(g) \/ GraphCheckpoints(g) \/ GraphAnswers(g)
      PROVE  cache'[k] = cache[k]
    BY <1>3 DEF InsertCustomerTurn, InsertAgentTurn, StartGraph, GraphPrunes,
                GraphCheckpoints, GraphAnswers
<1>4. ASSUME NEW g \in Handler, Respond(g) \/ TurnRaises(g) \/ HandleFailure(g)
      PROVE  cache'[k] = cache[k]
    BY <1>4 DEF Respond, TurnRaises, HandleFailure
<1>5. ASSUME NEW g \in Handler, StoreResponse(g)
      PROVE  cache'[k] = cache[k] \/ (g \in Request /\ msg[g] = k /\ cache'[k] = idx[g] + 1)
    BY <1>5 DEF StoreResponse, Keyed
<1>6. ASSUME Close \/ (\E l \in KeyedMessage : Expire(l)) \/ UNCHANGED vars
      PROVE  cache'[k] = cache[k]
    BY <1>6 DEF Close, Expire, vars
<1> QED
    BY <1>1, <1>2, <1>3, <1>4, <1>5, <1>6 DEF Next, Handle

\* The question a response answers.
Asked(t, i) == [t EXCEPT !.role = "customer", !.index = i]

LEMMA AskedFields ==
    ASSUME NEW t \in Turn, NEW i \in Nat
    PROVE  Asked(t, i) = [index |-> i, role |-> "customer", by |-> t.by, msg |-> t.msg]
<1> DEFINE a == [t EXCEPT !.role = "customer", !.index = i]
<1>1. a \in Turn /\ a.index = i /\ a.role = "customer" /\ a.by = t.by /\ a.msg = t.msg
    BY DEF Turn
<1>2. a = [index |-> a.index, role |-> a.role, by |-> a.by, msg |-> a.msg]
    <2> HIDE DEF a
    <2> QED
        BY <1>1 DEF Turn
<1> QED
    BY <1>1, <1>2 DEF Asked

\* An appended row with the next index that is a question, or the response to
\* the row before it, keeps what is said of the rows.
LEMMA RowsExtend ==
    ASSUME TypeOK, TranscriptContiguous, ReplyFollowsQuestion,
           NEW t \in Turn, turns' = Append(turns, t), t.index = Len(turns),
           t.role = "agent" =>
               Len(turns) > 0 /\ turns[Len(turns)] = Asked(t, Len(turns) - 1)
    PROVE  TranscriptContiguous' /\ ReplyFollowsQuestion'
<1>1. /\ Len(turns') = Len(turns) + 1
      /\ \A n \in 1..Len(turns) : turns'[n] = turns[n]
      /\ turns'[Len(turns) + 1] = t
      /\ Len(turns) \in Nat
    BY AppendKeeps
<1>2. TranscriptContiguous'
    BY <1>1 DEF TranscriptContiguous
<1>3. \A n \in 1..Len(turns) :
          turns[n].role = "agent" => n > 1 /\ turns[n - 1] = Asked(turns[n], n - 2)
    BY DEF ReplyFollowsQuestion, Asked
<1>4. ASSUME NEW n \in 1..Len(turns'), turns'[n].role = "agent"
      PROVE  n > 1 /\ turns'[n - 1] = Asked(turns'[n], n - 2)
    <2>1. CASE n = Len(turns) + 1
        <3>1. /\ Len(turns) > 0 /\ turns[Len(turns)] = Asked(t, Len(turns) - 1)
              /\ turns'[n] = t
            BY <1>1, <1>4, <2>1
        <3>2. n - 1 = Len(turns) /\ n - 2 = Len(turns) - 1 /\ turns'[n - 1] = turns[n - 1]
            BY <1>1, <2>1, <3>1
        <3> QED
            BY <1>1, <3>1, <3>2
    <2>2. CASE n \in 1..Len(turns)
        <3>1. turns'[n] = turns[n]
            BY <1>1, <2>2
        <3>2. n > 1 /\ turns[n - 1] = Asked(turns[n], n - 2)
            BY <1>3, <1>4, <2>2, <3>1
        <3>3. turns'[n - 1] = turns[n - 1]
            BY <1>1, <2>2, <3>2
        <3> QED
            BY <3>1, <3>2, <3>3
    <2> QED
        BY <1>1, <2>1, <2>2
<1> QED
    BY <1>2, <1>4 DEF ReplyFollowsQuestion, Asked

\* What was said of outcomes and of keys stays true of a longer transcript.
LEMMA OutcomesExtend ==
    ASSUME TypeOK, SuccessHasTwoTurns, CachedAnswerIsStored,
           NEW t \in Turn, turns' = Append(turns, t),
           reply' = reply, answer' = answer, cache' = cache
    PROVE  SuccessHasTwoTurns' /\ CachedAnswerIsStored'
<1>1. /\ Len(turns') = Len(turns) + 1
      /\ \A n \in 1..Len(turns) : turns'[n] = turns[n]
      /\ Len(turns) \in Nat
    BY AppendKeeps
<1>2. SuccessHasTwoTurns'
    <2> SUFFICES ASSUME NEW h \in Request, reply'[h] = "ok"
                 PROVE  \E n \in 1..(Len(turns') - 1) :
                           /\ turns'[n].role = "customer" /\ turns'[n].by = h
                           /\ turns'[n + 1].role = "agent" /\ turns'[n + 1].by = h
                           /\ turns'[n + 1].index = answer'[h]
        BY DEF SuccessHasTwoTurns
    <2>1. PICK n \in 1..(Len(turns) - 1) :
              /\ turns[n].role = "customer" /\ turns[n].by = h
              /\ turns[n + 1].role = "agent" /\ turns[n + 1].by = h
              /\ turns[n + 1].index = answer[h]
        BY DEF SuccessHasTwoTurns
    <2>2. n \in 1..(Len(turns') - 1) /\ turns'[n] = turns[n] /\ turns'[n + 1] = turns[n + 1]
        BY <1>1
    <2> QED
        BY <2>1, <2>2
<1>3. CachedAnswerIsStored'
    BY <1>1 DEF CachedAnswerIsStored
<1> QED
    BY <1>2, <1>3

\* Handlers other than the one that inserts keep their place.
LEMMA PlacedExtends ==
    ASSUME TypeOK, NEW t \in Turn, turns' = Append(turns, t), NEW h \in Handler, Placed(h),
           pc'[h] = pc[h], idx' = idx, msg' = msg
    PROVE  Placed(h)'
<1>1. /\ Len(turns') = Len(turns) + 1
      /\ \A n \in 1..Len(turns) : turns'[n] = turns[n]
      /\ Len(turns) \in Nat /\ idx[h] \in Nat
    BY AppendKeeps DEF TypeOK
<1> QED
    BY <1>1 DEF Placed, Question, Response

LEMMA QuestionInserted ==
    ASSUME TypeOK, TranscriptInv, NEW g \in Handler, InsertCustomerTurn(g)
    PROVE  TranscriptInv'
<1>1. idx[g] \in Nat /\ msg[g] \in Message /\ idx[g] <= Len(turns) /\ Len(turns) \in Nat
    BY DEF TypeOK, TranscriptInv, Placed, InsertCustomerTurn
<1>2. idx[g] = Len(turns)
    BY <1>1, FreeIndexIsNext DEF TranscriptInv, InsertCustomerTurn
<1>3. /\ Question(g) \in Turn
      /\ turns' = Append(turns, Question(g))
      /\ Question(g).index = idx[g] /\ Question(g).role = "customer"
    BY <1>1 DEF InsertCustomerTurn, InsertTurn, Question, Turn
<1>4. TranscriptContiguous' /\ ReplyFollowsQuestion'
    BY <1>2, <1>3, RowsExtend DEF TranscriptInv
<1>5. SuccessHasTwoTurns' /\ CachedAnswerIsStored'
    BY <1>3, OutcomesExtend DEF TranscriptInv, InsertCustomerTurn
<1>6. ASSUME NEW h \in Handler, h # g PROVE Placed(h)'
    BY <1>3, <1>6, PlacedExtends DEF TranscriptInv, InsertCustomerTurn, Goto, TypeOK
<1>7. Placed(g)'
    <2>1. pc'[g] = "config" /\ Question(g)' = Question(g) /\ idx' = idx
        BY DEF InsertCustomerTurn, Goto, TypeOK, Question
    <2>2. Len(turns') = idx[g] + 1 /\ turns'[idx[g] + 1] = Question(g)
        BY <1>2, <1>3, AppendKeeps
    <2> QED
        BY <1>1, <2>1, <2>2 DEF Placed
<1> QED
    BY <1>4, <1>5, <1>6, <1>7 DEF TranscriptInv

LEMMA ResponseInserted ==
    ASSUME TypeOK, TranscriptInv, NEW g \in Handler, InsertAgentTurn(g)
    PROVE  TranscriptInv'
<1>1. /\ idx[g] \in Nat /\ msg[g] \in Message /\ Len(turns) \in Nat
      /\ Len(turns) >= idx[g] + 1 /\ turns[idx[g] + 1] = Question(g)
    BY DEF TypeOK, TranscriptInv, Placed, InsertAgentTurn
<1>2. idx[g] + 1 = Len(turns)
    BY <1>1, FreeIndexIsNext DEF TranscriptInv, InsertAgentTurn
<1>3. /\ Response(g) \in Turn
      /\ turns' = Append(turns, Response(g))
      /\ Response(g).index = idx[g] + 1
    BY <1>1 DEF InsertAgentTurn, InsertTurn, Response, Turn
<1>4. TranscriptContiguous' /\ ReplyFollowsQuestion'
    <2>1. Asked(Response(g), idx[g]) = Question(g)
        BY <1>1, <1>3, AskedFields DEF Question, Response
    <2>2. Len(turns) > 0 /\ Len(turns) - 1 = idx[g] /\ Response(g).index = Len(turns)
        BY <1>1, <1>2, <1>3
    <2>3. turns[Len(turns)] = Asked(Response(g), Len(turns) - 1)
        BY <1>1, <1>2, <2>1, <2>2
    <2> QED
        BY <1>3, <2>2, <2>3, RowsExtend DEF TranscriptInv
<1>5. SuccessHasTwoTurns' /\ CachedAnswerIsStored'
    BY <1>3, OutcomesExtend DEF TranscriptInv, InsertAgentTurn
<1>6. ASSUME NEW h \in Handler, h # g PROVE Placed(h)'
    BY <1>3, <1>6, PlacedExtends DEF TranscriptInv, InsertAgentTurn, Goto, TypeOK
<1>7. Placed(g)'
    <2>1. /\ pc'[g] = "respond" /\ idx' = idx
          /\ Question(g)' = Question(g) /\ Response(g)' = Response(g)
        BY DEF InsertAgentTurn, Goto, TypeOK, Question, Response
    <2>2. /\ Len(turns') = idx[g] + 2 /\ turns'[idx[g] + 2] = Response(g)
          /\ turns'[idx[g] + 1] = turns[idx[g] + 1]
        BY <1>1, <1>2, <1>3, AppendKeeps
    <2> QED
        BY <1>1, <2>1, <2>2 DEF Placed
<1> QED
    BY <1>4, <1>5, <1>6, <1>7 DEF TranscriptInv

\* Steps that add no row: the outcomes and keys they write are of rows at the
\* place of the handler that writes them.
LEMMA OutcomesWritten ==
    ASSUME TypeOK, TranscriptInv, [Next]_vars, turns' = turns
    PROVE  SuccessHasTwoTurns' /\ CachedAnswerIsStored'
<1>1. ASSUME NEW g \in Handler, StoreResponse(g) \/ Respond(g)
      PROVE  /\ idx[g] + 1 \in 1..(Len(turns) - 1) /\ idx[g] + 2 \in 1..Len(turns)
             /\ turns[idx[g] + 1] = Question(g) /\ turns[(idx[g] + 1) + 1] = Response(g)
             /\ turns[idx[g] + 2] = Response(g)
    <2>1. /\ Len(turns) >= idx[g] + 2 /\ turns[idx[g] + 1] = Question(g)
          /\ turns[idx[g] + 2] = Response(g) /\ idx[g] \in Nat /\ Len(turns) \in Nat
        BY <1>1 DEF StoreResponse, Respond, TranscriptInv, Placed, TypeOK
    <2>2. (idx[g] + 1) + 1 = idx[g] + 2
        BY <2>1
    <2> QED
        BY <2>1, <2>2
<1>2. SuccessHasTwoTurns'
    <2> SUFFICES ASSUME NEW h \in Request, reply'[h] = "ok"
                 PROVE  \E n \in 1..(Len(turns) - 1) :
                           /\ turns[n].role = "customer" /\ turns[n].by = h
                           /\ turns[n + 1].role = "agent" /\ turns[n + 1].by = h
                           /\ turns[n + 1].index = answer'[h]
        BY DEF SuccessHasTwoTurns
    <2>1. CASE reply[h] = "ok" /\ answer'[h] = answer[h]
        <3>1. PICK n \in 1..(Len(turns) - 1) :
                  /\ turns[n].role = "customer" /\ turns[n].by = h
                  /\ turns[n + 1].role = "agent" /\ turns[n + 1].by = h
                  /\ turns[n + 1].index = answer[h]
            BY <2>1 DEF TranscriptInv, SuccessHasTwoTurns
        <3> QED
            BY <2>1, <3>1
    <2>2. CASE Respond(h)
        <3>1. h \in Handler
            BY DEF Handler
        <3>2. /\ idx[h] + 1 \in 1..(Len(turns) - 1)
              /\ turns[idx[h] + 1] = Question(h) /\ turns[(idx[h] + 1) + 1] = Response(h)
            BY <1>1, <2>2, <3>1
        <3>3. /\ Question(h).role = "customer" /\ Question(h).by = h
              /\ Response(h).role = "agent" /\ Response(h).by = h
              /\ Response(h).index = idx[h] + 1
            BY DEF Question, Response
        <3>4. answer'[h] = idx[h] + 1
            BY <2>2, <3>1 DEF Respond, Finish, TypeOK
        <3> QED
            BY <3>2, <3>3, <3>4
    <2> QED
        BY <2>1, <2>2, OnlyRespondReplies
<1>3. CachedAnswerIsStored'
    <2> SUFFICES ASSUME NEW k \in KeyedMessage, cache'[k] >= 0
                 PROVE  \E n \in 1..Len(turns) :
                           turns[n].index = cache'[k] /\ turns[n].role = "agent" /\ turns[n].msg = k
        BY DEF CachedAnswerIsStored
    <2>1. CASE cache'[k] = cache[k]
        BY <2>1 DEF TranscriptInv, CachedAnswerIsStored
    <2>2. ASSUME NEW h \in Request, StoreResponse(h), msg[h] = k, cache'[k] = idx[h] + 1
          PROVE  \E n \in 1..Len(turns) :
                     turns[n].index = cache'[k] /\ turns[n].role = "agent" /\ turns[n].msg = k
        <3>1. h \in Handler
            BY DEF Handler
        <3>2. idx[h] + 2 \in 1..Len(turns) /\ turns[idx[h] + 2] = Response(h)
            BY <1>1, <2>2, <3>1
        <3>3. /\ Response(h).role = "agent" /\ Response(h).msg = k
              /\ Response(h).index = cache'[k]
            BY <2>2 DEF Response
        <3> QED
            BY <3>2, <3>3
    <2> QED
        BY <2>1, <2>2, OnlyStoreCaches
<1> QED
    BY <1>2, <1>3

LEMMA NextTranscriptInv ==
    ASSUME TypeOK, TranscriptInv, [Next]_vars
    PROVE  TranscriptInv'
<1>1. CASE turns' = turns
    <2>1. TranscriptContiguous' /\ ReplyFollowsQuestion'
        BY <1>1 DEF TranscriptInv, TranscriptContiguous, ReplyFollowsQuestion
    <2>2. SuccessHasTwoTurns' /\ CachedAnswerIsStored'
        BY <1>1, OutcomesWritten
    <2>3. \A h \in Handler : Placed(h)'
        BY <1>1, PlacedStays DEF TranscriptInv
    <2> QED
        BY <2>1, <2>2, <2>3 DEF TranscriptInv
<1> QED
    BY <1>1, TranscriptGrows, QuestionInserted, ResponseInserted

LEMMA TranscriptInvariant == Spec => [](TypeOK /\ TranscriptInv)
<1>1. Init => TypeOK /\ TranscriptInv
    BY InitTypeOK, InitTranscriptInv
<1>2. TypeOK /\ TranscriptInv /\ [Next]_vars => (TypeOK /\ TranscriptInv)'
    BY NextTypeOK, NextTranscriptInv
<1> QED
    BY <1>1, <1>2, PTL DEF Spec

\* However many handlers count the rows at the same time, and wherever they
\* fail, turn_index is the place of the row (chat_service.py:121-136).
THEOREM TranscriptIsContiguous == Spec => []TranscriptContiguous
<1>1. TypeOK /\ TranscriptInv => TranscriptContiguous
    BY DEF TranscriptInv
<1> QED
    BY <1>1, TranscriptInvariant, PTL

\* The agent's turn stands right behind the question it answers
\* (chat_service.py:136-175).
THEOREM TurnsArePaired == Spec => []ReplyFollowsQuestion
<1>1. TypeOK /\ TranscriptInv => ReplyFollowsQuestion
    BY DEF TranscriptInv
<1> QED
    BY <1>1, TranscriptInvariant, PTL

\* A request that reports success has stored its exchange: the question and,
\* right behind it, the answer it returns (chat.py:71-80).
THEOREM AnswersAreStored == Spec => []SuccessHasTwoTurns
<1>1. TypeOK /\ TranscriptInv => SuccessHasTwoTurns
    BY DEF TranscriptInv
<1> QED
    BY <1>1, TranscriptInvariant, PTL

\* A response that a key caches is a committed agent turn of the key's message,
\* whoever wrote it (chat.py:71-80).
THEOREM CachedAnswersAreStored == Spec => []CachedAnswerIsStored
<1>1. TypeOK /\ TranscriptInv => CachedAnswerIsStored
    BY DEF TranscriptInv
<1> QED
    BY <1>1, TranscriptInvariant, PTL

---------------------------------------------------------------------------
(* What the checkpoint remembers *)

\* A question in front of the one that row n answers was left unanswered.
Open(n) == \E p \in 1..(n - 2) : turns[p].role = "customer" /\ turns[p + 1].role = "customer"

\* A handler that has stored its question and not its answer has no answer there.
Unanswered ==
    \A h \in Handler :
        pc[h] \in {"config", "graph", "agent"} /\ Len(turns) >= idx[h] + 2 =>
            turns[idx[h] + 2].role = "customer"

\* What a run knows or is pruned, and what it will leave behind: the answered messages, and
\* when the run is over its own, but for those behind an open question.  A handler
\* whose index was taken meanwhile stores no answer.
Remembered ==
    /\ \A n \in 1..Len(turns) :
          turns[n].role = "agent" => turns[n].msg \in memory \cup pruned \/ Open(n)
    /\ \A g \in Handler : pc[g] = "graph" =>
          /\ msg[g] \in seen[g]
          /\ \A n \in 1..Len(turns) :
                turns[n].role = "agent" => turns[n].msg \in seen[g] \cup pruned \/ Open(n)
    /\ \A h \in Handler : pc[h] = "agent" =>
          msg[h] \in memory \cup pruned \/ Len(turns) > idx[h] + 1 \/ Open(idx[h] + 2)

\* Handlers at their answer have different questions.
LEMMA QuestionsDiffer ==
    ASSUME TypeOK, TranscriptInv, NEW g \in Handler, NEW h \in Handler, g # h,
           pc[g] \in {"config", "graph", "agent"}, pc[h] \in {"config", "graph", "agent"}
    PROVE  idx[g] # idx[h]
<1>1. turns[idx[g] + 1] = Question(g) /\ turns[idx[h] + 1] = Question(h)
    BY DEF TranscriptInv, Placed
<1>2. Question(g).by = g /\ Question(h).by = h
    BY DEF Question
<1> QED
    BY <1>1, <1>2

\* A question without an answer is open for what comes behind it.
LEMMA OpenBehind ==
    ASSUME TypeOK, TranscriptInv, Unanswered, NEW g \in Handler,
           pc[g] \in {"config", "graph", "agent"}, NEW i \in Nat, idx[g] < i, i < Len(turns)
    PROVE  Open(i + 2)
<1>1. /\ idx[g] \in Nat /\ Len(turns) \in Nat
      /\ turns[idx[g] + 1] = Question(g)
    BY DEF TypeOK, TranscriptInv, Placed
<1>2. turns[idx[g] + 1].role = "customer" /\ turns[(idx[g] + 1) + 1].role = "customer"
  <2>1. Len(turns) >= idx[g] + 2 /\ (idx[g] + 1) + 1 = idx[g] + 2
      BY <1>1
  <2> QED
      BY <1>1, <2>1 DEF Unanswered, Question
<1>3. idx[g] + 1 \in 1..((i + 2) - 2)
    BY <1>1
<1> QED
    BY <1>2, <1>3 DEF Open

LEMMA OpenStays ==
    ASSUME TypeOK, NEW t \in Turn, turns' = Append(turns, t),
           NEW n \in Nat, n <= Len(turns) + 1, Open(n)
    PROVE  Open(n)'
<1>1. Len(turns) \in Nat /\ \A m \in 1..Len(turns) : turns'[m] = turns[m]
    BY AppendKeeps
<1>2. PICK p \in 1..(n - 2) : turns[p].role = "customer" /\ turns[p + 1].role = "customer"
    BY DEF Open
<1>3. p \in 1..Len(turns) /\ p + 1 \in 1..Len(turns)
    BY <1>1
<1> QED
    BY <1>1, <1>2, <1>3 DEF Open

\* Steps that touch neither transcript nor checkpoint.
LEMMA RememberedStays ==
    ASSUME TypeOK, Unanswered, Remembered, UNCHANGED <<turns, memory, seen, pruned>>,
           \A h \in Handler : pc'[h] \in {"config", "graph", "agent"} =>
               pc'[h] = pc[h] /\ idx'[h] = idx[h] /\ msg'[h] = msg[h]
    PROVE  Unanswered' /\ Remembered'
<1>1. Unanswered'
    BY DEF Unanswered
<1>2. \A n : Open(n)' <=> Open(n)
    BY DEF Open
<1>3. ASSUME NEW h \in Handler, pc'[h] = "agent"
      PROVE  msg'[h] \in memory' \cup pruned' \/ Len(turns') > idx'[h] + 1 \/ Open(idx[h] + 2)
    BY <1>3 DEF Remembered
<1>4. ASSUME NEW h \in Handler, pc'[h] = "agent"
      PROVE  idx'[h] + 2 = idx[h] + 2
    BY <1>4
<1> QED
    BY <1>1, <1>2, <1>3, <1>4 DEF Remembered, Open

LEMMA NextRemembered ==
    ASSUME TypeOK, TranscriptInv, Unanswered, Remembered, [Next]_vars
    PROVE  Unanswered' /\ Remembered'
<1> USE DEF Goto, store, handlers, history
<1>1. ASSUME NEW g \in Handler, StartGraph(g) PROVE Unanswered' /\ Remembered'
  <2>1. /\ turns' = turns /\ idx' = idx /\ msg' = msg /\ memory' = memory \cup {msg[g]}
        /\ pruned' = pruned
        /\ pc[g] = "config" /\ pc'[g] = "graph" /\ seen'[g] = memory \cup {msg[g]}
        /\ \A h \in Handler : h # g => pc'[h] = pc[h] /\ seen'[h] = seen[h]
      BY <1>1 DEF StartGraph, TypeOK
  <2>2. Unanswered'
      BY <2>1 DEF Unanswered
  <2>3. Remembered'
      BY <2>1 DEF Remembered, Open
  <2> QED
      BY <2>2, <2>3
<1>2. ASSUME NEW g \in Handler, GraphPrunes(g) \/ GraphCheckpoints(g) \/ GraphAnswers(g)
      PROVE  Unanswered' /\ Remembered'
  <2>1. /\ turns' = turns /\ idx' = idx /\ msg' = msg
        /\ pc[g] = "graph" /\ pc'[g] \in {"graph", "agent"}
        /\ \A h \in Handler : h # g => pc'[h] = pc[h] /\ seen'[h] = seen[h]
      BY <1>2 DEF GraphPrunes, GraphCheckpoints, GraphAnswers, TypeOK
  <2>2. /\ seen[g] \cup pruned \subseteq memory' \cup pruned'
        /\ seen[g] \cup pruned \subseteq seen'[g] \cup pruned'
        /\ pruned \subseteq pruned'
        /\ msg[g] \in seen[g] => msg[g] \in seen'[g]
    <3>1. CASE GraphPrunes(g)
        BY <3>1 DEF GraphPrunes, TypeOK
    <3>2. CASE GraphCheckpoints(g) \/ GraphAnswers(g)
        BY <3>2 DEF GraphCheckpoints, GraphAnswers, TypeOK
    <3> QED
        BY <1>2, <3>1, <3>2
  <2>3. Unanswered'
      BY <2>1 DEF Unanswered
  <2>4. ASSUME NEW h \in Handler, pc'[h] = "agent"
        PROVE  msg[h] \in memory' \cup pruned' \/ Len(turns) > idx[h] + 1 \/ Open(idx[h] + 2)
    <3>1. CASE h = g
        BY <2>1, <2>2, <3>1 DEF Remembered
    <3>2. CASE h # g
      <4>1. /\ pc[h] = "agent" /\ idx[g] # idx[h] /\ idx[g] \in Nat /\ idx[h] \in Nat
            /\ Len(turns) \in Nat /\ Len(turns) >= idx[g] + 1 /\ Len(turns) >= idx[h] + 1
          BY <2>1, <2>4, <3>2, QuestionsDiffer DEF TypeOK, TranscriptInv, Placed
      <4>2. CASE idx[g] > idx[h]
          BY <4>1, <4>2
      <4>3. CASE idx[g] < idx[h]
          BY <2>1, <4>1, <4>3, OpenBehind
      <4> QED
          BY <4>1, <4>2, <4>3
    <3> QED
        BY <3>1, <3>2
  <2>5. ASSUME NEW n \in 1..Len(turns), turns[n].role = "agent"
        PROVE  turns[n].msg \in memory' \cup pruned' \/ Open(n)
      BY <2>1, <2>2, <2>5 DEF Remembered
  <2>6. ASSUME NEW f \in Handler, pc'[f] = "graph"
        PROVE  /\ msg[f] \in seen'[f]
               /\ \A n \in 1..Len(turns) :
                     turns[n].role = "agent" => turns[n].msg \in seen'[f] \cup pruned' \/ Open(n)
    <3>1. CASE f = g
        BY <2>1, <2>2, <3>1 DEF Remembered
    <3>2. CASE f # g
        BY <2>1, <2>2, <2>6, <3>2 DEF Remembered
    <3> QED
        BY <3>1, <3>2
  <2>7. Remembered'
      BY <2>1, <2>4, <2>5, <2>6 DEF Remembered, Open
  <2> QED
      BY <2>3, <2>7
<1>3. ASSUME NEW g \in Handler, InsertCustomerTurn(g) PROVE Unanswered' /\ Remembered'
  <2>1. /\ idx' = idx /\ msg' = msg /\ memory' = memory /\ seen' = seen
        /\ pruned' = pruned
        /\ pc[g] = "customer" /\ pc'[g] = "config"
        /\ \A h \in Handler : h # g => pc'[h] = pc[h]
      BY <1>3 DEF InsertCustomerTurn, TypeOK
  <2>2. idx[g] = Len(turns) /\ Len(turns) \in Nat /\ \A h \in Handler : idx[h] \in Nat
      BY <1>3, FreeIndexIsNext DEF TypeOK, TranscriptInv, Placed, InsertCustomerTurn
  <2>3. Question(g) \in Turn /\ turns' = Append(turns, Question(g)) /\ Question(g).role = "customer"
      BY <1>3 DEF InsertCustomerTurn, InsertTurn, Question, Turn, TypeOK
  <2>4. /\ Len(turns') = Len(turns) + 1
        /\ \A n \in 1..Len(turns) : turns'[n] = turns[n]
        /\ turns'[Len(turns) + 1].role = "customer"
      BY <2>3, AppendKeeps
  <2>5. Unanswered'
      BY <2>1, <2>2, <2>4 DEF Unanswered
  <2>6. \A n \in Nat : n <= Len(turns) + 1 /\ Open(n) => Open(n)'
      BY <2>3, OpenStays
  <2>7. ASSUME NEW n \in 1..Len(turns'), turns'[n].role = "agent"
        PROVE  n \in 1..Len(turns) /\ turns'[n] = turns[n] /\ turns[n].role = "agent"
      BY <2>2, <2>4, <2>7
  <2>8. ASSUME NEW h \in Handler, pc'[h] = "agent"
        PROVE  msg[h] \in memory \cup pruned \/ Len(turns') > idx[h] + 1
    <3>1. pc[h] = "agent" /\ Len(turns) >= idx[h] + 1
        BY <2>1, <2>8 DEF TranscriptInv, Placed
    <3> QED
        BY <2>2, <2>4, <3>1
  <2>9. Remembered'
    <3>1. ASSUME NEW n \in 1..Len(turns'), turns'[n].role = "agent"
          PROVE  turns'[n].msg \in memory \cup pruned \/ Open(n)'
        BY <2>2, <2>6, <2>7, <3>1 DEF Remembered
    <3>2. ASSUME NEW f \in Handler, pc'[f] = "graph",
                 NEW n \in 1..Len(turns'), turns'[n].role = "agent"
          PROVE  turns'[n].msg \in seen[f] \cup pruned \/ Open(n)'
      <4>1. pc[f] = "graph"
          BY <2>1, <3>2
      <4> QED
          BY <2>2, <2>6, <2>7, <3>2, <4>1 DEF Remembered
    <3>3. ASSUME NEW f \in Handler, pc'[f] = "graph" PROVE msg[f] \in seen[f]
        BY <2>1, <3>3 DEF Remembered
    <3> QED
        BY <2>1, <2>8, <3>1, <3>2, <3>3 DEF Remembered
  <2> QED
      BY <2>5, <2>9
<1>4. ASSUME NEW g \in Handler, InsertAgentTurn(g) PROVE Unanswered' /\ Remembered'
  <2>1. /\ idx' = idx /\ msg' = msg /\ memory' = memory /\ seen' = seen
        /\ pruned' = pruned
        /\ pc[g] = "agent" /\ pc'[g] = "respond"
        /\ \A h \in Handler : h # g => pc'[h] = pc[h]
      BY <1>4 DEF InsertAgentTurn, TypeOK
  <2>2. /\ idx[g] + 1 = Len(turns) /\ Len(turns) \in Nat /\ \A h \in Handler : idx[h] \in Nat
      <3>1. idx[g] + 1 \in Nat /\ idx[g] + 1 <= Len(turns) /\ IndexFree(idx[g] + 1)
          BY <1>4 DEF TypeOK, TranscriptInv, Placed, InsertAgentTurn
      <3> QED
          BY <3>1, FreeIndexIsNext DEF TypeOK, TranscriptInv
  <2>3. /\ Response(g) \in Turn /\ turns' = Append(turns, Response(g))
        /\ Response(g).msg = msg[g]
      BY <1>4 DEF InsertAgentTurn, InsertTurn, Response, Turn, TypeOK
  <2>4. /\ Len(turns') = Len(turns) + 1
        /\ \A n \in 1..Len(turns) : turns'[n] = turns[n]
        /\ turns'[Len(turns) + 1].msg = msg[g]
      BY <2>3, AppendKeeps
  <2>5. \A n \in Nat : n <= Len(turns) + 1 /\ Open(n) => Open(n)'
      BY <2>3, OpenStays
  <2>6. ASSUME NEW h \in Handler, pc'[h] \in {"config", "graph", "agent"}
        PROVE  h # g /\ pc[h] = pc'[h] /\ idx[h] < idx[g]
    <3>1. h # g /\ pc[h] = pc'[h]
        BY <2>1, <2>6
    <3>2. idx[h] # idx[g] /\ Len(turns) >= idx[h] + 1
        BY <2>1, <2>6, <3>1, QuestionsDiffer DEF TranscriptInv, Placed
    <3> QED
        BY <2>2, <3>1, <3>2
  <2>7. Unanswered'
    <3> SUFFICES ASSUME NEW h \in Handler, pc'[h] \in {"config", "graph", "agent"}
                 PROVE  turns'[idx[h] + 2].role = "customer"
        BY <2>1 DEF Unanswered
    <3>1. idx[h] + 2 \in 1..Len(turns)
        BY <2>2, <2>6
    <3> QED
        BY <2>2, <2>4, <2>6, <3>1 DEF Unanswered
  <2>8. ASSUME NEW h \in Handler, pc'[h] = "graph" PROVE Open(Len(turns) + 1)
    <3>1. Open(idx[g] + 2)
        BY <2>2, <2>6, <2>8, OpenBehind
    <3>2. idx[g] + 2 = Len(turns) + 1
        BY <2>2
    <3> QED
        BY <3>1, <3>2
  <2>9. msg[g] \in memory \cup pruned \/ Open(Len(turns) + 1)
    <3>1. ~(Len(turns) > idx[g] + 1) /\ idx[g] + 2 = Len(turns) + 1
        BY <2>2
    <3> QED
        BY <2>1, <3>1 DEF Remembered
  <2>10. ASSUME NEW n \in 1..Len(turns'), turns'[n].role = "agent"
         PROVE  turns'[n].msg \in memory \cup pruned \/ Open(n)'
    <3>1. CASE n \in 1..Len(turns)
        BY <2>2, <2>4, <2>5, <2>10, <3>1 DEF Remembered
    <3>2. CASE n = Len(turns) + 1
        BY <2>2, <2>4, <2>5, <2>9, <3>2
    <3> QED
        BY <2>2, <2>4, <3>1, <3>2
  <2>11. ASSUME NEW f \in Handler, pc'[f] = "graph",
                NEW n \in 1..Len(turns'), turns'[n].role = "agent"
         PROVE  turns'[n].msg \in seen[f] \cup pruned \/ Open(n)'
    <3>1. CASE n \in 1..Len(turns)
      <4>1. pc[f] = "graph"
          BY <2>6, <2>11
      <4> QED
          BY <2>2, <2>4, <2>5, <2>11, <3>1, <4>1 DEF Remembered
    <3>2. CASE n = Len(turns) + 1
        BY <2>2, <2>5, <2>8, <2>11, <3>2
    <3> QED
        BY <2>2, <2>4, <3>1, <3>2
  <2>12. Remembered'
    <3>1. ASSUME NEW f \in Handler, pc'[f] = "graph" PROVE msg[f] \in seen[f]
        BY <2>6, <3>1 DEF Remembered
    <3>2. ASSUME NEW h \in Handler, pc'[h] = "agent"
          PROVE  Len(turns') > idx[h] + 1
        BY <2>2, <2>4, <2>6, <3>2
    <3> QED
        BY <2>1, <2>10, <2>11, <3>1, <3>2 DEF Remembered
  <2> QED
      BY <2>7, <2>12
<1>5. ASSUME \/ \E g \in Handler :
                  \/ \E m \in Message : Submit(g, m) \/ Receive(g, m)
                  \/ Connect(g) \/ Disconnect(g) \/ Crash(g)
                  \/ GetKey(g) \/ AcquireKey(g) \/ CheckConversation(g) \/ CountTurns(g)
                  \/ StoreResponse(g) \/ Respond(g) \/ TurnRaises(g) \/ HandleFailure(g)
             \/ Close \/ (\E k \in KeyedMessage : Expire(k)) \/ UNCHANGED vars
      PROVE  Unanswered' /\ Remembered'
  <2> SUFFICES /\ UNCHANGED <<turns, memory, seen, pruned>>
               /\ \A h \in Handler : pc'[h] \in {"config", "graph", "agent"} =>
                     pc'[h] = pc[h] /\ idx'[h] = idx[h] /\ msg'[h] = msg[h]
      BY RememberedStays
  <2> USE DEF Finish, Rest, TypeOK
  <2>1. ASSUME NEW g \in Handler, NEW m \in Message, Submit(g, m) \/ Receive(g, m)
        PROVE  /\ UNCHANGED <<turns, memory, seen, pruned>>
               /\ \A h \in Handler : pc'[h] \in {"config", "graph", "agent"} =>
                     pc'[h] = pc[h] /\ idx'[h] = idx[h] /\ msg'[h] = msg[h]
      BY <2>1 DEF Submit, Receive
  <2>2. ASSUME NEW g \in Handler, Connect(g) \/ Disconnect(g) \/ Crash(g) \/ CountTurns(g)
        PROVE  /\ UNCHANGED <<turns, memory, seen, pruned>>
               /\ \A h \in Handler : pc'[h] \in {"config", "graph", "agent"} =>
                     pc'[h] = pc[h] /\ idx'[h] = idx[h] /\ msg'[h] = msg[h]
      BY <2>2 DEF Connect, Disconnect, Crash, CountTurns
  <2>3. ASSUME NEW g \in Handler, GetKey(g) \/ AcquireKey(g) \/ CheckConversation(g)
        PROVE  /\ UNCHANGED <<turns, memory, seen, pruned>>
               /\ \A h \in Handler : pc'[h] \in {"config", "graph", "agent"} =>
                     pc'[h] = pc[h] /\ idx'[h] = idx[h] /\ msg'[h] = msg[h]
      BY <2>3 DEF GetKey, AcquireKey, CheckConversation
  <2>4. ASSUME NEW g \in Handler,
               StoreResponse(g) \/ Respond(g) \/ TurnRaises(g) \/ HandleFailure(g)
        PROVE  /\ UNCHANGED <<turns, memory, seen, pruned>>
               /\ \A h \in Handler : pc'[h] \in {"config", "graph", "agent"} =>
                     pc'[h] = pc[h] /\ idx'[h] = idx[h] /\ msg'[h] = msg[h]
      BY <2>4 DEF StoreResponse, Respond, TurnRaises, HandleFailure
  <2>5. ASSUME Close \/ (\E k \in KeyedMessage : Expire(k)) \/ UNCHANGED vars
        PROVE  UNCHANGED <<turns, memory, seen, pruned, pc, idx, msg>>
      BY <2>5 DEF Close, Expire, vars
  <2> QED
      BY <1>5, <2>1, <2>2, <2>3, <2>4, <2>5
<1> QED
    BY <1>1, <1>2, <1>3, <1>4, <1>5 DEF Next, Handle

\* The checkpoint of a thread, which runs overwrite without a lock
\* (chat_service.py:159), lacks an answered message only behind a question that was
\* left unanswered, unless a run has pruned it: two runs that both got their answers
\* stored never overlapped.
THEOREM ForgottenBehindOpenQuestion == Spec => []ForgottenNeedsUnanswered
<1>1. Init => Unanswered /\ Remembered
  <2> SUFFICES ASSUME Init PROVE Unanswered /\ Remembered
      OBVIOUS
  <2>1. Len(turns) = 0 /\ \A h \in Handler : pc[h] = "new"
      BY DEF Init
  <2> QED
      BY <2>1 DEF Unanswered, Remembered
<1>2. TypeOK /\ TranscriptInv /\ Unanswered /\ Remembered /\ [Next]_vars
          => Unanswered' /\ Remembered'
    BY NextRemembered
<1>3. Remembered => ForgottenNeedsUnanswered
    BY DEF Remembered, ForgottenNeedsUnanswered, Open
<1> QED
    BY <1>1, <1>2, <1>3, TranscriptInvariant, PTL DEF Spec

---------------------------------------------------------------------------
(* The idempotency key *)

LEMMA NextKeyIsLock ==
    ASSUME TypeOK, KeyIsLock, [Next]_vars
    PROVE  KeyIsLock'
<1> USE DEF KeyIsLock, Holds, Keyed, Holding, Goto, Finish, Rest, SetKey, TypeOK, Handler,
            store, handlers, history
<1>1. ASSUME NEW h \in Handler, NEW m \in Message, Submit(h, m) \/ Receive(h, m)
      PROVE  KeyIsLock'
    <2>1. ASSUME NEW g \in Request, Holds(g)' PROVE g # h /\ msg'[g] = msg[g] /\ Holds(g)
        <3>1. CASE Submit(h, m)
            BY <2>1, <3>1 DEF Submit
        <3>2. CASE Receive(h, m)
            BY <2>1, <3>2, ChatTurnsAssumption DEF Receive
        <3> QED
            BY <1>1, <3>1, <3>2
    <2>2. cache' = cache
        BY <1>1 DEF Submit, Receive
    <2>3. ASSUME NEW g \in Request, Holds(g)'
          PROVE  pc'[g] = pc[g] /\ idx'[g] = idx[g]
        BY <1>1, <2>1, <2>3 DEF Submit, Receive
    <2> QED
        BY <2>1, <2>2, <2>3
<1>2. ASSUME NEW h \in Handler,
             \/ Connect(h) \/ Disconnect(h) \/ Crash(h) \/ GetKey(h) \/ CheckConversation(h)
             \/ CountTurns(h)
      PROVE  KeyIsLock'
    BY <1>2, ChatTurnsAssumption
    DEF Connect, Disconnect, Crash, GetKey, CheckConversation, CountTurns
<1>3. ASSUME NEW h \in Handler,
             \/ InsertCustomerTurn(h) \/ StartGraph(h) \/ GraphPrunes(h) \/ GraphCheckpoints(h)
             \/ GraphAnswers(h) \/ InsertAgentTurn(h)
      PROVE  KeyIsLock'
    BY <1>3, ChatTurnsAssumption
    DEF InsertCustomerTurn, StartGraph, GraphPrunes, GraphCheckpoints, GraphAnswers,
        InsertAgentTurn
<1>4. ASSUME NEW h \in Handler, AcquireKey(h)
      PROVE  KeyIsLock'
    BY <1>4, ChatTurnsAssumption DEF AcquireKey, Absent, InProgress
<1>5. ASSUME NEW h \in Handler, StoreResponse(h) \/ Respond(h) \/ HandleFailure(h)
      PROVE  KeyIsLock'
    <2>1. CASE StoreResponse(h)
        BY <2>1, ChatTurnsAssumption DEF StoreResponse
    <2>2. CASE Respond(h)
        BY <2>2, ChatTurnsAssumption DEF Respond
    <2>3. CASE HandleFailure(h)
        BY <2>3, ChatTurnsAssumption DEF HandleFailure
    <2> QED
        BY <1>5, <2>1, <2>2, <2>3
<1>6. ASSUME NEW h \in Handler, TurnRaises(h)
      PROVE  KeyIsLock'
    BY <1>6, ChatTurnsAssumption DEF TurnRaises, MayRaise
<1>7. ASSUME Close \/ (\E k \in KeyedMessage : Expire(k)) \/ UNCHANGED vars
      PROVE  KeyIsLock'
    BY <1>7, ChatTurnsAssumption DEF Close, Expire, vars
<1> QED
    BY <1>1, <1>2, <1>3, <1>4, <1>5, <1>6, <1>7 DEF Next, Handle

\* The get and the SET NX of chat.py:39-47 make a lock of the Redis key: one
\* request at a time works on a keyed message, whatever fails or expires, and as
\* long as it does the key is in progress or holds its own response.
THEOREM KeyIsMutex == Spec => []KeyIsLock
<1>1. Init => KeyIsLock
    BY DEF Init, KeyIsLock, Holds, Holding, Handler
<1>2. TypeOK /\ KeyIsLock /\ [Next]_vars => KeyIsLock'
    BY NextKeyIsLock
<1> QED
    BY <1>1, <1>2, TypeCorrect, PTL DEF Spec

---------------------------------------------------------------------------
(* Retries of a keyed message *)

\* A request that was answered is done; it can be cut off, not answered again.
AnsweredOnce == \A h \in Request : reply[h] # "none" => pc[h] = "done"

\* An answer is what the key of the message holds, as long as it lives and the
\* answer was not withdrawn.
AnswerKept ==
    \A h \in Request :
        Keyed(h) /\ msg[h] \notin expired /\ reply[h] \in {"ok", "cached"} =>
            \/ cache[msg[h]] = answer[h] /\ cache[msg[h]] >= 0
            \/ Withdrawn(msg[h], answer[h])

LEMMA NextAnsweredOnce ==
    ASSUME TypeOK, AnsweredOnce, [Next]_vars
    PROVE  AnsweredOnce'
<1> SUFFICES ASSUME NEW h \in Request, reply'[h] # "none" PROVE pc'[h] = "done"
    BY DEF AnsweredOnce
<1> USE DEF AnsweredOnce, Goto, Finish, Rest, TypeOK, store, handlers, history
<1>0. h \in Handler /\ h \notin Socket
    BY ChatTurnsAssumption DEF Handler
<1>1. ASSUME NEW g \in Handler, NEW m \in Message, Submit(g, m) \/ Receive(g, m)
      PROVE  pc'[h] = "done"
    BY <1>0, <1>1 DEF Submit, Receive
<1>2. ASSUME NEW g \in Handler, Connect(g) \/ Disconnect(g) \/ Crash(g) PROVE pc'[h] = "done"
    BY <1>0, <1>2 DEF Connect, Disconnect, Crash
<1>3. ASSUME NEW g \in Handler,
             GetKey(g) \/ AcquireKey(g) \/ CheckConversation(g) \/ CountTurns(g)
      PROVE  pc'[h] = "done"
    BY <1>0, <1>3 DEF GetKey, AcquireKey, CheckConversation, CountTurns
<1>4. ASSUME NEW g \in Handler,
             \/ InsertCustomerTurn(g) \/ StartGraph(g) \/ GraphPrunes(g) \/ GraphCheckpoints(g)
             \/ GraphAnswers(g) \/ InsertAgentTurn(g)
      PROVE  pc'[h] = "done"
    BY <1>0, <1>4 DEF InsertCustomerTurn, StartGraph, GraphPrunes, GraphCheckpoints,
                      GraphAnswers, InsertAgentTurn
<1>5. ASSUME NEW g \in Handler,
             StoreResponse(g) \/ Respond(g) \/ TurnRaises(g) \/ HandleFailure(g)
      PROVE  pc'[h] = "done"
    BY <1>0, <1>5 DEF StoreResponse, Respond, TurnRaises, MayRaise, HandleFailure
<1>6. ASSUME Close \/ (\E k \in KeyedMessage : Expire(k)) \/ UNCHANGED vars
      PROVE  pc'[h] = "done"
    BY <1>0, <1>6 DEF Close, Expire, vars
<1> QED
    BY <1>1, <1>2, <1>3, <1>4, <1>5, <1>6 DEF Next, Handle

\* A request that was answered stays as it is.
LEMMA AnsweredStays ==
    ASSUME TypeOK, AnsweredOnce, [Next]_vars, NEW h \in Request, reply[h] # "none"
    PROVE  reply'[h] = reply[h] /\ answer'[h] = answer[h] /\ msg'[h] = msg[h] /\ idx'[h] = idx[h]
<1> DEFINE Same == /\ reply'[h] = reply[h] /\ answer'[h] = answer[h]
                   /\ msg'[h] = msg[h] /\ idx'[h] = idx[h]
<1> USE DEF Goto, Finish, TypeOK, store, handlers, history
<1>0. h \in Handler /\ h \notin Socket /\ pc[h] = "done"
    BY ChatTurnsAssumption DEF Handler, AnsweredOnce
<1>1. ASSUME NEW g \in Handler, NEW m \in Message, Submit(g, m) \/ Receive(g, m)
      PROVE  Same
    BY <1>0, <1>1 DEF Submit, Receive
<1>2. ASSUME NEW g \in Handler, Connect(g) \/ Disconnect(g) \/ Crash(g) PROVE Same
    BY <1>0, <1>2 DEF Connect, Disconnect, Crash
<1>3. ASSUME NEW g \in Handler,
             GetKey(g) \/ AcquireKey(g) \/ CheckConversation(g) \/ CountTurns(g)
      PROVE  Same
    BY <1>0, <1>3 DEF GetKey, AcquireKey, CheckConversation, CountTurns
<1>4. ASSUME NEW g \in Handler,
             \/ InsertCustomerTurn(g) \/ StartGraph(g) \/ GraphPrunes(g) \/ GraphCheckpoints(g)
             \/ GraphAnswers(g) \/ InsertAgentTurn(g)
      PROVE  Same
    BY <1>4 DEF InsertCustomerTurn, StartGraph, GraphPrunes, GraphCheckpoints, GraphAnswers,
                InsertAgentTurn
<1>5. ASSUME NEW g \in Handler,
             StoreResponse(g) \/ Respond(g) \/ TurnRaises(g) \/ HandleFailure(g)
      PROVE  Same
    BY <1>0, <1>5 DEF StoreResponse, Respond, TurnRaises, HandleFailure
<1>6. ASSUME Close \/ (\E k \in KeyedMessage : Expire(k)) \/ UNCHANGED vars PROVE Same
    BY <1>6 DEF Close, Expire, vars
<1> QED
    BY <1>1, <1>2, <1>3, <1>4, <1>5, <1>6 DEF Next, Handle

LEMMA WithdrawnStays ==
    ASSUME TypeOK, AnsweredOnce, [Next]_vars, NEW k, NEW i, Withdrawn(k, i)
    PROVE  Withdrawn(k, i)'
<1>1. PICK f \in Request :
          Keyed(f) /\ msg[f] = k /\ reply[f] = "error" /\ idx[f] + 1 = i
    BY DEF Withdrawn
<1>2. reply'[f] = "error" /\ msg'[f] = msg[f] /\ idx'[f] = idx[f]
    BY <1>1, AnsweredStays
<1> QED
    BY <1>1, <1>2 DEF Withdrawn, Keyed

\* What a step does to the key of a message: nothing, or a request takes it
\* while it is absent, or its holder stores a turn or frees it, or it expires.
Takes(g, k)  == AcquireKey(g) /\ cache[k] = Absent /\ cache'[k] = InProgress
Stores(g, k) == StoreResponse(g) /\ cache'[k] = idx[g] + 1
Frees(g, k)  == HandleFailure(g) /\ cache'[k] = Absent

LEMMA KeySteps ==
    ASSUME TypeOK, [Next]_vars, NEW k \in KeyedMessage
    PROVE  \/ cache'[k] = cache[k]
           \/ \E g \in Request :
                 Keyed(g) /\ msg[g] = k /\ (Takes(g, k) \/ Stores(g, k) \/ Frees(g, k))
           \/ k \in expired'
<1> USE DEF Goto, Finish, SetKey, TypeOK, store, handlers, history
<1>1. ASSUME NEW g \in Handler, NEW m \in Message, Submit(g, m) \/ Receive(g, m)
      PROVE  cache'[k] = cache[k]
    BY <1>1 DEF Submit, Receive
<1>2. ASSUME NEW g \in Handler, Connect(g) \/ Disconnect(g) \/ Crash(g) \/ GetKey(g)
                                \/ CheckConversation(g) \/ CountTurns(g)
      PROVE  cache'[k] = cache[k]
    BY <1>2 DEF Connect, Disconnect, Crash, GetKey, CheckConversation, CountTurns
<1>3. ASSUME NEW g \in Handler, InsertCustomerTurn(g) \/ InsertAgentTurn(g) \/ StartGraph(g)
                                \/ GraphPrunes(g) \/ GraphCheckpoints(g)
                                \/ GraphAnswers(g) \/ TurnRaises(g)
                                \/ Respond(g)
      PROVE  cache'[k] = cache[k]
    BY <1>3 DEF InsertCustomerTurn, InsertAgentTurn, StartGraph, GraphPrunes, GraphCheckpoints,
                GraphAnswers, TurnRaises, Respond
<1>4. ASSUME NEW g \in Handler, AcquireKey(g), cache'[k] # cache[k]
      PROVE  g \in Request /\ Keyed(g) /\ msg[g] = k /\ Takes(g, k)
    <2>1. Keyed(g) /\ cache' = [cache EXCEPT ![msg[g]] = InProgress] /\ cache[msg[g]] = Absent
        BY <1>4 DEF AcquireKey
    <2>2. msg[g] = k
        BY <1>4, <2>1
    <2> QED
        BY <1>4, <2>1, <2>2 DEF Takes, Keyed
<1>5. ASSUME NEW g \in Handler, StoreResponse(g) \/ HandleFailure(g), cache'[k] # cache[k]
      PROVE  g \in Request /\ Keyed(g) /\ msg[g] = k /\ (Stores(g, k) \/ Frees(g, k))
    <2>1. Keyed(g) /\ msg[g] = k
        BY <1>5 DEF StoreResponse, HandleFailure
    <2> QED
        BY <1>5, <2>1 DEF StoreResponse, HandleFailure, Stores, Frees, Keyed
<1>6. ASSUME NEW l \in KeyedMessage, Expire(l) PROVE cache'[k] = cache[k] \/ k \in expired'
    BY <1>6 DEF Expire
<1>7. ASSUME Close \/ UNCHANGED vars PROVE cache'[k] = cache[k]
    BY <1>7 DEF Close, vars
<1> QED
    BY <1>1, <1>2, <1>3, <1>4, <1>5, <1>6, <1>7 DEF Next, Handle

\* A request gets its answer from the key or from its own run, and keeps it.
SameReply(h) ==
    /\ reply'[h] = reply[h] /\ answer'[h] = answer[h] /\ msg'[h] = msg[h]
    /\ expired \subseteq expired'

LEMMA AnswerSteps ==
    ASSUME TypeOK, AnsweredOnce, [Next]_vars, NEW h \in Request, reply'[h] \in {"ok", "cached"}
    PROVE  SameReply(h) \/ Respond(h) \/ (GetKey(h) /\ reply'[h] = "cached")
<1> USE DEF SameReply, Goto, Finish, TypeOK, AnsweredOnce, store, handlers, history
<1>0. h \in Handler /\ h \notin Socket
    BY ChatTurnsAssumption DEF Handler
<1>1. ASSUME NEW g \in Handler, NEW m \in Message, Submit(g, m) \/ Receive(g, m)
      PROVE  SameReply(h)
    BY <1>0, <1>1 DEF Submit, Receive
<1>2. ASSUME NEW g \in Handler, Connect(g) \/ Disconnect(g) \/ Crash(g) PROVE SameReply(h)
    BY <1>0, <1>2 DEF Connect, Disconnect, Crash
<1>3. ASSUME NEW g \in Handler, GetKey(g)
      PROVE  SameReply(h) \/ (GetKey(h) /\ reply'[h] = "cached")
    BY <1>0, <1>3 DEF GetKey
<1>4. ASSUME NEW g \in Handler, AcquireKey(g) \/ CheckConversation(g) \/ CountTurns(g)
      PROVE  SameReply(h)
    BY <1>0, <1>4 DEF AcquireKey, CheckConversation, CountTurns
<1>5. ASSUME NEW g \in Handler,
             \/ InsertCustomerTurn(g) \/ StartGraph(g) \/ GraphPrunes(g) \/ GraphCheckpoints(g)
             \/ GraphAnswers(g) \/ InsertAgentTurn(g) \/ TurnRaises(g)
      PROVE  SameReply(h)
    BY <1>0, <1>5 DEF InsertCustomerTurn, StartGraph, GraphPrunes, GraphCheckpoints,
                      GraphAnswers, InsertAgentTurn, TurnRaises
<1>6. ASSUME NEW g \in Handler, StoreResponse(g) \/ Respond(g) \/ HandleFailure(g)
      PROVE  SameReply(h) \/ Respond(h)
    BY <1>0, <1>6 DEF StoreResponse, Respond, HandleFailure
<1>7. ASSUME Close \/ (\E k \in KeyedMessage : Expire(k)) \/ UNCHANGED vars
      PROVE  SameReply(h)
    BY <1>7 DEF Close, Expire, vars
<1> QED
    BY <1>1, <1>2, <1>3, <1>4, <1>5, <1>6, <1>7 DEF Next, Handle

\* A request that got an answer keeps others from the key, or the holder that
\* stored the answer withdraws it.
LEMMA NextAnswerKept ==
    ASSUME TypeOK, KeyIsLock, AnsweredOnce, AnswerKept, [Next]_vars
    PROVE  AnswerKept'
<1> SUFFICES ASSUME NEW h \in Request, Keyed(h)', msg'[h] \notin expired',
                    reply'[h] \in {"ok", "cached"}
             PROVE  \/ cache'[msg'[h]] = answer'[h] /\ cache'[msg'[h]] >= 0
                    \/ Withdrawn(msg[h], answer[h])'
    BY DEF AnswerKept
<1>0. h \in Handler /\ h \notin Socket
    BY ChatTurnsAssumption DEF Handler
<1>1. CASE Respond(h)
    <2>1. /\ Keyed(h) /\ msg' = msg /\ cache' = cache /\ answer'[h] = idx[h] + 1
          /\ idx[h] \in Nat
        BY <1>0, <1>1 DEF Respond, Finish, Keyed, TypeOK, store
    <2>2. Holds(h) /\ pc[h] = "return"
        BY <1>1, <2>1 DEF Respond, Holds, Holding
    <2>3. cache[msg[h]] = idx[h] + 1
        BY <2>2 DEF KeyIsLock
    <2> QED
        BY <2>1, <2>3
<1>2. CASE GetKey(h) /\ reply'[h] = "cached"
    <2>1. /\ msg' = msg /\ cache' = cache /\ Keyed(h)
          /\ cache[msg[h]] \notin {Absent, InProgress} /\ answer'[h] = cache[msg[h]]
        BY <1>0, <1>2 DEF GetKey, Finish, Keyed, TypeOK, store, AnsweredOnce
    <2>2. cache[msg[h]] \in Nat
        BY <2>1 DEF TypeOK, Keyed
    <2> QED
        BY <2>1, <2>2
<1>3. CASE SameReply(h)
    <2>1. /\ Keyed(h) /\ msg[h] \in KeyedMessage /\ msg[h] \notin expired
          /\ msg'[h] = msg[h] /\ answer'[h] = answer[h]
          /\ \/ cache[msg[h]] = answer[h] /\ cache[msg[h]] >= 0
             \/ Withdrawn(msg[h], answer[h])
        BY <1>3 DEF SameReply, AnswerKept, Keyed
    <2>2. CASE Withdrawn(msg[h], answer[h])
        BY <2>1, <2>2, WithdrawnStays DEF Withdrawn
    <2>3. CASE cache[msg[h]] = answer[h] /\ cache[msg[h]] >= 0
      <3>1. cache[msg[h]] # Absent /\ cache[msg[h]] # InProgress
          BY <2>3 DEF Absent, InProgress
      <3>2. ASSUME NEW g \in Request, Keyed(g), msg[g] = msg[h]
            PROVE  ~Takes(g, msg[h]) /\ ~Stores(g, msg[h])
          BY <3>1, <3>2 DEF Takes, Stores, KeyIsLock, Holds, Holding, StoreResponse
      <3>3. ASSUME NEW g \in Request, Keyed(g), msg[g] = msg[h], Frees(g, msg[h])
            PROVE  Withdrawn(msg[h], answer[h])'
        <4>1. Holds(g) /\ idx[g] + 1 = answer[h]
            BY <2>3, <3>1, <3>3 DEF Frees, KeyIsLock, Holds, Holding, HandleFailure
        <4>2. reply'[g] = "error" /\ msg' = msg /\ idx' = idx
            BY <3>3 DEF Frees, HandleFailure, Finish, TypeOK, Handler
        <4> QED
            BY <2>1, <3>3, <4>1, <4>2 DEF Withdrawn, Keyed
      <3>4. cache'[msg[h]] = cache[msg[h]] \/ Withdrawn(msg[h], answer[h])'
          BY <1>3, <2>1, <3>2, <3>3, KeySteps DEF SameReply
      <3> QED
          BY <2>1, <2>3, <3>4
    <2> QED
        BY <2>1, <2>2, <2>3
<1> QED
    BY <1>1, <1>2, <1>3, AnswerSteps DEF SameReply

\* Within the life of a key all retries that get an answer get the same turn,
\* whichever of them ran the agent, failed or found the key in progress, unless the
\* handler that stored one of the answers raised after it had (chat.py:36-47, 71-82).
THEOREM RetriesAgree == Spec => []SameAnswerForSameKey
<1>1. Init => KeyIsLock /\ AnsweredOnce /\ AnswerKept
    BY DEF Init, KeyIsLock, Holds, Holding, AnsweredOnce, AnswerKept, Handler
<1>2. TypeOK /\ (KeyIsLock /\ AnsweredOnce /\ AnswerKept) /\ [Next]_vars
          => (KeyIsLock /\ AnsweredOnce /\ AnswerKept)'
    BY NextKeyIsLock, NextAnsweredOnce, NextAnswerKept
<1>3. AnswerKept => SameAnswerForSameKey
    BY DEF AnswerKept, SameAnswerForSameKey
<1> QED
    BY <1>1, <1>2, <1>3, TypeCorrect, PTL DEF Spec

\* A request has run the agent only after it began to.
RanLate ==
    \A h \in Request :
        seen[h] # {} => pc[h] \in {"graph", "agent", "respond", "return", "fail", "done"}

\* As long as the key lives, a run that was not answered with an error keeps the
\* key from being absent and from being held by others.
RunGuarded ==
    \A h \in Request :
        Keyed(h) /\ msg[h] \notin expired /\ seen[h] # {} =>
            \/ reply[h] = "error"
            \/ /\ cache[msg[h]] # Absent
               /\ \A g \in Request : Holds(g) /\ msg[g] = msg[h] => g = h

\* A request starts one run and keeps its message and its failure.
SameRun(h) ==
    /\ seen[h] # {} /\ msg'[h] = msg[h] /\ expired \subseteq expired'
    /\ reply[h] = "error" => reply'[h] = "error"

LEMMA RunSteps ==
    ASSUME TypeOK, AnsweredOnce, RanLate, [Next]_vars, NEW h \in Request, seen'[h] # {}
    PROVE  /\ pc'[h] \in {"graph", "agent", "respond", "return", "fail", "done"}
           /\ SameRun(h) \/ StartGraph(h)
<1> USE DEF SameRun, RanLate, Goto, Finish, Rest, TypeOK, AnsweredOnce, store, handlers, history
<1>0. h \in Handler /\ h \notin Socket
    BY ChatTurnsAssumption DEF Handler
<1> DEFINE Goal == /\ pc'[h] \in {"graph", "agent", "respond", "return", "fail", "done"}
                   /\ SameRun(h) \/ StartGraph(h)
<1>1. ASSUME NEW g \in Handler, NEW m \in Message, Submit(g, m) \/ Receive(g, m) PROVE Goal
    BY <1>0, <1>1 DEF Submit, Receive
<1>2. ASSUME NEW g \in Handler, Connect(g) \/ Disconnect(g) \/ Crash(g) PROVE Goal
    BY <1>0, <1>2, ZenonT(60) DEF Connect, Disconnect, Crash
<1>3. ASSUME NEW g \in Handler,
             GetKey(g) \/ AcquireKey(g) \/ CheckConversation(g) \/ CountTurns(g)
      PROVE  Goal
    BY <1>0, <1>3 DEF GetKey, AcquireKey, CheckConversation, CountTurns
<1>4. ASSUME NEW g \in Handler,
             \/ InsertCustomerTurn(g) \/ GraphPrunes(g) \/ GraphCheckpoints(g)
             \/ GraphAnswers(g)
             \/ InsertAgentTurn(g) \/ TurnRaises(g)
      PROVE  Goal
    BY <1>0, <1>4 DEF InsertCustomerTurn, GraphPrunes, GraphCheckpoints, GraphAnswers,
                      InsertAgentTurn,
                      TurnRaises
<1>5. ASSUME NEW g \in Handler, StartGraph(g) PROVE Goal
    BY <1>0, <1>5 DEF StartGraph
<1>6. ASSUME NEW g \in Handler, StoreResponse(g) \/ Respond(g) \/ HandleFailure(g) PROVE Goal
    BY <1>0, <1>6 DEF StoreResponse, Respond, HandleFailure
<1>7. ASSUME Close \/ (\E k \in KeyedMessage : Expire(k)) \/ UNCHANGED vars PROVE Goal
    BY <1>7 DEF Close, Expire, vars
<1> QED
    BY <1>1, <1>2, <1>3, <1>4, <1>5, <1>6, <1>7 DEF Next, Handle

\* Who holds a key has held it, or takes it while it is absent.
LEMMA HolderSteps ==
    ASSUME TypeOK, [Next]_vars, NEW g \in Request, Holds(g)'
    PROVE  Keyed(g) /\ msg'[g] = msg[g] /\ (Holds(g) \/ cache[msg[g]] = Absent)
<1> USE DEF Holds, Holding, Keyed, Goto, Finish, Rest, TypeOK, store, handlers, history
<1>0. g \in Handler /\ g \notin Socket
    BY ChatTurnsAssumption DEF Handler
<1> DEFINE Goal == Keyed(g) /\ msg'[g] = msg[g] /\ (Holds(g) \/ cache[msg[g]] = Absent)
<1>1. ASSUME NEW h \in Handler, NEW m \in Message, Submit(h, m) \/ Receive(h, m) PROVE Goal
    <2>1. CASE Submit(h, m)
        BY <1>0, <2>1 DEF Submit
    <2>2. CASE Receive(h, m)
        BY <1>0, <2>2 DEF Receive
    <2> QED
        BY <1>1, <2>1, <2>2
<1>2. ASSUME NEW h \in Handler, Connect(h) \/ Disconnect(h) \/ Crash(h) PROVE Goal
    BY <1>0, <1>2 DEF Connect, Disconnect, Crash
<1>3. ASSUME NEW h \in Handler,
             GetKey(h) \/ AcquireKey(h) \/ CheckConversation(h) \/ CountTurns(h)
      PROVE  Goal
    BY <1>0, <1>3 DEF GetKey, AcquireKey, CheckConversation, CountTurns
<1>4. ASSUME NEW h \in Handler,
             \/ InsertCustomerTurn(h) \/ StartGraph(h) \/ GraphPrunes(h) \/ GraphCheckpoints(h)
             \/ GraphAnswers(h) \/ InsertAgentTurn(h)
      PROVE  Goal
    BY <1>0, <1>4 DEF InsertCustomerTurn, StartGraph, GraphPrunes, GraphCheckpoints,
                      GraphAnswers, InsertAgentTurn
<1>5. ASSUME NEW h \in Handler,
             StoreResponse(h) \/ Respond(h) \/ TurnRaises(h) \/ HandleFailure(h)
      PROVE  Goal
    BY <1>0, <1>5 DEF StoreResponse, Respond, TurnRaises, MayRaise, HandleFailure
<1>6. ASSUME Close \/ (\E k \in KeyedMessage : Expire(k)) \/ UNCHANGED vars PROVE Goal
    BY <1>6 DEF Close, Expire, vars
<1> QED
    BY <1>1, <1>2, <1>3, <1>4, <1>5, <1>6 DEF Next, Handle

LEMMA StartHolds ==
    ASSUME TypeOK, NEW h \in Request, StartGraph(h), Keyed(h)
    PROVE  /\ Holds(h) /\ pc[h] = "config"
           /\ msg' = msg /\ cache' = cache /\ reply' = reply /\ expired' = expired
<1>1. pc[h] = "config" /\ msg' = msg /\ cache' = cache /\ reply' = reply /\ expired' = expired
    BY DEF StartGraph, history
<1> QED
    BY <1>1 DEF Holds, Holding

\* A run starts while its request has the key in progress.
LEMMA StartInProgress ==
    ASSUME TypeOK, KeyIsLock, NEW h \in Request, StartGraph(h), Keyed(h)
    PROVE  cache[msg[h]] = InProgress
BY StartHolds DEF KeyIsLock


LEMMA NextRunGuarded ==
    ASSUME TypeOK, KeyIsLock, AnsweredOnce, RanLate, RunGuarded, [Next]_vars
    PROVE  RunGuarded'
<1> SUFFICES ASSUME NEW h \in Request, Keyed(h)', msg'[h] \notin expired', seen'[h] # {},
                    reply'[h] # "error"
             PROVE  /\ cache'[msg'[h]] # Absent
                    /\ \A g \in Request : Holds(g)' /\ msg'[g] = msg'[h] => g = h
    BY DEF RunGuarded
<1>1. CASE StartGraph(h)
    <2>1. Keyed(h) /\ msg' = msg /\ cache' = cache
        BY <1>1 DEF StartGraph, Keyed
    <2>2. Holds(h) /\ cache[msg[h]] = InProgress
        BY <1>1, <2>1, StartHolds, StartInProgress
    <2>3. cache'[msg'[h]] # Absent
        BY <2>1, <2>2 DEF Absent, InProgress
    <2>4. ASSUME NEW g \in Request, Holds(g)', msg'[g] = msg'[h] PROVE g = h
        BY <2>1, <2>2, <2>3, <2>4, HolderSteps DEF KeyIsLock
    <2> QED
        BY <2>3, <2>4
<1>2. CASE SameRun(h)
    <2>1. /\ Keyed(h) /\ msg'[h] = msg[h] /\ msg[h] \in KeyedMessage
          /\ cache[msg[h]] # Absent
          /\ \A g \in Request : Holds(g) /\ msg[g] = msg[h] => g = h
        BY <1>2 DEF SameRun, RunGuarded, Keyed
    <2>2. ASSUME NEW g \in Request, Holds(g)', msg'[g] = msg[h] PROVE g = h
        BY <2>1, <2>2, HolderSteps
    <2>3. ASSUME NEW g \in Request, Keyed(g), msg[g] = msg[h], Takes(g, msg[h]) PROVE FALSE
        BY <2>1, <2>3 DEF Takes
    <2>4. ASSUME NEW g \in Request, Keyed(g), msg[g] = msg[h], Frees(g, msg[h]) PROVE FALSE
        <3>1. g = h
            BY <2>1, <2>4 DEF Frees, HandleFailure, Holds, Holding
        <3> QED
            BY <2>4, <3>1 DEF Frees, HandleFailure, Finish, TypeOK, Handler
    <2>5. ASSUME NEW g \in Request, Stores(g, msg[h]) PROVE cache'[msg[h]] # Absent
        <3>1. idx[g] \in Nat
            BY DEF TypeOK, Handler
        <3> QED
            BY <2>5, <3>1 DEF Stores, Absent
    <2>6. cache'[msg[h]] # Absent
        BY <2>1, <2>3, <2>4, <2>5, KeySteps
    <2> QED
        BY <2>1, <2>2, <2>6
<1> QED
    BY <1>1, <1>2, RunSteps

LEMMA NextSecondRun ==
    ASSUME TypeOK, KeyIsLock, AnsweredOnce, RanLate, RunGuarded, SecondRunNeedsFailure,
           [Next]_vars
    PROVE  SecondRunNeedsFailure'
<1>1. ASSUME NEW h \in Request, NEW g \in Request, h # g, SameRun(h), StartGraph(g),
             Keyed(h)', Keyed(g)', msg'[h] = msg'[g], msg'[h] \notin expired'
      PROVE  reply'[h] = "error"
    <2>1. Keyed(h) /\ Keyed(g) /\ msg' = msg /\ msg[h] \notin expired /\ seen[h] # {}
        BY <1>1 DEF SameRun, StartGraph, Keyed
    <2>2. Holds(g) /\ cache[msg[h]] = InProgress
        <3>1. Holds(g) /\ cache[msg[g]] = InProgress
            BY <1>1, <2>1, StartHolds, StartInProgress
        <3> QED
            BY <1>1, <2>1, <3>1
    <2>3. reply[h] = "error"
        BY <1>1, <2>1, <2>2 DEF RunGuarded
    <2> QED
        BY <1>1, <2>3 DEF SameRun
<1>2. ASSUME NEW h \in Request, NEW g \in Request, h # g, SameRun(h), SameRun(g),
             Keyed(h)', Keyed(g)', msg'[h] = msg'[g], msg'[h] \notin expired'
      PROVE  "error" \in {reply'[h], reply'[g]}
    <2>1. /\ Keyed(h) /\ Keyed(g) /\ msg[h] = msg[g] /\ msg[h] \notin expired
          /\ seen[h] # {} /\ seen[g] # {}
        BY <1>2 DEF SameRun, Keyed
    <2>2. "error" \in {reply[h], reply[g]}
        BY <1>2, <2>1 DEF SecondRunNeedsFailure
    <2> QED
        BY <1>2, <2>2 DEF SameRun
<1>3. ASSUME NEW h \in Request, NEW g \in Request, h # g, StartGraph(h), StartGraph(g),
             Keyed(h), Keyed(g), msg[h] = msg[g]
      PROVE  FALSE
    BY <1>3, StartHolds DEF KeyIsLock
<1>4. ASSUME NEW h \in Request, StartGraph(h) PROVE msg' = msg
    BY <1>4 DEF StartGraph
<1> SUFFICES ASSUME NEW h \in Request, NEW g \in Request, h # g, Keyed(h)', Keyed(g)',
                    msg'[h] = msg'[g], msg'[h] \notin expired',
                    seen'[h] # {}, seen'[g] # {}
             PROVE  "error" \in {reply'[h], reply'[g]}
    BY DEF SecondRunNeedsFailure
<1>5. (SameRun(h) \/ StartGraph(h)) /\ (SameRun(g) \/ StartGraph(g))
    BY RunSteps
<1> QED
    BY <1>1, <1>2, <1>3, <1>4, <1>5 DEF Keyed

\* While a key lives, the agent runs twice for its message only if one of the two
\* requests was answered with an error: a run that succeeded, was cut off or
\* still goes on keeps all retries away from the agent (chat.py:36-47, 84-88).
THEOREM RunsAreNotRepeated == Spec => []SecondRunNeedsFailure
<1> DEFINE RunInv == /\ KeyIsLock /\ AnsweredOnce /\ RanLate /\ RunGuarded
                     /\ SecondRunNeedsFailure
<1>1. Init => RunInv
    BY DEF Init, KeyIsLock, Holds, Holding, AnsweredOnce, RanLate, RunGuarded,
           SecondRunNeedsFailure, Handler
<1>2. TypeOK /\ RunInv /\ [Next]_vars => RunInv'
    <2>1. TypeOK /\ AnsweredOnce /\ RanLate /\ [Next]_vars => RanLate'
        BY RunSteps DEF RanLate
    <2> QED
        BY <2>1, NextKeyIsLock, NextAnsweredOnce, NextRunGuarded, NextSecondRun
<1>3. RunInv => SecondRunNeedsFailure
    OBVIOUS
<1> QED
    BY <1>1, <1>2, <1>3, TypeCorrect, PTL DEF Spec

---------------------------------------------------------------------------
(* The registry of sockets *)

\* A registered socket was accepted and is still there: a socket never ends
\* without clearing the entry of its conversation (ws_manager.py:9-15).
THEOREM RegistryIsLive == Spec => []RegistryHoldsLiveSocket
<1>1. Init => RegistryHoldsLiveSocket
    BY DEF Init, RegistryHoldsLiveSocket
<1>2. TypeOK /\ RegistryHoldsLiveSocket /\ [Next]_vars => RegistryHoldsLiveSocket'
    <2> SUFFICES ASSUME TypeOK, RegistryHoldsLiveSocket, [Next]_vars
                 PROVE  RegistryHoldsLiveSocket'
        OBVIOUS
    <2> USE DEF RegistryHoldsLiveSocket, Goto, Finish, Rest, TypeOK, Handler, store,
                handlers, history
    <2>1. ASSUME NEW g \in Handler, NEW m \in Message, Submit(g, m) \/ Receive(g, m)
          PROVE  RegistryHoldsLiveSocket'
        BY <2>1, ChatTurnsAssumption DEF Submit, Receive
    <2>2. ASSUME NEW g \in Handler, Connect(g) \/ Disconnect(g) \/ Crash(g)
          PROVE  RegistryHoldsLiveSocket'
        BY <2>2, ChatTurnsAssumption DEF Connect, Disconnect, Crash
    <2>3. ASSUME NEW g \in Handler,
                 GetKey(g) \/ AcquireKey(g) \/ CheckConversation(g) \/ CountTurns(g)
          PROVE  RegistryHoldsLiveSocket'
        BY <2>3, ChatTurnsAssumption DEF GetKey, AcquireKey, CheckConversation, CountTurns
    <2>4. ASSUME NEW g \in Handler,
                 \/ InsertCustomerTurn(g) \/ StartGraph(g) \/ GraphPrunes(g)
                 \/ GraphCheckpoints(g)
                 \/ GraphAnswers(g) \/ InsertAgentTurn(g)
          PROVE  RegistryHoldsLiveSocket'
        BY <2>4, ChatTurnsAssumption DEF InsertCustomerTurn, StartGraph, GraphPrunes,
                                         GraphCheckpoints,
                                         GraphAnswers, InsertAgentTurn
    <2>5. ASSUME NEW g \in Handler,
                 StoreResponse(g) \/ Respond(g) \/ TurnRaises(g) \/ HandleFailure(g)
          PROVE  RegistryHoldsLiveSocket'
        BY <2>5, ChatTurnsAssumption DEF StoreResponse, Respond, TurnRaises, HandleFailure
    <2>6. ASSUME Close \/ (\E k \in KeyedMessage : Expire(k)) \/ UNCHANGED vars
          PROVE  RegistryHoldsLiveSocket'
        BY <2>6 DEF Close, Expire, vars
    <2> QED
        BY <2>1, <2>2, <2>3, <2>4, <2>5, <2>6 DEF Next, Handle
<1> QED
    BY <1>1, <1>2, TypeCorrect, PTL DEF Spec

---------------------------------------------------------------------------
(* The key implements IdempotencyKey *)

\* What a step does to the keys and to what requests hold and were told.
SameWorker(g) ==
    /\ \A k \in KeyedMessage : Under(g, k)' <=> Under(g, k)
    /\ ToldTurn(g)' = ToldTurn(g)

OthersSame(h) == \A g \in Request : g # h => SameWorker(g)

\* The worker has nothing and was told nothing.
Fresh(h) == ToldTurn(h) = Absent /\ \A k \in KeyedMessage : ~Under(h, k)

SetTo(k, v) == cache' = [cache EXCEPT ![k] = v]

KeysStay == cache' = cache /\ \A g \in Request : SameWorker(g)

KeyTaken(h, k) ==
    /\ Fresh(h) /\ OthersSame(h)
    /\ cache[k] = Absent /\ SetTo(k, InProgress)
    /\ ToldTurn(h)' = ToldTurn(h)
    /\ \A j \in KeyedMessage : Under(h, j)' <=> j = k

KeyAnswered(h, k) ==
    /\ Under(h, k) /\ cache[k] = InProgress
    /\ \A g \in Request : SameWorker(g)
    /\ \E v \in Nat : SetTo(k, v)

KeyLeft(h, k) ==
    /\ Under(h, k) /\ OthersSame(h)
    /\ \A j \in KeyedMessage : ~Under(h, j)'
    /\ \/ cache[k] \in Nat /\ cache' = cache /\ ToldTurn(h)' = cache[k]
       \/ SetTo(k, Absent) /\ ToldTurn(h)' = ToldTurn(h)
       \/ cache' = cache /\ ToldTurn(h)' = ToldTurn(h)

KeyRepeated(h, k) ==
    /\ Fresh(h) /\ OthersSame(h)
    /\ cache[k] \in Nat /\ cache' = cache
    /\ ToldTurn(h)' = cache[k]
    /\ \A j \in KeyedMessage : ~Under(h, j)'

KeyExpired(k) ==
    /\ cache[k] # Absent /\ SetTo(k, Absent)
    /\ \A g \in Request : SameWorker(g) /\ ~Under(g, k)

KeyStep ==
    \/ KeysStay
    \/ \E h \in Request, k \in KeyedMessage :
          KeyTaken(h, k) \/ KeyAnswered(h, k) \/ KeyLeft(h, k) \/ KeyRepeated(h, k)
    \/ \E k \in KeyedMessage : KeyExpired(k)

\* A handler leaves the others alone.
LEMMA OthersStay ==
    ASSUME NEW h, \A g \in Request : g # h =>
               /\ pc'[g] = pc[g] /\ msg'[g] = msg[g]
               /\ reply'[g] = reply[g] /\ answer'[g] = answer[g]
    PROVE  OthersSame(h)
BY DEF OthersSame, SameWorker, Under, Holds, Keyed, ToldTurn

LEMMA HandlerLeavesOthers ==
    ASSUME TypeOK, NEW h \in Handler,
           \/ \E m \in Message : Submit(h, m) \/ Receive(h, m)
           \/ Connect(h) \/ Disconnect(h) \/ Crash(h)
           \/ Handle(h) \/ GraphPrunes(h) \/ GraphCheckpoints(h)
    PROVE  OthersSame(h)
<1> USE DEF Goto, Finish, TypeOK, store, handlers, history
<1>1. CASE (\E m \in Message : Submit(h, m) \/ Receive(h, m)) \/ Connect(h) \/ Disconnect(h)
           \/ Crash(h)
    BY <1>1, OthersStay DEF Submit, Receive, Connect, Disconnect, Crash, Handler
<1>2. CASE GetKey(h) \/ AcquireKey(h) \/ CheckConversation(h) \/ CountTurns(h)
    BY <1>2, OthersStay DEF GetKey, AcquireKey, CheckConversation, CountTurns, Handler
<1>3. CASE InsertCustomerTurn(h) \/ StartGraph(h) \/ GraphPrunes(h) \/ GraphCheckpoints(h)
           \/ GraphAnswers(h)
           \/ InsertAgentTurn(h)
    BY <1>3, OthersStay DEF InsertCustomerTurn, StartGraph, GraphPrunes, GraphCheckpoints,
                            GraphAnswers,
                            InsertAgentTurn, Handler
<1>4. CASE StoreResponse(h) \/ Respond(h) \/ TurnRaises(h) \/ HandleFailure(h)
    BY <1>4, OthersStay DEF StoreResponse, Respond, TurnRaises, HandleFailure, Handler
<1> QED
    BY <1>1, <1>2, <1>3, <1>4 DEF Handle

\* A handler without a key changes no key and is told none.
LEMMA UnkeyedStays ==
    ASSUME TypeOK, NEW h \in Handler, OthersSame(h), cache' = cache,
           h \in Request => ~Keyed(h) /\ ~Keyed(h)'
    PROVE  KeysStay
BY DEF KeysStay, OthersSame, SameWorker, Under, Holds, ToldTurn

\* Nor does a step inside the work.
LEMMA WorkStays ==
    ASSUME TypeOK, NEW h \in Handler, OthersSame(h), cache' = cache,
           pc[h] \in Holding, pc'[h] \in Holding,
           UNCHANGED <<msg, reply, answer>>
    PROVE  KeysStay
BY DEF KeysStay, OthersSame, SameWorker, Under, Holds, Keyed, ToldTurn

LEMMA NextKeyStep ==
    ASSUME TypeOK, KeyIsLock, AnsweredOnce, [Next]_vars
    PROVE  KeyStep
<1>1. ASSUME NEW h \in Handler, NEW m \in Message, Submit(h, m) \/ Receive(h, m)
      PROVE  KeysStay
  <2>1. OthersSame(h) /\ cache' = cache
      BY <1>1, HandlerLeavesOthers DEF Submit, Receive, store
  <2>2. CASE Submit(h, m)
    <3>1. /\ h \in Request /\ pc[h] = "new" /\ reply'[h] = reply[h] /\ reply[h] = "none"
          /\ pc'[h] \in {"get", "check"}
          /\ pc'[h] = "check" => m \notin KeyedMessage
          /\ msg'[h] = m
        BY <2>2 DEF Submit, Goto, TypeOK, AnsweredOnce
    <3>2. ~Holds(h) /\ ~Holds(h)' /\ ToldTurn(h) = Absent /\ ToldTurn(h)' = Absent
        BY <3>1 DEF Holds, Holding, Keyed, ToldTurn
    <3> QED
        BY <2>1, <3>2 DEF KeysStay, OthersSame, SameWorker, Under
  <2>3. CASE Receive(h, m)
      BY <2>1, <2>3, UnkeyedStays, ChatTurnsAssumption DEF Receive
  <2> QED
      BY <1>1, <2>2, <2>3
<1>2. ASSUME NEW h \in Handler, Connect(h) \/ Disconnect(h) PROVE KeysStay
  <2>1. OthersSame(h) /\ cache' = cache /\ h \notin Request
      BY <1>2, HandlerLeavesOthers, ChatTurnsAssumption DEF Connect, Disconnect
  <2> QED
      BY <2>1, UnkeyedStays
<1>3. ASSUME NEW h \in Handler, Crash(h) PROVE KeyStep
  <2>1. /\ OthersSame(h) /\ cache' = cache /\ h \in Request
        /\ pc[h] # "done" /\ msg' = msg /\ reply[h] = "none" /\ reply'[h] = "lost"
        /\ pc'[h] = "done"
      BY <1>3, HandlerLeavesOthers, ChatTurnsAssumption
      DEF Crash, Finish, Goto, Rest, store, TypeOK, AnsweredOnce
  <2>2. ToldTurn(h) = Absent /\ ToldTurn(h)' = Absent /\ ~Holds(h)'
      BY <2>1 DEF ToldTurn, Holds, Holding
  <2>3. CASE Holds(h)
    <3>1. msg[h] \in KeyedMessage /\ Under(h, msg[h])
        BY <2>3 DEF Under, Holds, Keyed
    <3>2. KeyLeft(h, msg[h])
        BY <2>1, <2>2, <3>1 DEF KeyLeft, Under
    <3> QED
        BY <2>1, <3>1, <3>2 DEF KeyStep
  <2>4. CASE ~Holds(h)
      BY <2>1, <2>2, <2>4 DEF KeyStep, KeysStay, OthersSame, SameWorker, Under
  <2> QED
      BY <2>3, <2>4
<1>4. ASSUME NEW h \in Handler, GetKey(h) PROVE KeyStep
  <2>1. /\ OthersSame(h) /\ cache' = cache /\ msg' = msg
        /\ Keyed(h) /\ h \in Request /\ pc[h] = "get" /\ pc'[h] \in {"setnx", "done"}
        /\ reply[h] = "none"
      BY <1>4, HandlerLeavesOthers, ChatTurnsAssumption
      DEF GetKey, Goto, Finish, Rest, store, TypeOK, AnsweredOnce, Keyed, Handler, Handle
  <2>2. Fresh(h) /\ \A j \in KeyedMessage : ~Under(h, j)'
      BY <2>1 DEF Fresh, ToldTurn, Under, Holds, Holding
  <2>3. CASE reply'[h] = "cached"
    <3>1. /\ cache[msg[h]] \notin {Absent, InProgress} /\ answer'[h] = cache[msg[h]]
        BY <1>4, <2>1, <2>3 DEF GetKey, Finish, TypeOK
    <3>2. msg[h] \in KeyedMessage /\ cache[msg[h]] \in Nat
        BY <2>1, <3>1 DEF TypeOK, Keyed
    <3>3. ToldTurn(h)' = cache[msg[h]]
        BY <2>1, <2>3, <3>1 DEF ToldTurn, Keyed
    <3>4. KeyRepeated(h, msg[h])
        BY <2>1, <2>2, <3>2, <3>3 DEF KeyRepeated
    <3> QED
        BY <2>1, <3>2, <3>4 DEF KeyStep
  <2>4. CASE reply'[h] # "cached"
    <3>1. reply'[h] \in {"none", "conflict"}
        BY <1>4, <2>1, <2>4 DEF GetKey, Finish, TypeOK
    <3>2. ToldTurn(h)' = Absent
        BY <3>1 DEF ToldTurn
    <3> QED
        BY <2>1, <2>2, <3>2 DEF KeyStep, KeysStay, OthersSame, SameWorker, Fresh
  <2> QED
      BY <2>3, <2>4
<1>5. ASSUME NEW h \in Handler, AcquireKey(h) PROVE KeyStep
  <2>1. /\ OthersSame(h) /\ msg' = msg
        /\ Keyed(h) /\ h \in Request /\ pc[h] = "setnx" /\ reply[h] = "none"
        /\ msg[h] \in KeyedMessage
      BY <1>5, HandlerLeavesOthers DEF AcquireKey, TypeOK, AnsweredOnce, Keyed, Handle
  <2>2. Fresh(h)
      BY <2>1 DEF Fresh, ToldTurn, Under, Holds, Holding
  <2>3. CASE cache[msg[h]] = Absent
    <3>1. SetTo(msg[h], InProgress) /\ pc'[h] = "check" /\ UNCHANGED <<reply, answer>>
        BY <1>5, <2>3 DEF AcquireKey, SetKey, SetTo, Goto, TypeOK
    <3>2. ToldTurn(h)' = ToldTurn(h) /\ Holds(h)'
        BY <2>1, <3>1 DEF ToldTurn, Keyed, Holds, Holding
    <3>3. KeyTaken(h, msg[h])
        BY <2>1, <2>2, <2>3, <3>1, <3>2 DEF KeyTaken, Under
    <3> QED
        BY <2>1, <3>3 DEF KeyStep
  <2>4. CASE cache[msg[h]] # Absent
    <3>1. cache' = cache /\ pc'[h] = "done" /\ reply'[h] = "conflict"
        BY <1>5, <2>1, <2>4, ChatTurnsAssumption DEF AcquireKey, Finish, Rest, Goto, TypeOK,
                                                     Handler
    <3>2. ToldTurn(h)' = Absent /\ ~Holds(h)'
        BY <3>1 DEF ToldTurn, Holds, Holding
    <3> QED
        BY <2>1, <2>2, <3>1, <3>2
        DEF KeyStep, KeysStay, OthersSame, SameWorker, Fresh, Under
  <2> QED
      BY <2>3, <2>4
<1>6. ASSUME NEW h \in Handler, CheckConversation(h) PROVE KeyStep
  <2>1. OthersSame(h) /\ cache' = cache /\ msg' = msg /\ pc[h] = "check"
      BY <1>6, HandlerLeavesOthers DEF CheckConversation, store, Handle
  <2>2. CASE pc'[h] = "count" /\ UNCHANGED <<reply, answer>>
      BY <2>1, <2>2, WorkStays DEF KeyStep, Holding
  <2>3. CASE reply'[h] = "refused" /\ pc'[h] = Rest(h)
    <3>1. CASE h \in Request /\ Keyed(h)
      <4>1. reply[h] = "none" /\ pc'[h] = "done"
          BY <2>1, <2>3, <3>1, ChatTurnsAssumption DEF TypeOK, AnsweredOnce, Rest
      <4>2. ToldTurn(h) = Absent /\ ToldTurn(h)' = Absent /\ ~Holds(h)'
          BY <2>3, <4>1 DEF ToldTurn, Holds, Holding
      <4>3. msg[h] \in KeyedMessage /\ Under(h, msg[h])
          BY <2>1, <3>1 DEF Under, Holds, Holding, Keyed
      <4>4. KeyLeft(h, msg[h])
          BY <2>1, <4>2, <4>3 DEF KeyLeft, Under
      <4> QED
          BY <3>1, <4>3, <4>4 DEF KeyStep
    <3>2. CASE h \in Request => ~Keyed(h)
        BY <2>1, <3>2, UnkeyedStays DEF Keyed, KeyStep
    <3> QED
        BY <3>1, <3>2
  <2> QED
      BY <1>6, <2>2, <2>3 DEF CheckConversation, Goto, Finish, TypeOK
<1>7. ASSUME NEW h \in Handler,
             \/ CountTurns(h) \/ InsertCustomerTurn(h) \/ StartGraph(h) \/ GraphPrunes(h)
             \/ GraphCheckpoints(h)
             \/ GraphAnswers(h) \/ InsertAgentTurn(h) \/ TurnRaises(h)
      PROVE  KeysStay
  <2>1. OthersSame(h)
      BY <1>7, HandlerLeavesOthers DEF Handle
  <2>2. cache' = cache /\ UNCHANGED <<msg, reply, answer>>
      BY <1>7 DEF CountTurns, InsertCustomerTurn, StartGraph, GraphPrunes, GraphCheckpoints,
                  GraphAnswers,
                  InsertAgentTurn, TurnRaises, store, handlers, history
  <2>3. pc[h] \in Holding /\ pc'[h] \in Holding
      BY <1>7 DEF CountTurns, InsertCustomerTurn, StartGraph, GraphPrunes, GraphCheckpoints,
                  GraphAnswers,
                  InsertAgentTurn, TurnRaises, MayRaise, Goto, Holding, TypeOK, handlers
  <2> QED
      BY <2>1, <2>2, <2>3, WorkStays
<1>8. ASSUME NEW h \in Handler, Respond(h) \/ HandleFailure(h) PROVE KeyStep
  <2>1. OthersSame(h) /\ msg' = msg /\ pc[h] \in Holding /\ pc[h] # "done"
      BY <1>8, HandlerLeavesOthers DEF Respond, HandleFailure, Holding, Handle
  <2>2. CASE h \in Request /\ Keyed(h)
    <3>1. /\ msg[h] \in KeyedMessage /\ Under(h, msg[h]) /\ reply[h] = "none"
          /\ pc'[h] = "done" /\ idx[h] + 1 \in Nat
        BY <1>8, <2>1, <2>2, ChatTurnsAssumption
        DEF Under, Holds, Keyed, TypeOK, AnsweredOnce, Respond, HandleFailure, Finish, Goto,
            Rest, Handler
    <3>2. ToldTurn(h) = Absent /\ ~Holds(h)'
        BY <3>1 DEF ToldTurn, Holds, Holding
    <3>3. CASE Respond(h)
      <4>1. cache' = cache /\ reply'[h] = "ok" /\ answer'[h] = idx[h] + 1 /\ pc[h] = "return"
          BY <2>2, <3>3 DEF Respond, Finish, TypeOK, store
      <4>2. ToldTurn(h)' = idx[h] + 1
          BY <2>1, <2>2, <4>1 DEF ToldTurn, Keyed
      <4>3. cache[msg[h]] = idx[h] + 1
          BY <2>2, <3>1, <4>1 DEF KeyIsLock, Under
      <4> QED
          BY <2>1, <2>2, <3>1, <3>2, <4>1, <4>2, <4>3 DEF KeyStep, KeyLeft, Under
    <3>4. CASE HandleFailure(h)
      <4>1. SetTo(msg[h], Absent) \/ cache' = cache
          BY <3>4 DEF HandleFailure, SetKey, SetTo
      <4>2. reply'[h] = "error"
          BY <3>4 DEF HandleFailure, Finish, TypeOK
      <4>3. ToldTurn(h)' = Absent
          BY <4>2 DEF ToldTurn
      <4> QED
          BY <2>1, <2>2, <3>1, <3>2, <4>1, <4>3 DEF KeyStep, KeyLeft, Under
    <3> QED
        BY <1>8, <3>3, <3>4
  <2>3. CASE h \in Request => ~Keyed(h)
    <3>1. cache' = cache /\ (h \in Request => ~Keyed(h)')
        BY <1>8, <2>1, <2>3 DEF Respond, HandleFailure, Keyed, store
    <3> QED
        BY <2>1, <2>3, <3>1, UnkeyedStays DEF KeyStep
  <2> QED
      BY <2>2, <2>3
<1>9. ASSUME NEW k \in KeyedMessage, Expire(k) PROVE KeyExpired(k)
    BY <1>9 DEF Expire, KeyExpired, SetTo, SameWorker, Under, Holds, Keyed, ToldTurn, handlers
<1>10. ASSUME Close \/ UNCHANGED vars PROVE KeysStay
    BY <1>10 DEF Close, vars, KeysStay, SameWorker, Under, Holds, Keyed, ToldTurn,
                 store, handlers, history
<1>11. ASSUME NEW h \in Handler, StoreResponse(h) PROVE KeyStep
  <2>1. /\ OthersSame(h) /\ UNCHANGED <<msg, reply, answer>> /\ Keyed(h) /\ h \in Request
        /\ pc[h] = "respond" /\ pc'[h] = "return" /\ idx[h] + 1 \in Nat
        /\ msg[h] \in KeyedMessage /\ SetTo(msg[h], idx[h] + 1)
    <3>1. OthersSame(h)
        BY <1>11, HandlerLeavesOthers DEF Handle
    <3>2. UNCHANGED <<msg, reply, answer>> /\ Keyed(h) /\ pc[h] = "respond"
        BY <1>11 DEF StoreResponse
    <3>3. pc'[h] = "return" /\ idx[h] + 1 \in Nat /\ SetTo(msg[h], idx[h] + 1)
        BY <1>11 DEF StoreResponse, Goto, SetKey, SetTo, TypeOK
    <3> QED
        BY <3>1, <3>2, <3>3 DEF Keyed
  <2>2. Holds(h) /\ Holds(h)' /\ cache[msg[h]] = InProgress
      BY <2>1 DEF Holds, Holding, Keyed, KeyIsLock
  <2>3. SameWorker(h)
      BY <2>1, <2>2 DEF SameWorker, Under, ToldTurn, Keyed
  <2>4. KeyAnswered(h, msg[h])
      BY <2>1, <2>2, <2>3 DEF KeyAnswered, OthersSame, Under
  <2> QED
      BY <2>1, <2>4 DEF KeyStep
<1> QED
    BY <1>1, <1>2, <1>3, <1>4, <1>5, <1>6, <1>7, <1>8, <1>9, <1>10, <1>11
    DEF Next, Handle, KeyStep

\* The holders after a step, as a set.
LEMMA HoldingIs ==
    ASSUME NEW B \in SUBSET (Request \X KeyedMessage),
           \A g \in Request, k \in KeyedMessage : <<g, k>> \in B <=> Under(g, k)'
    PROVE  HoldsKey' = B
<1>1. ASSUME NEW p \in Request \X KeyedMessage PROVE Under(p[1], p[2])' <=> p \in B
    <2>1. p[1] \in Request /\ p[2] \in KeyedMessage /\ p = <<p[1], p[2]>>
        OBVIOUS
    <2> QED
        BY <2>1
<1>2. HoldsKey' = {p \in Request \X KeyedMessage : Under(p[1], p[2])'}
    BY DEF HoldsKey
<1> QED
    BY <1>1, <1>2

\* A key under which somebody works is held or answered, and nobody else works under
\* it.
LEMMA StateIs ==
    ASSUME TypeOK, KeyIsLock, NEW k \in KeyedMessage
    PROVE  /\ cache[k] \in Nat \cup {Absent, InProgress}
           /\ KeyState(k) = IF cache[k] = Absent THEN "free"
                            ELSE IF cache[k] # InProgress THEN "answered"
                            ELSE IF \E h \in Request : Under(h, k) THEN "held" ELSE "lost"
           /\ \A h \in Request : Under(h, k) =>
                 /\ cache[k] # Absent
                 /\ \A g \in Request : Under(g, k) => g = h
BY DEF TypeOK, KeyState, KeyIsLock, Under, Absent, InProgress, Handler

LEMMA NextStateIs ==
    ASSUME TypeOK', KeyIsLock', NEW k \in KeyedMessage
    PROVE  /\ cache'[k] \in Nat \cup {Absent, InProgress}
           /\ KeyState(k)' = IF cache'[k] = Absent THEN "free"
                             ELSE IF cache'[k] # InProgress THEN "answered"
                             ELSE IF \E h \in Request : Under(h, k)' THEN "held" ELSE "lost"
           /\ \A h \in Request : Under(h, k)' =>
                 /\ cache'[k] # Absent
                 /\ \A g \in Request : Under(g, k)' => g = h
BY DEF TypeOK, KeyState, KeyIsLock, Under, Absent, InProgress, Handler

LEMMA FreshIsIdle ==
    ASSUME NEW h \in Request, Fresh(h)
    PROVE  ChatKey!Idle(h)
BY DEF Fresh, ChatKey!Idle, HoldsKey

LEMMA KeyStepImplements ==
    ASSUME TypeOK, TypeOK', KeyIsLock, KeyIsLock', KeyStep
    PROVE  [ChatKey!KeyNext]_(ChatKey!keyVars)
<1> DEFINE state   == [k \in KeyedMessage |-> KeyState(k)]
           stored  == [k \in KeyedMessage |-> StoredTurn(k)]
           told    == [h \in Request |-> ToldTurn(h)]
<1>1. CASE KeysStay
  <2>1. HoldsKey' = HoldsKey
      BY <1>1, HoldingIs DEF KeysStay, SameWorker, HoldsKey
  <2>2. state' = state
      BY <1>1, StateIs, NextStateIs DEF KeysStay, SameWorker
  <2>3. stored' = stored /\ told' = told
      BY <1>1 DEF KeysStay, SameWorker, StoredTurn
  <2> QED
      BY <2>1, <2>2, <2>3 DEF ChatKey!keyVars
<1>2. ASSUME NEW h \in Request, NEW k \in KeyedMessage, KeyTaken(h, k)
      PROVE  ChatKey!Take(h, k)
  <2>1. ChatKey!Idle(h)
      BY <1>2, FreshIsIdle DEF KeyTaken
  <2>2. KeyState(k) = "free"
      BY <1>2, StateIs DEF KeyTaken
  <2>3. cache' = [cache EXCEPT ![k] = InProgress] /\ Under(h, k)' /\ cache[k] = Absent
      BY <1>2 DEF KeyTaken, SetTo
  <2>4. \A g \in Request, j \in KeyedMessage :
            Under(g, j)' <=> Under(g, j) \/ (g = h /\ j = k)
      BY <1>2 DEF KeyTaken, OthersSame, SameWorker, Fresh
  <2>5. HoldsKey' = HoldsKey \cup {<<h, k>>}
      BY <2>4, HoldingIs DEF HoldsKey
  <2>6. state' = [state EXCEPT ![k] = "held"]
    <3>1. KeyState(k)' = "held"
        BY <2>3, NextStateIs DEF TypeOK, Absent, InProgress
    <3>2. ASSUME NEW j \in KeyedMessage, j # k PROVE KeyState(j)' = KeyState(j)
        BY <2>3, <2>4, <3>2, StateIs, NextStateIs DEF TypeOK
    <3> QED
        BY <3>1, <3>2
  <2>7. stored' = stored
      BY <2>3 DEF StoredTurn, TypeOK, Absent, InProgress
  <2>8. told' = told
      BY <1>2 DEF KeyTaken, OthersSame, SameWorker
  <2> QED
      BY <2>1, <2>2, <2>5, <2>6, <2>7, <2>8 DEF ChatKey!Take
<1>3. ASSUME NEW h \in Request, NEW k \in KeyedMessage, KeyLeft(h, k)
      PROVE  ChatKey!Succeed(h, k) \/ ChatKey!Fail(h, k) \/ ChatKey!Disappear(h, k)
  <2>1. <<h, k>> \in HoldsKey /\ cache[k] # Absent
      BY <1>3, StateIs DEF KeyLeft, HoldsKey
  <2>2. \A g \in Request, j \in KeyedMessage :
            Under(g, j)' <=> Under(g, j) /\ ~(g = h /\ j = k)
    <3>1. \A j \in KeyedMessage : Under(h, j) => j = k
        BY <1>3 DEF KeyLeft, Under
    <3> QED
        BY <1>3, <3>1 DEF KeyLeft, OthersSame, SameWorker
  <2>3. HoldsKey' = HoldsKey \ {<<h, k>>}
      BY <2>2, HoldingIs DEF HoldsKey
  <2>4. ~\E g \in Request : Under(g, k)'
      BY <1>3, <2>2, StateIs DEF KeyLeft
  <2>5. ASSUME NEW j \in KeyedMessage, j # k, cache'[j] = cache[j]
        PROVE  KeyState(j)' = KeyState(j) /\ StoredTurn(j)' = StoredTurn(j)
      BY <2>2, <2>5, StateIs, NextStateIs DEF StoredTurn
  <2>6. \A g \in Request : g # h => ToldTurn(g)' = ToldTurn(g)
      BY <1>3 DEF KeyLeft, OthersSame, SameWorker
  <2>7. ASSUME cache[k] \in Nat, cache' = cache, ToldTurn(h)' = cache[k]
        PROVE  ChatKey!Succeed(h, k)
    <3>1. KeyState(k) = "answered" /\ KeyState(k)' = "answered" /\ StoredTurn(k) = cache[k]
        BY <2>7, StateIs, NextStateIs DEF StoredTurn, Absent, InProgress
    <3>2. state' = state /\ stored' = stored
        BY <2>5, <2>7, <3>1 DEF StoredTurn
    <3>3. told' = [told EXCEPT ![h] = cache[k]]
        BY <2>6, <2>7
    <3> QED
        BY <2>1, <2>3, <3>1, <3>2, <3>3 DEF ChatKey!Succeed, ChatKey!Leave
  <2>8. ASSUME SetTo(k, Absent), ToldTurn(h)' = ToldTurn(h)
        PROVE  ChatKey!Fail(h, k)
    <3>1. cache'[k] = Absent /\ \A j \in KeyedMessage : j # k => cache'[j] = cache[j]
        BY <2>8 DEF SetTo, TypeOK
    <3>2. KeyState(k)' = "free" /\ StoredTurn(k)' = Absent
        BY <3>1, NextStateIs DEF StoredTurn, Absent, InProgress
    <3>3. state' = [state EXCEPT ![k] = "free"] /\ stored' = [stored EXCEPT ![k] = Absent]
        BY <2>5, <3>1, <3>2
    <3>4. told' = told
        BY <2>6, <2>8
    <3> QED
        BY <2>1, <2>3, <3>3, <3>4 DEF ChatKey!Fail, ChatKey!Leave
  <2>9. ASSUME cache' = cache, ToldTurn(h)' = ToldTurn(h)
        PROVE  ChatKey!Disappear(h, k)
    <3>1. KeyState(k)' = IF KeyState(k) = "held" THEN "lost" ELSE KeyState(k)
        BY <2>1, <2>4, <2>9, <1>3, StateIs, NextStateIs DEF KeyLeft
    <3>2. state' = [state EXCEPT ![k] = IF KeyState(k) = "held" THEN "lost" ELSE KeyState(k)]
        BY <2>5, <2>9, <3>1
    <3>3. stored' = stored /\ told' = told
        BY <2>6, <2>9 DEF StoredTurn
    <3> QED
        BY <2>1, <2>3, <3>2, <3>3 DEF ChatKey!Disappear, ChatKey!Leave
  <2> QED
      BY <1>3, <2>7, <2>8, <2>9 DEF KeyLeft
<1>4. ASSUME NEW h \in Request, NEW k \in KeyedMessage, KeyRepeated(h, k)
      PROVE  ChatKey!Repeat(h, k)
  <2>1. ChatKey!Idle(h)
      BY <1>4, FreshIsIdle DEF KeyRepeated
  <2>2. KeyState(k) = "answered" /\ StoredTurn(k) = cache[k]
      BY <1>4, StateIs DEF KeyRepeated, StoredTurn, Absent, InProgress
  <2>3. \A g \in Request, j \in KeyedMessage : Under(g, j)' <=> Under(g, j)
      BY <1>4 DEF KeyRepeated, OthersSame, SameWorker, Fresh
  <2>4. HoldsKey' = HoldsKey
      BY <2>3, HoldingIs DEF HoldsKey
  <2>5. state' = state /\ stored' = stored
      BY <1>4, <2>3, StateIs, NextStateIs DEF KeyRepeated, StoredTurn
  <2>6. told' = [told EXCEPT ![h] = cache[k]]
      BY <1>4 DEF KeyRepeated, OthersSame, SameWorker
  <2> QED
      BY <2>1, <2>2, <2>4, <2>5, <2>6 DEF ChatKey!Repeat
<1>5. ASSUME NEW k \in KeyedMessage, KeyExpired(k)
      PROVE  ChatKey!Expiry(k)
  <2>1. KeyState(k) \in {"lost", "answered"}
      BY <1>5, StateIs DEF KeyExpired
  <2>2. \A g \in Request, j \in KeyedMessage : Under(g, j)' <=> Under(g, j)
      BY <1>5 DEF KeyExpired, SameWorker
  <2>3. HoldsKey' = HoldsKey
      BY <2>2, HoldingIs DEF HoldsKey
  <2>4. cache'[k] = Absent /\ \A j \in KeyedMessage : j # k => cache'[j] = cache[j]
      BY <1>5 DEF KeyExpired, SetTo, TypeOK
  <2>5. state' = [state EXCEPT ![k] = "free"]
    <3>1. KeyState(k)' = "free"
        BY <2>4, NextStateIs
    <3>2. ASSUME NEW j \in KeyedMessage, j # k PROVE KeyState(j)' = KeyState(j)
      <4>1. cache'[j] = cache[j]
          BY <2>4, <3>2
      <4>2. (\E h \in Request : Under(h, j)') <=> \E h \in Request : Under(h, j)
          BY <2>2
      <4> QED
          BY <4>1, <4>2, StateIs, NextStateIs
    <3> QED
        BY <3>1, <3>2
  <2>6. stored' = [stored EXCEPT ![k] = Absent]
      BY <2>4 DEF StoredTurn, Absent, InProgress
  <2>7. told' = told
      BY <1>5 DEF KeyExpired, SameWorker
  <2>8. \A h \in Request : <<h, k>> \notin HoldsKey
      BY <1>5 DEF KeyExpired, HoldsKey
  <2> QED
      BY <2>1, <2>3, <2>5, <2>6, <2>7, <2>8 DEF ChatKey!Expiry
<1>6. ASSUME NEW h \in Request, NEW k \in KeyedMessage, KeyAnswered(h, k)
      PROVE  ChatKey!Store(h, k)
  <2>1. PICK v \in Nat : SetTo(k, v)
      BY <1>6 DEF KeyAnswered
  <2>2. cache'[k] = v /\ \A j \in KeyedMessage : j # k => cache'[j] = cache[j]
      BY <2>1 DEF SetTo, TypeOK
  <2>3. <<h, k>> \in HoldsKey /\ cache[k] = InProgress /\ Under(h, k)
      BY <1>6 DEF KeyAnswered, HoldsKey
  <2>4. \A g \in Request, j \in KeyedMessage : Under(g, j)' <=> Under(g, j)
      BY <1>6 DEF KeyAnswered, SameWorker
  <2>5. HoldsKey' = HoldsKey
      BY <2>4, HoldingIs DEF HoldsKey
  <2>6. /\ KeyState(k) = "held" /\ KeyState(k)' = "answered"
        /\ StoredTurn(k)' = v
      BY <2>2, <2>3, StateIs, NextStateIs DEF StoredTurn, Absent, InProgress
  <2>7. ASSUME NEW j \in KeyedMessage, j # k
        PROVE  KeyState(j)' = KeyState(j) /\ StoredTurn(j)' = StoredTurn(j)
      BY <2>2, <2>4, <2>7, StateIs, NextStateIs DEF StoredTurn
  <2>8. state' = [state EXCEPT ![k] = "answered"]
      BY <2>6, <2>7
  <2>9. stored' = [stored EXCEPT ![k] = v] /\ stored'[k] = v
      BY <2>6, <2>7
  <2>10. told' = told
      BY <1>6 DEF KeyAnswered, SameWorker
  <2> QED
      BY <2>3, <2>5, <2>6, <2>8, <2>9, <2>10 DEF ChatKey!Store
<1> QED
    BY <1>1, <1>2, <1>3, <1>4, <1>5, <1>6 DEF KeyStep, ChatKey!KeyNext

LEMMA InitImplements == Init => ChatKey!KeyInit
<1> SUFFICES ASSUME Init PROVE ChatKey!KeyInit
    OBVIOUS
<1>1. \A k \in KeyedMessage : KeyState(k) = "free" /\ StoredTurn(k) = Absent
    BY DEF Init, KeyState, StoredTurn, Absent, InProgress
<1>2. HoldsKey = {}
  <2>1. \A h \in Request : ~Holds(h)
      BY DEF Init, Holds, Holding, Handler
  <2> QED
      BY <2>1 DEF HoldsKey, Under
<1>3. \A h \in Request : ToldTurn(h) = Absent
    BY DEF Init, ToldTurn, Handler
<1> QED
    BY <1>1, <1>2, <1>3 DEF ChatKey!KeyInit

\* Whatever requests, sockets, failures, cancellations and expiries interleave
\* (chat.py:35-83), a key is taken, answered, freed, lost or expired only as
\* IdempotencyKey allows.
THEOREM ChatImplementsKey == Spec => ImplementsKey
<1>1. Init => TypeOK /\ KeyIsLock /\ AnsweredOnce
  <2>1. Init => KeyIsLock /\ AnsweredOnce
      BY ChatTurnsAssumption DEF Init, KeyIsLock, AnsweredOnce, Holds, Holding, Handler
  <2> QED
      BY <2>1, InitTypeOK
<1>2. TypeOK /\ KeyIsLock /\ AnsweredOnce /\ [Next]_vars
          => TypeOK' /\ KeyIsLock' /\ AnsweredOnce'
    BY NextTypeOK, NextKeyIsLock, NextAnsweredOnce
<1>3. TypeOK /\ TypeOK' /\ KeyIsLock /\ KeyIsLock' /\ AnsweredOnce /\ [Next]_vars
          => [ChatKey!KeyNext]_(ChatKey!keyVars)
    BY NextKeyStep, KeyStepImplements
<1> QED
    BY <1>1, <1>2, <1>3, InitImplements, PTL DEF Spec, ImplementsKey, ChatKey!KeySpec
===========================================================================
