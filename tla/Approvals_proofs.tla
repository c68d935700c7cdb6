------------------------- MODULE Approvals_proofs -------------------------
(***************************************************************************)
(* Proofs about Approvals, for any approvals, requests and tries: what a   *)
(* second decision needs, what a success means, the key is a lock, and it  *)
(* implements IdempotencyKey.                                              *)
(***************************************************************************)
EXTENDS ApprovalsRefinement, TLAPS

LEMMA InitTypeOK == Init => TypeOK
BY ApprovalsAssumption
DEF Init, TypeOK, Control, Outcome, Job, Decision

LEMMA NextTypeOK == TypeOK /\ [Next]_vars => TypeOK'
<1> SUFFICES ASSUME TypeOK, [Next]_vars PROVE TypeOK'
    OBVIOUS
<1> USE DEF Goto, Finish, SetKey, handlerVars, jobVars, history
<1>1. ASSUME NEW a \in Approval, CreateCheckpoint(a) \/ AwaitDecision(a) PROVE TypeOK'
    BY <1>1 DEF CreateCheckpoint, AwaitDecision, TypeOK
<1>2. ASSUME NEW h \in Request, NEW c \in Click, Submit(h, c) PROVE TypeOK'
    BY <1>2 DEF Submit, TypeOK, Control
<1>3. ASSUME NEW h \in Request, GetKey(h) PROVE TypeOK'
    BY <1>3 DEF GetKey, TypeOK, Control, Outcome
<1>4. ASSUME NEW h \in Request, AcquireKey(h) PROVE TypeOK'
    BY <1>4 DEF AcquireKey, TypeOK, Control, Outcome
<1>5. ASSUME NEW h \in Request, ReadRow(h) PROVE TypeOK'
    <2>1. DecidedOn(click[h].approval) \in SUBSET Request
        BY DEF DecidedOn, TypeOK
    <2> QED
        BY <1>5, <2>1 DEF ReadRow, TypeOK, Control, Outcome
<1>6. ASSUME NEW h \in Request, CommitDecision(h) PROVE TypeOK'
    <2>1. click[h].decision \in Decision
        BY <1>6 DEF CommitDecision, TypeOK, Click
    <2> QED
        BY <1>6, <2>1 DEF CommitDecision, TypeOK, Control
<1>7. ASSUME NEW h \in Request, Enqueue(h) \/ StoreResponse(h) \/ Respond(h)
      PROVE  TypeOK'
    BY <1>7 DEF Enqueue, StoreResponse, Respond, TypeOK, Control, Outcome, Job
<1>8. ASSUME NEW h \in Request, Raises(h) \/ HandleFailure(h) \/ Crash(h) PROVE TypeOK'
    BY <1>8 DEF Raises, HandleFailure, Crash, TypeOK, Control, Outcome
<1>9. ASSUME NEW h \in Request, StartJob(h) PROVE TypeOK'
    BY <1>9, ApprovalsAssumption DEF StartJob, TypeOK, Job
<1>10. ASSUME NEW h \in Request, RunJob(h) \/ WorkerDies(h) PROVE TypeOK'
    BY <1>10 DEF RunJob, WorkerDies, TypeOK, Job
<1>11. ASSUME (\E c \in Click : Expire(c)) \/ UNCHANGED vars PROVE TypeOK'
    BY <1>11 DEF Expire, vars, TypeOK
<1> QED
    BY <1>1, <1>2, <1>3, <1>4, <1>5, <1>6, <1>7, <1>8, <1>9, <1>10, <1>11
    DEF Next, Handle, Work

\* Every variable of the approval path keeps its type, however requests,
\* retries, failures and workers interleave.
THEOREM TypeCorrect == Spec => []TypeOK
<1> QED
    BY InitTypeOK, NextTypeOK, PTL DEF Spec

---------------------------------------------------------------------------
(* What a second decision needs *)

\* Nothing is decided about a request for approval that is still pending, and
\* who decides has read it when nothing was.
ReadBeforeDecision ==
    /\ \A h \in Request : h \in decided => pc[h] \in {"enqueue", "cache", "return", "fail", "done"}
    /\ \A h \in decided : row[click[h].approval] \in Decision
    /\ \A h \in Request : h \in decided \/ pc[h] = "commit" => read[h] = {}

LEMMA NextReadBeforeDecision ==
    TypeOK /\ ReadBeforeDecision /\ [Next]_vars => ReadBeforeDecision'
<1> SUFFICES ASSUME TypeOK, ReadBeforeDecision, [Next]_vars PROVE ReadBeforeDecision'
    OBVIOUS
<1> USE DEF Goto, Finish, SetKey, handlerVars, jobVars, history
<1>1. ASSUME NEW a \in Approval, CreateCheckpoint(a) PROVE ReadBeforeDecision'
    BY <1>1 DEF CreateCheckpoint, ReadBeforeDecision, TypeOK, Decision
<1>2. ASSUME NEW h \in Request, NEW c \in Click, Submit(h, c) PROVE ReadBeforeDecision'
    BY <1>2 DEF Submit, ReadBeforeDecision, TypeOK
<1>3. ASSUME NEW h \in Request, GetKey(h) \/ AcquireKey(h) PROVE ReadBeforeDecision'
    BY <1>3 DEF GetKey, AcquireKey, ReadBeforeDecision, TypeOK
<1>4. ASSUME NEW h \in Request, ReadRow(h) PROVE ReadBeforeDecision'
    <2>1. h \notin decided
        BY <1>4 DEF ReadRow, ReadBeforeDecision
    <2>2. CASE row[click[h].approval] = "pending"
        <3>1. DecidedOn(click[h].approval) = {}
            BY <2>2 DEF DecidedOn, ReadBeforeDecision, Decision
        <3> QED
            BY <1>4, <2>1, <3>1 DEF ReadRow, ReadBeforeDecision, TypeOK
    <2>3. CASE row[click[h].approval] # "pending"
        BY <1>4, <2>1, <2>3 DEF ReadRow, ReadBeforeDecision, TypeOK
    <2> QED
        BY <2>2, <2>3
<1>5. ASSUME NEW h \in Request, CommitDecision(h) PROVE ReadBeforeDecision'
    <2>1. click[h].approval \in Approval /\ click[h].decision \in Decision
        BY <1>5 DEF CommitDecision, TypeOK, Click
    <2> QED
        BY <1>5, <2>1 DEF CommitDecision, ReadBeforeDecision, TypeOK
<1>6. ASSUME NEW h \in Request,
             \/ Enqueue(h) \/ StoreResponse(h) \/ Respond(h)
             \/ Raises(h) \/ HandleFailure(h) \/ Crash(h)
      PROVE  ReadBeforeDecision'
    BY <1>6 DEF Enqueue, StoreResponse, Respond, Raises, HandleFailure, Crash,
                ReadBeforeDecision, TypeOK
<1>7. ASSUME \/ \E a \in Approval : AwaitDecision(a)
             \/ \E h \in Request : StartJob(h) \/ RunJob(h) \/ WorkerDies(h)
             \/ (\E c \in Click : Expire(c)) \/ UNCHANGED vars
      PROVE  ReadBeforeDecision'
    BY <1>7 DEF Expire, AwaitDecision, StartJob, RunJob, WorkerDies, vars, ReadBeforeDecision
<1> QED
    BY <1>1, <1>2, <1>3, <1>4, <1>5, <1>6, <1>7 DEF Next, Handle, Work

\* Two decisions about one approval are committed only by requests that both
\* read the pending row before either committed: the 409 of approval_service.py:70
\* keeps out all others, whatever their endpoint, key or number.
THEOREM SecondDecisionOverlaps == Spec => []SecondDecisionNeedsOverlap
<1>1. Init => ReadBeforeDecision
    BY DEF Init, ReadBeforeDecision
<1>2. TypeOK /\ ReadBeforeDecision => SecondDecisionNeedsOverlap
    BY DEF TypeOK, ReadBeforeDecision, SecondDecisionNeedsOverlap
<1> QED
    BY <1>1, <1>2, InitTypeOK, NextTypeOK, NextReadBeforeDecision, PTL DEF Spec

---------------------------------------------------------------------------
(* What a success means *)

\* A decision about this click is committed and its job is queued.
Delivered(c) == \E g \in decided : click[g] = c /\ job[g] # "none"

\* Where the promise of a success stands while the request is under way.
Delivery ==
    /\ \A h \in Request : pc[h] \in {"enqueue", "cache", "return"} => h \in decided
    /\ \A h \in Request : pc[h] \in {"cache", "return"} => job[h] # "none"
    /\ \A h \in Request : job[h] # "none" => h \in decided
    /\ \A h \in Request : h \in decided => pc[h] # "new"
    /\ \A c \in Click : cache[c] = "response" => Delivered(c)
    /\ \A h \in Request : outcome[h] \in {"ok", "cached"} =>
           pc[h] = "done" /\ Delivered(click[h])

\* What was delivered stays so: requests keep their click and jobs are not
\* forgotten.
LEMMA DeliveredStays ==
    ASSUME TypeOK, Delivery, [Next]_vars, NEW c, Delivered(c)
    PROVE  Delivered(c)'
<1> USE DEF Goto, Finish, SetKey, handlerVars, jobVars, history
<1>1. PICK g \in decided : click[g] = c /\ job[g] # "none"
    BY DEF Delivered
<1>2. g \in Request /\ pc[g] # "new"
    BY <1>1 DEF TypeOK, Delivery
<1>3. decided \subseteq decided'
    BY DEF Next, Handle, Work, CreateCheckpoint, AwaitDecision, Submit, GetKey, AcquireKey,
           ReadRow, CommitDecision, Enqueue, StoreResponse, Respond, HandleFailure, Raises,
           Crash, StartJob, RunJob, WorkerDies, Expire, vars
<1>4. click'[g] = click[g]
    <2>1. ASSUME NEW h \in Request, NEW d \in Click, Submit(h, d) PROVE click'[g] = click[g]
        BY <1>2, <2>1 DEF Submit, TypeOK
    <2> QED
        BY <2>1
        DEF Next, Handle, Work, CreateCheckpoint, AwaitDecision, GetKey, AcquireKey,
            ReadRow, CommitDecision, Enqueue, StoreResponse, Respond, HandleFailure, Raises,
            Crash, StartJob, RunJob, WorkerDies, Expire, vars
<1>5. job'[g] # "none"
    <2>1. ASSUME NEW h \in Request, Enqueue(h) \/ StartJob(h) \/ RunJob(h) \/ WorkerDies(h)
          PROVE  job'[g] # "none"
        BY <1>1, <1>2, <2>1 DEF Enqueue, StartJob, RunJob, WorkerDies, TypeOK
    <2> QED
        BY <1>1, <2>1
        DEF Next, Handle, Work, CreateCheckpoint, AwaitDecision, Submit, GetKey, AcquireKey,
            ReadRow, CommitDecision, StoreResponse, Respond, HandleFailure, Raises, Crash, Expire,
            vars
<1> QED
    BY <1>1, <1>3, <1>4, <1>5 DEF Delivered

LEMMA NextDelivery == TypeOK /\ Delivery /\ [Next]_vars => Delivery'
<1> SUFFICES ASSUME TypeOK, Delivery, [Next]_vars PROVE Delivery'
    OBVIOUS
<1> USE DEF Goto, Finish, SetKey, handlerVars, jobVars, history
<1>1. \A c : Delivered(c) => Delivered(c)'
    BY DeliveredStays
<1>2. ASSUME NEW h \in Request, NEW c \in Click, Submit(h, c) PROVE Delivery'
    BY <1>1, <1>2 DEF Submit, Delivery, TypeOK
<1>3. ASSUME NEW h \in Request, GetKey(h) PROVE Delivery'
    <2>1. click[h] \in Click
        BY <1>3 DEF GetKey, TypeOK
    <2> QED
        BY <1>1, <1>3, <2>1 DEF GetKey, Delivery, TypeOK
<1>4. ASSUME NEW h \in Request, AcquireKey(h) \/ ReadRow(h) PROVE Delivery'
    BY <1>1, <1>4 DEF AcquireKey, ReadRow, Delivery, TypeOK
<1>5. ASSUME NEW h \in Request, CommitDecision(h) \/ Enqueue(h) PROVE Delivery'
    BY <1>1, <1>5 DEF CommitDecision, Enqueue, Delivery, TypeOK
<1>6. ASSUME NEW h \in Request, StoreResponse(h) \/ Respond(h) PROVE Delivery'
    <2>1. Delivered(click[h])
        BY <1>6 DEF StoreResponse, Respond, Delivery, Delivered
    <2>2. CASE StoreResponse(h)
        BY <1>1, <2>1, <2>2 DEF StoreResponse, Delivery, TypeOK
    <2>3. CASE Respond(h)
        BY <1>1, <2>1, <2>3 DEF Respond, Delivery, TypeOK
    <2> QED
        BY <1>6, <2>2, <2>3
<1>7. ASSUME NEW h \in Request, Raises(h) \/ HandleFailure(h) \/ Crash(h) PROVE Delivery'
    BY <1>1, <1>7 DEF Raises, HandleFailure, Crash, Delivery, TypeOK
<1>8. ASSUME NEW h \in Request, StartJob(h) \/ RunJob(h) \/ WorkerDies(h) PROVE Delivery'
    BY <1>1, <1>8 DEF StartJob, RunJob, WorkerDies, Delivery, TypeOK
<1>9. ASSUME (\E a \in Approval : CreateCheckpoint(a) \/ AwaitDecision(a)) \/ UNCHANGED vars
      PROVE  Delivery'
    BY <1>1, <1>9 DEF CreateCheckpoint, AwaitDecision, vars, Delivery
<1>10. ASSUME NEW c \in Click, Expire(c) PROVE Delivery'
    BY <1>1, <1>10 DEF Expire, Delivery, TypeOK
<1> QED
    BY <1>2, <1>3, <1>4, <1>5, <1>6, <1>7, <1>8, <1>9, <1>10 DEF Next, Handle, Work

\* A success, at once or from the cache, means a committed decision whose job is
\* in the hands of ARQ; no job is queued before its decision is committed.
THEOREM SuccessesAreQueued == Spec => []SuccessIsQueued
<1>1. Init => Delivery
    BY DEF Init, Delivery
<1>2. Delivery => SuccessIsQueued
    BY DEF Delivery, Delivered, SuccessIsQueued
<1> QED
    BY <1>1, <1>2, InitTypeOK, NextTypeOK, NextDelivery, PTL DEF Spec

---------------------------------------------------------------------------
(* The key *)

LEMMA NextKeyIsLock == TypeOK /\ KeyIsLock /\ [Next]_vars => KeyIsLock'
<1> SUFFICES ASSUME TypeOK, KeyIsLock, [Next]_vars PROVE KeyIsLock'
    OBVIOUS
<1> USE DEF Goto, Finish, SetKey, handlerVars, jobVars, history, KeyIsLock, Holds, Holding
<1>1. ASSUME NEW h \in Request, NEW c \in Click, Submit(h, c) PROVE KeyIsLock'
    <2>1. ASSUME NEW g \in Request, Holds(g)'
          PROVE  /\ g # h /\ click'[g] = click[g] /\ pc'[g] = pc[g]
                 /\ Holds(g)
        BY <1>1, <2>1 DEF Submit, TypeOK
    <2>2. cache' = cache
        BY <1>1 DEF Submit
    <2> QED
        BY <2>1, <2>2
<1>2. ASSUME NEW h \in Request, GetKey(h) \/ ReadRow(h) \/ CommitDecision(h) \/ Enqueue(h)
      PROVE  KeyIsLock'
    BY <1>2 DEF GetKey, ReadRow, CommitDecision, Enqueue, TypeOK
<1>3. ASSUME NEW h \in Request, AcquireKey(h) PROVE KeyIsLock'
    BY <1>3 DEF AcquireKey, TypeOK
<1>4. ASSUME NEW h \in Request, StoreResponse(h) \/ Respond(h) \/ HandleFailure(h)
      PROVE  KeyIsLock'
    BY <1>4 DEF StoreResponse, Respond, HandleFailure, TypeOK
<1>5. ASSUME NEW h \in Request, Raises(h) \/ Crash(h) PROVE KeyIsLock'
    BY <1>5 DEF Raises, Crash, TypeOK
<1>6. ASSUME \/ \E a \in Approval : CreateCheckpoint(a) \/ AwaitDecision(a)
             \/ \E h \in Request : StartJob(h) \/ RunJob(h) \/ WorkerDies(h)
             \/ UNCHANGED vars
      PROVE  KeyIsLock'
    BY <1>6 DEF CreateCheckpoint, AwaitDecision, StartJob, RunJob, WorkerDies, vars
<1>7. ASSUME NEW c \in Click, Expire(c) PROVE KeyIsLock'
    BY <1>7 DEF Expire, TypeOK
<1> QED
    BY <1>1, <1>2, <1>3, <1>4, <1>5, <1>6, <1>7 DEF Next, Handle, Work

\* The get and the SET NX of approvals.py:43-51 make a lock of the Redis key: one
\* request of a click at a time works on it, whatever fails or expires, and what is
\* stored while it still can fail is its own response.
THEOREM KeyIsMutex == Spec => []KeyIsLock
<1>1. Init => KeyIsLock
    BY DEF Init, KeyIsLock, Holds, Holding
<1> QED
    BY <1>1, InitTypeOK, NextTypeOK, NextKeyIsLock, PTL DEF Spec

---------------------------------------------------------------------------
(* The key implements IdempotencyKey *)

\* What a step does to the keys and to what requests hold and were told.
SameWorker(g) ==
    /\ \A c \in Click : Under(g, c)' <=> Under(g, c)
    /\ ToldResponse(g)' = ToldResponse(g)

OthersSame(h) == \A g \in KeyedRequest : g # h => SameWorker(g)

\* The request has nothing and was told nothing.
Fresh(h) == ToldResponse(h) = "none" /\ \A c \in Click : ~Under(h, c)

SetTo(c, v) == cache' = [cache EXCEPT ![c] = v]

KeysStay == cache' = cache /\ \A g \in KeyedRequest : SameWorker(g)

KeyTaken(h, c) ==
    /\ Fresh(h) /\ OthersSame(h)
    /\ cache[c] = "absent" /\ SetTo(c, "in_progress")
    /\ ToldResponse(h)' = "none"
    /\ \A d \in Click : Under(h, d)' <=> d = c

KeyAnswered(h, c) ==
    /\ Under(h, c) /\ cache[c] = "in_progress"
    /\ \A g \in KeyedRequest : SameWorker(g)
    /\ SetTo(c, "response")

KeyLeft(h, c) ==
    /\ Under(h, c) /\ OthersSame(h)
    /\ \A d \in Click : ~Under(h, d)'
    /\ \/ cache[c] = "response" /\ cache' = cache /\ ToldResponse(h)' = "response"
       \/ SetTo(c, "absent") /\ ToldResponse(h)' = ToldResponse(h)
       \/ cache' = cache /\ ToldResponse(h)' = ToldResponse(h)

KeyRepeated(h, c) ==
    /\ Fresh(h) /\ OthersSame(h)
    /\ cache[c] = "response" /\ cache' = cache
    /\ ToldResponse(h)' = "response"
    /\ \A d \in Click : ~Under(h, d)'

KeyExpired(c) ==
    /\ cache[c] # "absent" /\ SetTo(c, "absent")
    /\ \A g \in KeyedRequest : SameWorker(g) /\ ~Under(g, c)

KeyStep ==
    \/ KeysStay
    \/ \E h \in KeyedRequest, c \in Click :
          KeyTaken(h, c) \/ KeyAnswered(h, c) \/ KeyLeft(h, c) \/ KeyRepeated(h, c)
    \/ \E c \in Click : KeyExpired(c)

\* A request leaves the others alone.
LEMMA RequestLeavesOthers ==
    ASSUME TypeOK, NEW h \in Request,
           (\E c \in Click : Submit(h, c)) \/ Handle(h) \/ Raises(h) \/ Crash(h)
    PROVE  OthersSame(h)
<1>1. SUFFICES ASSUME NEW g \in KeyedRequest, g # h
               PROVE  pc'[g] = pc[g] /\ click'[g] = click[g] /\ outcome'[g] = outcome[g]
    BY <1>1 DEF OthersSame, SameWorker, Under, Holds, ToldResponse
<1>2. g \in Request
    BY ApprovalsAssumption
<1> USE <1>1, <1>2 DEF Goto, Finish, TypeOK
<1>3. CASE (\E c \in Click : Submit(h, c)) \/ GetKey(h) \/ AcquireKey(h) \/ ReadRow(h)
    BY <1>3 DEF Submit, GetKey, AcquireKey, ReadRow
<1>4. CASE CommitDecision(h) \/ Enqueue(h) \/ StoreResponse(h) \/ Respond(h)
    BY <1>4 DEF CommitDecision, Enqueue, StoreResponse, Respond
<1>5. CASE HandleFailure(h) \/ Raises(h) \/ Crash(h)
    BY <1>5 DEF HandleFailure, Raises, Crash
<1> QED
    BY <1>3, <1>4, <1>5 DEF Handle

\* A request without a key changes no key.
LEMMA UnkeyedStays ==
    ASSUME NEW h \in Request, OthersSame(h), h \notin KeyedRequest, cache' = cache
    PROVE  KeysStay
BY DEF KeysStay, OthersSame

\* The key is asked for by those that carry one.
KeyIsAsked == \A h \in Request : pc[h] \in {"get", "setnx"} => h \in KeyedRequest

LEMMA NextKeyIsAsked == TypeOK /\ KeyIsAsked /\ [Next]_vars => KeyIsAsked'
<1> SUFFICES ASSUME TypeOK, KeyIsAsked, [Next]_vars PROVE KeyIsAsked'
    OBVIOUS
<1> USE DEF KeyIsAsked, TypeOK, Goto, Finish, handlerVars, jobVars, history
<1>1. ASSUME NEW h \in Request,
             (\E c \in Click : Submit(h, c)) \/ Handle(h) \/ Raises(h) \/ Crash(h)
      PROVE  KeyIsAsked'
    BY <1>1 DEF Submit, Handle, GetKey, AcquireKey, ReadRow, CommitDecision, Enqueue,
                StoreResponse, Respond, HandleFailure, Raises, Crash
<1>2. ASSUME pc' = pc PROVE KeyIsAsked'
    BY <1>2
<1> QED
    BY <1>1, <1>2
    DEF Next, Work, CreateCheckpoint, AwaitDecision, StartJob, RunJob, WorkerDies, Expire, vars

LEMMA NextKeyStep ==
    ASSUME TypeOK, Delivery, KeyIsLock, KeyIsAsked, [Next]_vars
    PROVE  KeyStep
<1> USE DEF Goto, Finish, handlerVars, jobVars, history
<1>1. ASSUME NEW h \in Request, NEW c \in Click, Submit(h, c) PROVE KeysStay
  <2>1. OthersSame(h) /\ cache' = cache
      BY <1>1, RequestLeavesOthers DEF Submit
  <2>2. CASE h \in KeyedRequest
    <3>1. pc[h] = "new" /\ pc'[h] = "get" /\ outcome'[h] = outcome[h]
        BY <1>1, <2>2 DEF Submit, TypeOK
    <3> QED
        BY <2>1, <3>1
        DEF KeysStay, OthersSame, SameWorker, Under, Holds, Holding, ToldResponse
  <2> QED
      BY <2>1, <2>2, UnkeyedStays
<1>2. ASSUME NEW h \in Request, ReadRow(h) \/ CommitDecision(h) \/ Enqueue(h) \/ Raises(h)
      PROVE  KeysStay
  <2>1. OthersSame(h) /\ cache' = cache
      BY <1>2, RequestLeavesOthers DEF ReadRow, CommitDecision, Enqueue, Raises, Handle
  <2>2. /\ pc[h] \in Holding /\ pc'[h] \in Holding /\ click' = click
        /\ outcome'[h] \in {outcome[h], "illegal", "error"}
      BY <1>2 DEF ReadRow, CommitDecision, Enqueue, Raises, Holding, TypeOK
  <2>3. outcome[h] \notin {"ok", "cached"}
      BY <2>2 DEF Delivery, Holding
  <2> QED
      BY <2>1, <2>2, <2>3 DEF KeysStay, OthersSame, SameWorker, Under, Holds, ToldResponse
<1>3. ASSUME NEW h \in Request, GetKey(h) PROVE KeyStep
  <2>1. /\ OthersSame(h) /\ cache' = cache /\ h \in KeyedRequest /\ click[h] \in Click
        /\ pc[h] = "get" /\ pc'[h] \in {"setnx", "done"}
      BY <1>3, RequestLeavesOthers DEF GetKey, Handle, TypeOK, KeyIsAsked
  <2>2. Fresh(h) /\ \A d \in Click : ~Under(h, d)'
      BY <2>1 DEF Fresh, ToldResponse, Under, Holds, Holding, Delivery
  <2>3. CASE cache[click[h]] = "response"
    <3>1. ToldResponse(h)' = "response"
        BY <1>3, <2>3 DEF GetKey, TypeOK, ToldResponse
    <3> QED
        BY <2>1, <2>2, <2>3, <3>1 DEF KeyStep, KeyRepeated
  <2>4. CASE cache[click[h]] # "response"
    <3>1. ToldResponse(h)' = ToldResponse(h)
        BY <1>3, <2>2, <2>4 DEF GetKey, TypeOK, ToldResponse, Fresh
    <3> QED
        BY <2>1, <2>2, <3>1 DEF KeyStep, KeysStay, OthersSame, SameWorker, Fresh
  <2> QED
      BY <2>3, <2>4
<1>4. ASSUME NEW h \in Request, AcquireKey(h) PROVE KeyStep
  <2>1. /\ OthersSame(h) /\ h \in KeyedRequest /\ click[h] \in Click
        /\ pc[h] = "setnx" /\ click' = click
      BY <1>4, RequestLeavesOthers DEF AcquireKey, Handle, TypeOK, KeyIsAsked
  <2>2. Fresh(h)
      BY <2>1 DEF Fresh, ToldResponse, Under, Holds, Holding, Delivery
  <2>3. CASE cache[click[h]] = "absent"
    <3>1. SetTo(click[h], "in_progress") /\ pc'[h] = "select" /\ outcome' = outcome
        BY <1>4, <2>3 DEF AcquireKey, SetKey, SetTo, TypeOK
    <3>2. ToldResponse(h)' = "none" /\ Holds(h)'
        BY <2>1, <2>2, <3>1 DEF Fresh, ToldResponse, Holds, Holding
    <3>3. KeyTaken(h, click[h])
        BY <2>1, <2>2, <2>3, <3>1, <3>2 DEF KeyTaken, Under
    <3> QED
        BY <2>1, <3>3 DEF KeyStep
  <2>4. CASE cache[click[h]] # "absent"
    <3>1. cache' = cache /\ pc'[h] = "done" /\ outcome'[h] = "in_progress"
        BY <1>4, <2>4 DEF AcquireKey, TypeOK
    <3>2. ToldResponse(h)' = "none" /\ ~Holds(h)'
        BY <3>1 DEF ToldResponse, Holds, Holding
    <3> QED
        BY <2>1, <2>2, <3>1, <3>2
        DEF KeyStep, KeysStay, OthersSame, SameWorker, Fresh, Under
  <2> QED
      BY <2>3, <2>4
<1>5. ASSUME NEW h \in Request, Respond(h) \/ HandleFailure(h) PROVE KeyStep
  <2>1. /\ OthersSame(h) /\ click' = click
        /\ pc[h] \in {"cache", "return", "fail"} /\ pc'[h] = "done"
      BY <1>5, RequestLeavesOthers DEF Respond, HandleFailure, Handle, TypeOK
  <2>2. CASE h \in KeyedRequest
    <3>1. click[h] \in Click /\ Under(h, click[h]) /\ \A d \in Click : ~Under(h, d)'
        BY <2>1, <2>2 DEF Under, Holds, Holding, TypeOK
    <3>2. CASE Respond(h)
      <4>1. cache' = cache /\ pc[h] = "return" /\ ToldResponse(h)' = "response"
          BY <2>2, <3>2 DEF Respond, ToldResponse, TypeOK
      <4>2. cache[click[h]] = "response"
          BY <3>1, <4>1 DEF KeyIsLock, Under
      <4> QED
          BY <2>1, <2>2, <3>1, <4>1, <4>2 DEF KeyStep, KeyLeft
    <3>3. CASE HandleFailure(h)
      <4>1. SetTo(click[h], "absent") \/ cache' = cache
          BY <3>3 DEF HandleFailure, SetKey, SetTo
      <4>2. ToldResponse(h)' = ToldResponse(h)
          BY <3>3 DEF HandleFailure, ToldResponse
      <4> QED
          BY <2>1, <2>2, <3>1, <4>1, <4>2 DEF KeyStep, KeyLeft
    <3> QED
        BY <1>5, <3>2, <3>3
  <2>3. CASE h \notin KeyedRequest
    <3>1. cache' = cache
        BY <1>5, <2>3 DEF Respond, HandleFailure
    <3> QED
        BY <2>1, <2>3, <3>1, UnkeyedStays DEF KeyStep
  <2> QED
      BY <2>2, <2>3
<1>6. ASSUME NEW h \in Request, Crash(h) PROVE KeyStep
  <2>1. /\ OthersSame(h) /\ cache' = cache /\ click' = click
        /\ pc[h] \notin {"new", "done"} /\ pc'[h] = "done" /\ outcome'[h] = "lost"
      BY <1>6, RequestLeavesOthers DEF Crash, TypeOK
  <2>2. ToldResponse(h)' = ToldResponse(h) /\ ~Holds(h)'
      BY <2>1 DEF ToldResponse, Delivery, Holds, Holding
  <2>3. CASE Holds(h)
    <3>1. click[h] \in Click /\ h \in KeyedRequest /\ Under(h, click[h])
        BY <2>1, <2>3 DEF Under, Holds, TypeOK
    <3> QED
        BY <2>1, <2>2, <3>1 DEF KeyStep, KeyLeft, Under
  <2>4. CASE ~Holds(h)
      BY <2>1, <2>2, <2>4 DEF KeyStep, KeysStay, OthersSame, SameWorker, Under
  <2> QED
      BY <2>3, <2>4
<1>7. ASSUME NEW c \in Click, Expire(c) PROVE KeyExpired(c)
    BY <1>7, ApprovalsAssumption
    DEF Expire, KeyExpired, SetTo, SameWorker, Under, Holds, ToldResponse
<1>8. ASSUME \/ \E a \in Approval : CreateCheckpoint(a) \/ AwaitDecision(a)
             \/ \E h \in Request : StartJob(h) \/ RunJob(h) \/ WorkerDies(h)
             \/ UNCHANGED vars
      PROVE  KeysStay
  <2>1. cache' = cache /\ UNCHANGED <<pc, click, outcome>>
      BY <1>8 DEF CreateCheckpoint, AwaitDecision, StartJob, RunJob, WorkerDies, vars
  <2> QED
      BY <2>1 DEF KeysStay, SameWorker, Under, Holds, ToldResponse
<1>9. ASSUME NEW h \in Request, StoreResponse(h) PROVE KeyStep
  <2>1. /\ OthersSame(h) /\ UNCHANGED <<click, outcome>> /\ h \in KeyedRequest
        /\ pc[h] = "cache" /\ pc'[h] = "return"
        /\ click[h] \in Click /\ SetTo(click[h], "response")
      BY <1>9, RequestLeavesOthers DEF StoreResponse, Handle, SetKey, SetTo, TypeOK
  <2>2. Holds(h) /\ Holds(h)' /\ cache[click[h]] = "in_progress"
      BY <2>1 DEF Holds, Holding, KeyIsLock
  <2>3. SameWorker(h)
      BY <2>1, <2>2 DEF SameWorker, Under, ToldResponse
  <2>4. KeyAnswered(h, click[h])
      BY <2>1, <2>2, <2>3 DEF KeyAnswered, OthersSame, Under
  <2> QED
      BY <2>1, <2>4 DEF KeyStep
<1> QED
    BY <1>1, <1>2, <1>3, <1>4, <1>5, <1>6, <1>7, <1>8, <1>9 DEF Next, Handle, Work, KeyStep

\* The holders after a step, as a set.
LEMMA HoldingIs ==
    ASSUME NEW B \in SUBSET (KeyedRequest \X Click),
           \A g \in KeyedRequest, c \in Click : <<g, c>> \in B <=> Under(g, c)'
    PROVE  HoldsKey' = B
<1>1. ASSUME NEW p \in KeyedRequest \X Click PROVE Under(p[1], p[2])' <=> p \in B
    <2>1. p[1] \in KeyedRequest /\ p[2] \in Click /\ p = <<p[1], p[2]>>
        OBVIOUS
    <2> QED
        BY <2>1
<1>2. HoldsKey' = {p \in KeyedRequest \X Click : Under(p[1], p[2])'}
    BY DEF HoldsKey
<1> QED
    BY <1>1, <1>2

\* A key under which somebody works is held or answered, and nobody else works under
\* it.
LEMMA StateIs ==
    ASSUME TypeOK, KeyIsLock, NEW c \in Click
    PROVE  /\ cache[c] \in {"absent", "in_progress", "response"}
           /\ KeyState(c) = IF cache[c] = "absent" THEN "free"
                            ELSE IF cache[c] # "in_progress" THEN "answered"
                            ELSE IF \E h \in KeyedRequest : Under(h, c) THEN "held" ELSE "lost"
           /\ \A h \in KeyedRequest : Under(h, c) =>
                 /\ cache[c] # "absent"
                 /\ \A g \in KeyedRequest : Under(g, c) => g = h
BY ApprovalsAssumption DEF TypeOK, KeyState, KeyIsLock, Under

LEMMA NextStateIs ==
    ASSUME TypeOK', KeyIsLock', NEW c \in Click
    PROVE  /\ cache'[c] \in {"absent", "in_progress", "response"}
           /\ KeyState(c)' = IF cache'[c] = "absent" THEN "free"
                             ELSE IF cache'[c] # "in_progress" THEN "answered"
                             ELSE IF \E h \in KeyedRequest : Under(h, c)' THEN "held" ELSE "lost"
           /\ \A h \in KeyedRequest : Under(h, c)' =>
                 /\ cache'[c] # "absent"
                 /\ \A g \in KeyedRequest : Under(g, c)' => g = h
BY ApprovalsAssumption DEF TypeOK, KeyState, KeyIsLock, Under

LEMMA FreshIsIdle ==
    ASSUME NEW h \in KeyedRequest, Fresh(h)
    PROVE  ClickKey!Idle(h)
BY DEF Fresh, ClickKey!Idle, HoldsKey

LEMMA KeyStepImplements ==
    ASSUME TypeOK, TypeOK', KeyIsLock, KeyIsLock', KeyStep
    PROVE  [ClickKey!KeyNext]_(ClickKey!keyVars)
<1> DEFINE state   == [c \in Click |-> KeyState(c)]
           stored  == [c \in Click |-> StoredResponse(c)]
           told    == [h \in KeyedRequest |-> ToldResponse(h)]
<1>1. CASE KeysStay
  <2>1. HoldsKey' = HoldsKey
      BY <1>1, HoldingIs DEF KeysStay, SameWorker, HoldsKey
  <2>2. state' = state
      BY <1>1, StateIs, NextStateIs DEF KeysStay, SameWorker
  <2>3. stored' = stored /\ told' = told
      BY <1>1 DEF KeysStay, SameWorker, StoredResponse
  <2> QED
      BY <2>1, <2>2, <2>3 DEF ClickKey!keyVars
<1>2. ASSUME NEW h \in KeyedRequest, NEW c \in Click, KeyTaken(h, c)
      PROVE  ClickKey!Take(h, c)
  <2>1. ClickKey!Idle(h)
      BY <1>2, FreshIsIdle DEF KeyTaken
  <2>2. KeyState(c) = "free"
      BY <1>2, StateIs DEF KeyTaken
  <2>3. cache' = [cache EXCEPT ![c] = "in_progress"] /\ Under(h, c)' /\ cache[c] = "absent"
      BY <1>2 DEF KeyTaken, SetTo
  <2>4. \A g \in KeyedRequest, d \in Click :
            Under(g, d)' <=> Under(g, d) \/ (g = h /\ d = c)
      BY <1>2 DEF KeyTaken, OthersSame, SameWorker, Fresh
  <2>5. HoldsKey' = HoldsKey \cup {<<h, c>>}
      BY <2>4, HoldingIs DEF HoldsKey
  <2>6. state' = [state EXCEPT ![c] = "held"]
    <3>1. KeyState(c)' = "held"
        BY <2>3, NextStateIs DEF TypeOK
    <3>2. ASSUME NEW d \in Click, d # c PROVE KeyState(d)' = KeyState(d)
        BY <2>3, <2>4, <3>2, StateIs, NextStateIs DEF TypeOK
    <3> QED
        BY <3>1, <3>2
  <2>7. stored' = stored
      BY <2>3 DEF StoredResponse, TypeOK
  <2>8. told' = told
      BY <1>2 DEF KeyTaken, OthersSame, SameWorker, Fresh
  <2> QED
      BY <2>1, <2>2, <2>5, <2>6, <2>7, <2>8 DEF ClickKey!Take
<1>3. ASSUME NEW h \in KeyedRequest, NEW c \in Click, KeyLeft(h, c)
      PROVE  ClickKey!Succeed(h, c) \/ ClickKey!Fail(h, c) \/ ClickKey!Disappear(h, c)
  <2>1. <<h, c>> \in HoldsKey /\ cache[c] # "absent"
      BY <1>3, StateIs DEF KeyLeft, HoldsKey
  <2>2. \A g \in KeyedRequest, d \in Click :
            Under(g, d)' <=> Under(g, d) /\ ~(g = h /\ d = c)
    <3>1. \A d \in Click : Under(h, d) => d = c
        BY <1>3 DEF KeyLeft, Under
    <3> QED
        BY <1>3, <3>1 DEF KeyLeft, OthersSame, SameWorker
  <2>3. HoldsKey' = HoldsKey \ {<<h, c>>}
      BY <2>2, HoldingIs DEF HoldsKey
  <2>4. ~\E g \in KeyedRequest : Under(g, c)'
      BY <1>3, <2>2, StateIs DEF KeyLeft
  <2>5. ASSUME NEW d \in Click, d # c, cache'[d] = cache[d]
        PROVE  KeyState(d)' = KeyState(d) /\ StoredResponse(d)' = StoredResponse(d)
      BY <2>2, <2>5, StateIs, NextStateIs DEF StoredResponse
  <2>6. \A g \in KeyedRequest : g # h => ToldResponse(g)' = ToldResponse(g)
      BY <1>3 DEF KeyLeft, OthersSame, SameWorker
  <2>7. ASSUME cache[c] = "response", cache' = cache, ToldResponse(h)' = "response"
        PROVE  ClickKey!Succeed(h, c)
    <3>1. KeyState(c) = "answered" /\ KeyState(c)' = "answered" /\ StoredResponse(c) = "response"
        BY <2>7, StateIs, NextStateIs DEF StoredResponse
    <3>2. state' = state /\ stored' = stored
        BY <2>5, <2>7, <3>1 DEF StoredResponse
    <3>3. told' = [told EXCEPT ![h] = "response"]
        BY <2>6, <2>7
    <3> QED
        BY <2>1, <2>3, <3>1, <3>2, <3>3 DEF ClickKey!Succeed, ClickKey!Leave
  <2>8. ASSUME SetTo(c, "absent"), ToldResponse(h)' = ToldResponse(h)
        PROVE  ClickKey!Fail(h, c)
    <3>1. cache'[c] = "absent" /\ \A d \in Click : d # c => cache'[d] = cache[d]
        BY <2>8 DEF SetTo, TypeOK
    <3>2. KeyState(c)' = "free" /\ StoredResponse(c)' = "none"
        BY <3>1, NextStateIs DEF StoredResponse
    <3>3. state' = [state EXCEPT ![c] = "free"] /\ stored' = [stored EXCEPT ![c] = "none"]
        BY <2>5, <3>1, <3>2
    <3>4. told' = told
        BY <2>6, <2>8
    <3> QED
        BY <2>1, <2>3, <3>3, <3>4 DEF ClickKey!Fail, ClickKey!Leave
  <2>9. ASSUME cache' = cache, ToldResponse(h)' = ToldResponse(h)
        PROVE  ClickKey!Disappear(h, c)
    <3>1. KeyState(c)' = IF KeyState(c) = "held" THEN "lost" ELSE KeyState(c)
        BY <2>1, <2>4, <2>9, <1>3, StateIs, NextStateIs DEF KeyLeft
    <3>2. state' = [state EXCEPT ![c] = IF KeyState(c) = "held" THEN "lost" ELSE KeyState(c)]
        BY <2>5, <2>9, <3>1
    <3>3. stored' = stored /\ told' = told
        BY <2>6, <2>9 DEF StoredResponse
    <3> QED
        BY <2>1, <2>3, <3>2, <3>3 DEF ClickKey!Disappear, ClickKey!Leave
  <2> QED
      BY <1>3, <2>7, <2>8, <2>9 DEF KeyLeft
<1>4. ASSUME NEW h \in KeyedRequest, NEW c \in Click, KeyRepeated(h, c)
      PROVE  ClickKey!Repeat(h, c)
  <2>1. ClickKey!Idle(h)
      BY <1>4, FreshIsIdle DEF KeyRepeated
  <2>2. KeyState(c) = "answered" /\ StoredResponse(c) = "response"
      BY <1>4, StateIs DEF KeyRepeated, StoredResponse
  <2>3. \A g \in KeyedRequest, d \in Click : Under(g, d)' <=> Under(g, d)
      BY <1>4 DEF KeyRepeated, OthersSame, SameWorker, Fresh
  <2>4. HoldsKey' = HoldsKey
      BY <2>3, HoldingIs DEF HoldsKey
  <2>5. state' = state /\ stored' = stored
      BY <1>4, <2>3, StateIs, NextStateIs DEF KeyRepeated, StoredResponse
  <2>6. told' = [told EXCEPT ![h] = "response"]
      BY <1>4 DEF KeyRepeated, OthersSame, SameWorker
  <2> QED
      BY <2>1, <2>2, <2>4, <2>5, <2>6 DEF ClickKey!Repeat
<1>5. ASSUME NEW c \in Click, KeyExpired(c)
      PROVE  ClickKey!Expiry(c)
  <2>1. KeyState(c) \in {"lost", "answered"}
      BY <1>5, StateIs DEF KeyExpired
  <2>2. \A g \in KeyedRequest, d \in Click : Under(g, d)' <=> Under(g, d)
      BY <1>5 DEF KeyExpired, SameWorker
  <2>3. HoldsKey' = HoldsKey
      BY <2>2, HoldingIs DEF HoldsKey
  <2>4. cache'[c] = "absent" /\ \A d \in Click : d # c => cache'[d] = cache[d]
      BY <1>5 DEF KeyExpired, SetTo, TypeOK
  <2>5. state' = [state EXCEPT ![c] = "free"]
    <3>1. KeyState(c)' = "free"
        BY <2>4, NextStateIs
    <3>2. ASSUME NEW d \in Click, d # c PROVE KeyState(d)' = KeyState(d)
      <4>1. cache'[d] = cache[d]
          BY <2>4, <3>2
      <4>2. (\E h \in KeyedRequest : Under(h, d)') <=> \E h \in KeyedRequest : Under(h, d)
          BY <2>2
      <4> QED
          BY <4>1, <4>2, StateIs, NextStateIs
    <3> QED
        BY <3>1, <3>2
  <2>6. stored' = [stored EXCEPT ![c] = "none"]
      BY <2>4 DEF StoredResponse
  <2>7. told' = told
      BY <1>5 DEF KeyExpired, SameWorker
  <2>8. \A h \in KeyedRequest : <<h, c>> \notin HoldsKey
      BY <1>5 DEF KeyExpired, HoldsKey
  <2> QED
      BY <2>1, <2>3, <2>5, <2>6, <2>7, <2>8 DEF ClickKey!Expiry
<1>6. ASSUME NEW h \in KeyedRequest, NEW c \in Click, KeyAnswered(h, c)
      PROVE  ClickKey!Store(h, c)
  <2>1. cache'[c] = "response" /\ \A d \in Click : d # c => cache'[d] = cache[d]
      BY <1>6 DEF KeyAnswered, SetTo, TypeOK
  <2>2. <<h, c>> \in HoldsKey /\ cache[c] = "in_progress" /\ Under(h, c)
      BY <1>6 DEF KeyAnswered, HoldsKey
  <2>3. \A g \in KeyedRequest, d \in Click : Under(g, d)' <=> Under(g, d)
      BY <1>6 DEF KeyAnswered, SameWorker
  <2>4. HoldsKey' = HoldsKey
      BY <2>3, HoldingIs DEF HoldsKey
  <2>5. /\ KeyState(c) = "held" /\ KeyState(c)' = "answered"
        /\ StoredResponse(c)' = "response"
      BY <2>1, <2>2, StateIs, NextStateIs DEF StoredResponse
  <2>6. ASSUME NEW d \in Click, d # c
        PROVE  KeyState(d)' = KeyState(d) /\ StoredResponse(d)' = StoredResponse(d)
      BY <2>1, <2>3, <2>6, StateIs, NextStateIs DEF StoredResponse
  <2>7. state' = [state EXCEPT ![c] = "answered"]
      BY <2>5, <2>6
  <2>8. stored' = [stored EXCEPT ![c] = "response"] /\ stored'[c] = "response"
      BY <2>5, <2>6
  <2>9. told' = told
      BY <1>6 DEF KeyAnswered, SameWorker
  <2> QED
      BY <2>2, <2>4, <2>5, <2>7, <2>8, <2>9 DEF ClickKey!Store
<1> QED
    BY <1>1, <1>2, <1>3, <1>4, <1>5, <1>6 DEF KeyStep, ClickKey!KeyNext

LEMMA InitImplements == Init => ClickKey!KeyInit
<1> SUFFICES ASSUME Init PROVE ClickKey!KeyInit
    OBVIOUS
<1>1. \A c \in Click : KeyState(c) = "free" /\ StoredResponse(c) = "none"
    BY DEF Init, KeyState, StoredResponse
<1>2. HoldsKey = {}
  <2>1. \A h \in KeyedRequest : ~Holds(h)
      BY ApprovalsAssumption DEF Init, Holds, Holding
  <2> QED
      BY <2>1 DEF HoldsKey, Under
<1>3. \A h \in KeyedRequest : ToldResponse(h) = "none"
    BY ApprovalsAssumption DEF Init, ToldResponse
<1> QED
    BY <1>1, <1>2, <1>3 DEF ClickKey!KeyInit

\* Whatever approvals, rejections, retries, errors, crashes and expiries
\* interleave (approvals.py:30-95), the key of a click is taken, answered, freed,
\* lost or expired only as IdempotencyKey allows.
THEOREM ClickImplementsKey == Spec => ImplementsKey
<1> DEFINE Inv == TypeOK /\ Delivery /\ KeyIsLock /\ KeyIsAsked
<1>1. Init => Inv
    BY InitTypeOK, ApprovalsAssumption
    DEF Init, Delivery, KeyIsLock, KeyIsAsked, Holds, Holding
<1>2. Inv /\ [Next]_vars => Inv'
    BY NextTypeOK, NextDelivery, NextKeyIsLock, NextKeyIsAsked
<1>3. Inv /\ Inv' /\ [Next]_vars => [ClickKey!KeyNext]_(ClickKey!keyVars)
    BY NextKeyStep, KeyStepImplements
<1> QED
    BY <1>1, <1>2, <1>3, InitImplements, PTL DEF Spec, ImplementsKey, ClickKey!KeySpec
===========================================================================
