----------------------- MODULE ChatTurnsRefinement -----------------------
(***************************************************************************)
(* The Redis key of a chat message implements IdempotencyKey: the request  *)
(* whose handler is past the SET NX holds it, and the answer is the turn   *)
(* that is returned.                                                       *)
(***************************************************************************)
EXTENDS ChatTurns

Under(h, k) == Holds(h) /\ msg[h] = k

KeyState(k) ==
    CASE cache[k] = Absent -> "free"
      [] cache[k] = InProgress -> IF \E h \in Request : Under(h, k) THEN "held" ELSE "lost"
      [] OTHER -> "answered"

HoldsKey == {p \in Request \X KeyedMessage : Under(p[1], p[2])}

StoredTurn(k) == IF cache[k] = InProgress THEN Absent ELSE cache[k]

ToldTurn(h) == IF Keyed(h) /\ reply[h] \in {"ok", "cached"} THEN answer[h] ELSE Absent

ChatKey == INSTANCE IdempotencyKey WITH
    Worker <- Request, Key <- KeyedMessage, Answer <- Nat, NoAnswer <- Absent,
    state <- [k \in KeyedMessage |-> KeyState(k)], holding <- HoldsKey,
    stored <- [k \in KeyedMessage |-> StoredTurn(k)],
    told <- [h \in Request |-> ToldTurn(h)]

\* Whatever requests, sockets, failures, cancellations and expiries interleave
\* (chat.py:35-83), a key is taken, answered, freed, lost or expired as
\* IdempotencyKey allows: only its holder stores an answer or frees it, and what
\* a retry is told is what is stored.
ImplementsKey == ChatKey!KeySpec
===========================================================================
