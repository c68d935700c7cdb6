----------------------- MODULE ApprovalsRefinement -----------------------
(***************************************************************************)
(* The Redis key of an operator's click implements IdempotencyKey, the     *)
(* lock and store that chat messages have.                                 *)
(***************************************************************************)
EXTENDS Approvals

Under(h, c) == Holds(h) /\ click[h] = c

KeyState(c) ==
    CASE cache[c] = "absent" -> "free"
      [] cache[c] = "in_progress" -> IF \E h \in KeyedRequest : Under(h, c) THEN "held" ELSE "lost"
      [] cache[c] = "response" -> "answered"

HoldsKey == {p \in KeyedRequest \X Click : Under(p[1], p[2])}

\* All responses of a click are the same message.
StoredResponse(c) == IF cache[c] = "response" THEN "response" ELSE "none"

ToldResponse(h) == IF outcome[h] \in {"ok", "cached"} THEN "response" ELSE "none"

ClickKey == INSTANCE IdempotencyKey WITH
    Worker <- KeyedRequest, Key <- Click, Answer <- {"response"}, NoAnswer <- "none",
    state <- [c \in Click |-> KeyState(c)], holding <- HoldsKey,
    stored <- [c \in Click |-> StoredResponse(c)],
    told <- [h \in KeyedRequest |-> ToldResponse(h)]

\* Whatever approvals, rejections, retries, errors, crashes and expiries
\* interleave (approvals.py:30-95), the key of a click is taken, answered, freed,
\* lost or expired as IdempotencyKey allows.
ImplementsKey == ClickKey!KeySpec
===========================================================================
