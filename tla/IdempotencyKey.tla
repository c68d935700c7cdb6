-------------------------- MODULE IdempotencyKey --------------------------
(***************************************************************************)
(* What an Idempotency-Key promises the requests that carry it, without    *)
(* Redis and without the work: one request at a time works under the key   *)
(* and stores its answer there, and others are told what is stored.  Until *)
(* it has returned, it may still fail: it frees the key and so takes the   *)
(* answer back that others may have been told.  One that is refused or     *)
(* disappears leaves the key as it is; what nobody holds may expire.       *)
(***************************************************************************)
CONSTANTS
    Worker,   \* requests
    Key,
    Answer,   \* what a success returns
    NoAnswer

VARIABLES
    state,    \* of each key
    holding,  \* which worker works under which key
    stored,   \* the answer stored under each key
    told      \* the answer each worker has got

keyVars == <<state, holding, stored, told>>

\* A worker works under one key, and only until it has an answer.
Idle(w) == told[w] = NoAnswer /\ \A k \in Key : <<w, k>> \notin holding

KeyInit ==
    /\ state = [k \in Key |-> "free"]
    /\ holding = {}
    /\ stored = [k \in Key |-> NoAnswer]
    /\ told = [w \in Worker |-> NoAnswer]

Take(w, k) ==
    /\ Idle(w)
    /\ state[k] = "free"
    /\ state' = [state EXCEPT ![k] = "held"]
    /\ holding' = holding \cup {<<w, k>>}
    /\ UNCHANGED <<stored, told>>

Store(w, k) ==
    /\ <<w, k>> \in holding
    /\ state[k] = "held"
    /\ state' = [state EXCEPT ![k] = "answered"]
    /\ stored'[k] \in Answer
    /\ stored' = [stored EXCEPT ![k] = stored'[k]]
    /\ UNCHANGED <<holding, told>>

\* What a worker does to its key alone.
Leave(w, k) ==
    /\ <<w, k>> \in holding
    /\ holding' = holding \ {<<w, k>>}

\* What is answered is what is stored.
Succeed(w, k) ==
    /\ Leave(w, k)
    /\ state[k] = "answered"
    /\ told' = [told EXCEPT ![w] = stored[k]]
    /\ UNCHANGED <<state, stored>>

Fail(w, k) ==
    /\ Leave(w, k)
    /\ state' = [state EXCEPT ![k] = "free"]
    /\ stored' = [stored EXCEPT ![k] = NoAnswer]
    /\ UNCHANGED told

Disappear(w, k) ==
    /\ Leave(w, k)
    /\ state' = [state EXCEPT ![k] = IF @ = "held" THEN "lost" ELSE @]
    /\ UNCHANGED <<stored, told>>

Repeat(w, k) ==
    /\ Idle(w)
    /\ state[k] = "answered"
    /\ told' = [told EXCEPT ![w] = stored[k]]
    /\ UNCHANGED <<state, holding, stored>>

Expiry(k) ==
    /\ state[k] \in {"lost", "answered"}
    /\ \A w \in Worker : <<w, k>> \notin holding
    /\ state' = [state EXCEPT ![k] = "free"]
    /\ stored' = [stored EXCEPT ![k] = NoAnswer]
    /\ UNCHANGED <<holding, told>>

KeyNext ==
    \/ \E w \in Worker, k \in Key :
          \/ Take(w, k) \/ Repeat(w, k) \/ Store(w, k)
          \/ Succeed(w, k) \/ Fail(w, k) \/ Disappear(w, k)
    \/ \E k \in Key : Expiry(k)

KeySpec == KeyInit /\ [][KeyNext]_keyVars
===========================================================================
