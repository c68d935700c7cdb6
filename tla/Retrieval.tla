----------------------------- MODULE Retrieval -----------------------------
(***************************************************************************)
(* One call of the retrieval agent (support_system/subagents/              *)
(* retrieval_agent/graph.py): rewrite the query, search the vector store   *)
(* and the full-text table, fuse both lists (reciprocal_rank_fusion of     *)
(* rag/pgvector_client.py), rerank, answer.                                *)
(*                                                                         *)
(* A chunk stands for itself in both stores; the stores and the LLM are    *)
(* free in what they return.  What a node raises ends the call.            *)
(***************************************************************************)
EXTENDS Integers, Sequences, FiniteSets

CONSTANTS
    Chunk,      \* what the stores hold
    Own,        \* the chunks of the workspace whose customer asks
    Identified, \* chunks with an "id" in the metadata of the vector store
                \* (process_document_task gives them none)
    TopK,       \* top_k
    Unit,       \* a common multiple of the ranks' denominators
    Score,      \* what the cross-encoder may return
    Threshold   \* RERANK_THRESHOLD

ASSUME RetrievalAssumption ==
    /\ Own \subseteq Chunk /\ Identified \subseteq Chunk
    /\ TopK \in Nat \ {0}
    /\ Unit \in Nat \ {0}
    /\ \A n \in 1..TopK : Unit % (60 + n) = 0
    /\ Score \subseteq Int /\ Threshold \in Int

VARIABLES
    api,        \* how the graph is run
    config,     \* the keys of agent_config
    stage,      \* the next node, or how the call ended
    dense,      \* chunks of the vector store, best first
    sparse,     \* chunks of the full-text table, best first
    docs,       \* retrieved_docs
    score,      \* rerank_score
    result      \* final_response

retrievalVars == <<api, config, stage, dense, sparse, docs, score, result>>

Elems(list) == {list[n] : n \in DOMAIN list}
Place(list, c) == CHOOSE n \in DOMAIN list : list[n] = c

\* Lists of up to TopK different chunks.
Ranking(S) ==
    UNION {{f \in [1..n -> S] : \A a, b \in 1..n : a # b => f[a] # f[b]} : n \in 0..TopK}

\* What build_agent_config returns: nothing, or this.
BuiltConfig == {{}, {"orchestrator", "subagents"}}

NoResult == [kind |-> "none"]
Result ==
    {NoResult} \cup
    [kind : {"below_threshold", "answer"}, cited : Seq(Chunk), insufficient_coverage : BOOLEAN]

RetrievalTypeOK ==
    /\ api \in {"invoke", "ainvoke"}
    /\ config \in BuiltConfig
    /\ stage \in {"rewrite_query", "vector_search", "keyword_search", "fusion",
                  "rerank", "generate_answer", "end", "raised"}
    /\ dense \in Seq(Chunk) /\ sparse \in Seq(Chunk) /\ docs \in Seq(Chunk)
    /\ score \in [Chunk -> Score \cup {Threshold}]
    /\ result \in Result

\* invoke_retrieval_agent uses invoke; the compiled graph offers ainvoke too.
RetrievalInit ==
    /\ api \in {"invoke", "ainvoke"}
    /\ config \in BuiltConfig
    /\ stage = "rewrite_query"
    /\ dense = <<>> /\ sparse = <<>> /\ docs = <<>>
    /\ score = [c \in Chunk |-> Threshold]
    /\ result = NoResult

\* A node raises: build_model (always for an empty configuration), the LLM,
\* the embedding, the pool or a query.
Raise ==
    /\ stage \notin {"fusion", "end", "raised"}
    /\ stage' = "raised"
    /\ UNCHANGED <<api, config, dense, sparse, docs, score, result>>

RewriteQuery ==
    /\ stage = "rewrite_query"
    /\ config # {}
    /\ stage' = "vector_search"
    /\ UNCHANGED <<api, config, dense, sparse, docs, score, result>>

\* Only a workspace_id in agent_config narrows the searches.
Searched == IF "workspace_id" \in config THEN Own ELSE Chunk

SimilaritySearch ==
    /\ stage = "vector_search"
    /\ dense' \in Ranking(Searched)
    /\ stage' = "keyword_search"
    /\ UNCHANGED <<api, config, sparse, docs, score, result>>

KeywordSearch ==
    /\ stage = "keyword_search"
    /\ sparse' \in Ranking(Searched)
    /\ stage' = "fusion"
    /\ UNCHANGED <<api, config, dense, docs, score, result>>

---------------------------------------------------------------------------
(* reciprocal_rank_fusion, k = 60 *)

\* What sorted(..., reverse=True) puts in front of c: a higher key, or the same
\* key and an earlier place in what is sorted.
Ahead(S, key, place, c) ==
    {d \in S : key[d] > key[c] \/ (key[d] = key[c] /\ place[d] < place[c])}

Descending(S, key, place) ==
    [n \in 1..Cardinality(S) |->
        CHOOSE c \in S : Cardinality(Ahead(S, key, place, c)) = n - 1]

\* Mutant: ranks are counted from the end.
ShareReversed(list, c) ==
    IF c \in Elems(list) THEN Unit \div (61 + TopK - Place(list, c)) ELSE 0

\* 1 / (k + rank + 1), in units
Share(list, c) == IF c \in Elems(list) THEN Unit \div (60 + Place(list, c)) ELSE 0

\* Documents without an id are left out, but keep their rank.
WithId == Elems(dense) \cap Identified
RRF == [c \in Chunk |-> (IF c \in WithId THEN Share(dense, c) ELSE 0) + Share(sparse, c)]

Found == WithId \cup Elems(sparse)

\* The dict's order: first those of the dense list, then the new sparse ones.
FirstSeen ==
    [c \in Found |-> IF c \in WithId THEN Place(dense, c) ELSE Len(dense) + Place(sparse, c)]

Fused == Descending(Found, RRF, FirstSeen)

Fusion ==
    /\ stage = "fusion"
    /\ docs' = Fused
    /\ stage' = "rerank"
    /\ UNCHANGED <<api, config, dense, sparse, score, result>>

---------------------------------------------------------------------------
(* rerank, generate_answer *)

Best(list, key) ==
    LET sorted == Descending(Elems(list), key, [c \in Elems(list) |-> Place(list, c)])
    IN  SubSeq(sorted, 1, IF Len(list) < TopK THEN Len(list) ELSE TopK)

\* The node is a coroutine function only: LangGraph runs it under ainvoke and
\* raises a TypeError under invoke.
Rerank ==
    /\ stage = "rerank"
    /\ api = "ainvoke"
    /\ \E f \in [Elems(docs) -> Score] :
        /\ score' = [c \in Chunk |-> IF c \in Elems(docs) THEN f[c] ELSE score[c]]
        /\ docs' = Best(docs, f)
    /\ stage' = "generate_answer"
    /\ UNCHANGED <<api, config, dense, sparse, result>>

\* Mutant: the threshold is compared with the last document.
BelowAtLast == docs # <<>> /\ score[docs[Len(docs)]] < Threshold

Below == docs # <<>> /\ score[docs[1]] < Threshold

\* A top document below the threshold ends the call without the LLM.  The LLM
\* is asked also when there is no document, and says whether it had enough.
GenerateAnswer ==
    /\ stage = "generate_answer"
    /\ IF Below
       THEN result' = [kind |-> "below_threshold", cited |-> <<>>, insufficient_coverage |-> TRUE]
       ELSE \E phrase \in BOOLEAN :
                result' = [kind |-> "answer", cited |-> docs, insufficient_coverage |-> phrase]
    /\ stage' = "end"
    /\ UNCHANGED <<api, config, dense, sparse, docs, score>>

RetrievalNext ==
    \/ Raise
    \/ RewriteQuery \/ SimilaritySearch \/ KeywordSearch \/ Fusion
    \/ Rerank \/ GenerateAnswer

RetrievalSpec == RetrievalInit /\ [][RetrievalNext]_retrievalVars

---------------------------------------------------------------------------
(* Properties *)

\* Neither list is better at c than at d (a document that is not found, or has
\* no id there, is last).
NoWorse(c, d) ==
    /\ d \in WithId => c \in WithId /\ Place(dense, c) <= Place(dense, d)
    /\ d \in Elems(sparse) => c \in Elems(sparse) /\ Place(sparse, c) <= Place(sparse, d)

\* Fusion keeps every document with an id, once, and puts none before another
\* that both lists rank higher: agreement of the two searches is never undone.
FusionAgrees ==
    stage = "rerank" =>
        /\ Elems(docs) = Found
        /\ Cardinality(Elems(docs)) = Len(docs)
        /\ \A m, n \in DOMAIN docs : m < n => ~NoWorse(docs[n], docs[m])

\* The verdict on the coverage is one on all that was found: no answer is
\* refused while some document found, cited or cut, reaches the threshold, and
\* an answer's first citation scores as high as any document found.
VerdictSeesAll ==
    stage = "end" =>
        /\ result.kind = "below_threshold" => \A c \in Found : score[c] < Threshold
        /\ result.kind = "answer" /\ Found # {} =>
            /\ Len(result.cited) \in 1..TopK
            /\ \A c \in Found : score[result.cited[1]] >= score[c]
===========================================================================
