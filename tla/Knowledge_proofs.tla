------------------------- MODULE Knowledge_proofs -------------------------
(***************************************************************************)
(* Proofs about what the agents know, for any number of requests, chunks   *)
(* and tries.  KnowledgeBase, what ingests documents: a ready document is  *)
(* searchable, and what survives a deletion.  Retrieval, what searches     *)
(* them: fusion keeps what both searches agree on, and the verdict is on   *)
(* all that was found.                                                     *)
(***************************************************************************)
EXTENDS KnowledgeBase, Retrieval, FunctionTheorems, FiniteSetTheorems, TLAPS

---------------------------------------------------------------------------
(* KnowledgeBase *)

LEMMA InitTypeOK == Init => TypeOK
<1> SUFFICES ASSUME Init PROVE TypeOK
    OBVIOUS
<1>1. 0 \in 0..MaxTries
    BY KnowledgeBaseAssumption
<1>2. pc \in [Handler -> {"new"}] /\ job \in [Job -> {"none"}] /\ tries \in [Job -> {0}]
    BY DEF Init
<1> QED
    BY <1>1, <1>2 DEF Init, TypeOK, Status

LEMMA RunOfIsRun ==
    ASSUME TypeOK, NEW j \in Job, tries[j] # 0
    PROVE  RunOf(j) \in Run
BY KnowledgeBaseAssumption DEF TypeOK, RunOf, Run

\* A job at work was started, so its run is a run.
Started == \A j \in Job : job[j] \in AtWork => tries[j] # 0

LEMMA NextTypeOK == TypeOK /\ Started /\ [Next]_vars => TypeOK' /\ Started'
<1> SUFFICES ASSUME TypeOK, Started, [Next]_vars PROVE TypeOK' /\ Started'
    OBVIOUS
<1> USE DEF Goto, Move, store, handlerVars, workerVars, history
<1>1. ASSUME NEW h \in Handler,
             \/ WriteFile(h) \/ CommitDocument(h)
             \/ ReadForRetry(h) \/ ReadForDelete(h)
      PROVE  TypeOK' /\ Started'
    BY <1>1 DEF WriteFile, CommitDocument, ReadForRetry, ReadForDelete, Exists, TypeOK,
                Started, Status
<1>2. ASSUME NEW h \in Handler,
             SetProcessing(h) \/ DeleteVectors(h) \/ DeleteFile(h) \/ HandlerFails(h)
      PROVE  TypeOK' /\ Started'
    BY <1>2 DEF SetProcessing, DeleteVectors, DeleteFile, HandlerFails, Assign, TypeOK,
                Started, Status
<1>3. ASSUME NEW h \in Handler, Enqueue(h) PROVE TypeOK' /\ Started'
    BY <1>3 DEF Enqueue, TypeOK, Started, AtWork
<1>4. ASSUME NEW h \in Handler, DeleteRow(h) PROVE TypeOK' /\ Started'
    BY <1>4 DEF DeleteRow, TypeOK, Started, Status
<1>5. ASSUME NEW j \in Job, StartJob(j) PROVE TypeOK' /\ Started'
    BY <1>5, KnowledgeBaseAssumption DEF StartJob, TypeOK, Started, AtWork
<1>6. ASSUME NEW j \in Job, UpsertVectors(j) \/ UpsertRaises(j) \/ CommitReady(j)
      PROVE  TypeOK' /\ Started'
    <2>1. job[j] \in AtWork
        BY <1>6 DEF UpsertVectors, UpsertRaises, CommitReady, AtWork
    <2>2. RunOf(j) \in Run
        BY <2>1, RunOfIsRun DEF Started
    <2>3. TypeOK'
        BY <1>6, <2>2 DEF UpsertVectors, UpsertRaises, CommitReady, Assign, TypeOK, Status, AtWork
    <2>4. Started'
        BY <1>6, <2>1 DEF UpsertVectors, UpsertRaises, CommitReady, TypeOK, Started
    <2> QED
        BY <2>3, <2>4
<1>7. ASSUME NEW j \in Job,
             CommitRaises(j) \/ MarkFailed(j) \/ MarkFailedRaises(j) \/ WorkerDies(j)
      PROVE  TypeOK' /\ Started'
    BY <1>7 DEF CommitRaises, MarkFailed, MarkFailedRaises, WorkerDies, Assign, TypeOK,
                Started, Status, AtWork
<1>8. CASE UNCHANGED vars
    BY <1>8 DEF vars, TypeOK, Started
<1> QED
    BY <1>1, <1>2, <1>3, <1>4, <1>5, <1>6, <1>7, <1>8 DEF Next, Handle, Work

\* Every variable keeps its type, and a job at work has a run that is numbered,
\* however handlers, jobs and crashes interleave.
THEOREM TypeCorrect == Spec => [](TypeOK /\ Started)
<1>1. Init => Started
    BY DEF Init, Started, AtWork
<1> QED
    BY <1>1, InitTypeOK, NextTypeOK, PTL DEF Spec

---------------------------------------------------------------------------
(* Ready documents *)

\* A run that is about to commit has its vectors there.
Backed == \A j \in Job : job[j] = "upserted" => RunOf(j) \in vectors

Searchable == ReadyIsSearchable /\ Backed

LEMMA NextSearchable == TypeOK /\ Searchable /\ [Next]_vars => Searchable'
<1> SUFFICES ASSUME TypeOK, Searchable, [Next]_vars PROVE Searchable'
    OBVIOUS
<1> USE DEF Goto, Move, store, handlerVars, workerVars, history, Searchable, Backed,
            ReadyIsSearchable, RunOf
<1>1. ASSUME NEW h \in Handler,
             \/ WriteFile(h) \/ CommitDocument(h) \/ ReadForRetry(h) \/ ReadForDelete(h)
             \/ DeleteFile(h) \/ HandlerFails(h)
      PROVE  Searchable'
    BY <1>1 DEF WriteFile, CommitDocument, ReadForRetry, ReadForDelete, DeleteFile, HandlerFails
<1>2. ASSUME NEW h \in Handler, SetProcessing(h) PROVE Searchable'
    BY <1>2 DEF SetProcessing, Assign
<1>3. ASSUME NEW h \in Handler, Enqueue(h) PROVE Searchable'
    BY <1>3 DEF Enqueue, TypeOK
<1>4. ASSUME NEW h \in Handler, DeleteVectors(h) \/ DeleteRow(h) PROVE Searchable'
    BY <1>4 DEF DeleteVectors, DeleteRow
<1>5. ASSUME NEW j \in Job, StartJob(j) PROVE Searchable'
    BY <1>5 DEF StartJob, TypeOK
<1>6. ASSUME NEW j \in Job, UpsertVectors(j) \/ UpsertRaises(j) PROVE Searchable'
    BY <1>6 DEF UpsertVectors, UpsertRaises, TypeOK
<1>7. ASSUME NEW j \in Job, CommitReady(j) PROVE Searchable'
    BY <1>7 DEF CommitReady, Assign, TypeOK
<1>8. ASSUME NEW j \in Job,
             CommitRaises(j) \/ MarkFailed(j) \/ MarkFailedRaises(j) \/ WorkerDies(j)
      PROVE  Searchable'
    BY <1>8 DEF CommitRaises, MarkFailed, MarkFailedRaises, WorkerDies, Assign, TypeOK
<1>9. CASE UNCHANGED vars
    BY <1>9 DEF vars
<1> QED
    BY <1>1, <1>2, <1>3, <1>4, <1>5, <1>6, <1>7, <1>8, <1>9 DEF Next, Handle, Work

\* A ready document has vectors, and every audit row
\* refers to vectors that exist, whatever retries, crashes and errors came before
\* (upsert_chunks before the commit of knowledge_service.py:105).
THEOREM ReadyStaysSearchable == Spec => []ReadyIsSearchable
<1>1. Init => Searchable
    BY DEF Init, Searchable, ReadyIsSearchable, Backed
<1>2. Searchable => ReadyIsSearchable
    BY DEF Searchable
<1>3. Init => TypeOK /\ Started
    BY InitTypeOK DEF Init, Started, AtWork
<1> QED
    BY <1>1, <1>2, <1>3, NextTypeOK, NextSearchable, PTL DEF Spec

---------------------------------------------------------------------------
(* Deleted documents *)

\* Vectors are those of runs begun, none before there is a row; the runs at work when
\* it is gone were begun before it went.
Begun == {r \in Run : r[2] <= tries[r[1]]}

Orphans ==
    /\ vectors \subseteq Begun
    /\ status = "none" => vectors = {} /\ \A j \in Job : job[j] \notin AtWork
    /\ status = "deleted" => \A j \in Job : job[j] \in AtWork => RunOf(j) \in begun

Bounded == DeletedStaysDeleted /\ Orphans

LEMMA NextBounded == TypeOK /\ Started /\ Bounded /\ [Next]_vars => Bounded'
<1> SUFFICES ASSUME TypeOK, Started, Bounded, [Next]_vars PROVE Bounded'
    OBVIOUS
<1> USE DEF Goto, Move, store, handlerVars, workerVars, history, Bounded, Orphans,
            DeletedStaysDeleted, RunOf
<1>0. \A j \in Job : job[j] \in AtWork => RunOf(j) \in Begun
    BY RunOfIsRun DEF Started, Begun, TypeOK
<1>1. ASSUME NEW h \in Handler,
             \/ WriteFile(h) \/ CommitDocument(h) \/ ReadForRetry(h) \/ ReadForDelete(h)
             \/ DeleteVectors(h) \/ DeleteFile(h) \/ HandlerFails(h)
      PROVE  Bounded'
    BY <1>1 DEF WriteFile, CommitDocument, ReadForRetry, ReadForDelete, DeleteVectors,
                DeleteFile, HandlerFails, Begun
<1>2. ASSUME NEW h \in Handler, SetProcessing(h) PROVE Bounded'
    BY <1>2 DEF SetProcessing, Assign, Exists, Begun
<1>3. ASSUME NEW h \in Handler, Enqueue(h) PROVE Bounded'
    BY <1>3 DEF Enqueue, AtWork, TypeOK, Begun
<1>4. ASSUME NEW h \in Handler, DeleteRow(h) PROVE Bounded'
  <2>1. /\ chunks' = {} /\ vectors' = vectors /\ job' = job /\ tries' = tries
        /\ status' = "deleted"
        /\ begun' = IF Exists THEN Begun ELSE begun
      BY <1>4 DEF DeleteRow, Begun
  <2>2. Begun' = Begun
      BY <2>1 DEF Begun
  <2> QED
      BY <1>0, <2>1, <2>2 DEF Exists, TypeOK
<1>5. ASSUME NEW j \in Job, StartJob(j) PROVE Bounded'
  <2>1. ASSUME NEW r \in Begun PROVE r \in Begun'
      BY <1>5, <2>1, KnowledgeBaseAssumption DEF StartJob, Begun, TypeOK, Run
  <2>2. \A i \in Job : job'[i] \in AtWork => Exists \/ (job[i] \in AtWork /\ tries'[i] = tries[i])
      BY <1>5 DEF StartJob, AtWork, TypeOK
  <2> QED
      BY <1>5, <2>1, <2>2 DEF StartJob, Exists
<1>6. ASSUME NEW j \in Job, UpsertVectors(j) \/ UpsertRaises(j) PROVE Bounded'
  <2>1. /\ vectors' \in {vectors, vectors \cup {RunOf(j)}} /\ job[j] \in AtWork
        /\ UNCHANGED <<status, chunks, tries, begun>>
        /\ \A i \in Job : job'[i] \in AtWork => job[i] \in AtWork
      BY <1>6 DEF UpsertVectors, UpsertRaises, AtWork, TypeOK
  <2>2. Begun' = Begun
      BY <2>1 DEF Begun
  <2> QED
      BY <1>0, <2>1, <2>2
<1>7. ASSUME NEW j \in Job, CommitReady(j) PROVE Bounded'
    BY <1>7 DEF CommitReady, Assign, Exists, AtWork, TypeOK, Begun
<1>8. ASSUME NEW j \in Job,
             CommitRaises(j) \/ MarkFailed(j) \/ MarkFailedRaises(j) \/ WorkerDies(j)
      PROVE  Bounded'
    BY <1>8 DEF CommitRaises, MarkFailed, MarkFailedRaises, WorkerDies, Assign, Exists,
                AtWork, TypeOK, Begun
<1>9. CASE UNCHANGED vars
    BY <1>9 DEF vars, Begun
<1> QED
    BY <1>1, <1>2, <1>3, <1>4, <1>5, <1>6, <1>7, <1>8, <1>9 DEF Next, Handle, Work

\* A deletion ends the ingestion: a deleted document has no chunk rows, and no run
\* that starts after it adds vectors, whatever jobs and retries raced it (the query
\* of knowledge_service.py:59-65 and the foreign key at the commit of :105).
THEOREM DeletionIsFinal == Spec => []DeletedStaysDeleted
<1>1. Init => Bounded
    BY DEF Init, Bounded, DeletedStaysDeleted, Orphans, AtWork
<1>2. Bounded => DeletedStaysDeleted
    BY DEF Bounded
<1>3. Init => TypeOK /\ Started
    BY InitTypeOK DEF Init, Started, AtWork
<1> QED
    BY <1>1, <1>2, <1>3, NextTypeOK, NextBounded, PTL DEF Spec

---------------------------------------------------------------------------
(* Retrieval: sorting *)

\* Keys and places that put every two elements of S in an order.
Sortable(S, key, place) ==
    /\ IsFiniteSet(S)
    /\ \A c \in S : key[c] \in Int /\ place[c] \in Int
    /\ \A c, d \in S : place[c] = place[d] => c = d

\* Of two elements one is ahead of the other, and fewer are ahead of it.
LEMMA AheadIsStrict ==
    ASSUME NEW S, NEW key, NEW place, Sortable(S, key, place),
           NEW c \in S, NEW d \in Ahead(S, key, place, c)
    PROVE  /\ Cardinality(Ahead(S, key, place, d)) \in Nat
           /\ Cardinality(Ahead(S, key, place, c)) \in Nat
           /\ Cardinality(Ahead(S, key, place, d)) < Cardinality(Ahead(S, key, place, c))
<1> DEFINE A == Ahead(S, key, place, c)
           B == Ahead(S, key, place, d)
<1>1. d \in S /\ A \subseteq S
    BY DEF Ahead
<1>2. IsFiniteSet(A)
    BY <1>1, FS_Subset DEF Sortable
<1>3. B \subseteq A
    BY <1>1 DEF Ahead, Sortable
<1>4. d \in A /\ d \notin B
    BY <1>1 DEF Ahead, Sortable
<1>5. IsFiniteSet(B) /\ Cardinality(B) <= Cardinality(A) /\ Cardinality(A) # Cardinality(B)
    BY <1>2, <1>3, <1>4, FS_Subset
<1>6. Cardinality(A) \in Nat /\ Cardinality(B) \in Nat
    BY <1>2, <1>5, FS_CardinalityType
<1> QED
    BY <1>5, <1>6

LEMMA AheadIsTotal ==
    ASSUME NEW S, NEW key, NEW place, Sortable(S, key, place),
           NEW c \in S, NEW d \in S, c # d
    PROVE  d \in Ahead(S, key, place, c) \/ c \in Ahead(S, key, place, d)
BY DEF Ahead, Sortable

LEMMA AheadIsFew ==
    ASSUME NEW S, NEW key, NEW place, Sortable(S, key, place), NEW c \in S
    PROVE  /\ Cardinality(Ahead(S, key, place, c)) + 1 \in 1..Cardinality(S)
           /\ Cardinality(Ahead(S, key, place, c)) \in Nat
           /\ Cardinality(S) \in Nat
<1> DEFINE A == Ahead(S, key, place, c)
<1>1. A \subseteq S /\ c \in S /\ c \notin A
    BY DEF Ahead, Sortable
<1>2. IsFiniteSet(S) /\ IsFiniteSet(A) /\ Cardinality(A) <= Cardinality(S)
      /\ Cardinality(A) # Cardinality(S)
    BY <1>1, FS_Subset DEF Sortable
<1>3. Cardinality(A) \in Nat /\ Cardinality(S) \in Nat
    BY <1>2, FS_CardinalityType
<1> QED
    BY <1>2, <1>3

\* What sorting returns: every element once, and what is ahead of it before it.
LEMMA DescendingSorts ==
    ASSUME NEW S, NEW key, NEW place, Sortable(S, key, place)
    PROVE  LET list == Descending(S, key, place)
           IN  /\ list \in [1..Cardinality(S) -> S]
               /\ Cardinality(S) \in Nat
               /\ Elems(list) = S
               /\ \A m, n \in 1..Cardinality(S) :
                     m < n => list[m] \in Ahead(S, key, place, list[n])
<1> DEFINE N == Cardinality(S)
           A(c) == Ahead(S, key, place, c)
           list == Descending(S, key, place)
           f == [c \in S |-> Cardinality(A(c)) + 1]
<1>1. IsFiniteSet(S) /\ N \in Nat
    BY FS_CardinalityType DEF Sortable
<1>2. f \in [S -> 1..N] /\ \A c \in S : Cardinality(A(c)) \in Nat
    BY AheadIsFew
<1>3. ASSUME NEW c \in S, NEW d \in S, f[c] = f[d] PROVE c = d
  <2>1. d \notin A(c) /\ c \notin A(d)
      BY <1>2, <1>3, AheadIsStrict
  <2> QED
      BY <2>1, AheadIsTotal
<1>4. f \in Injection(S, 1..N)
    BY <1>2, <1>3 DEF Injection, IsInjective
<1>5. f \in Surjection(S, 1..N)
  <2>1. IsFiniteSet(1..N) /\ Cardinality(1..N) = N
      BY <1>1, FS_Interval
  <2> QED
      BY <2>1, <1>4, FS_Injection
<1>6. \A n \in 1..N : \E c \in S : f[c] = n
    BY <1>5 DEF Surjection
<1>7. ASSUME NEW n \in 1..N
      PROVE  list[n] \in S /\ f[list[n]] = n
  <2>1. \E c \in S : Cardinality(A(c)) = n - 1
      BY <1>1, <1>2, <1>6
  <2>2. list[n] = CHOOSE c \in S : Cardinality(A(c)) = n - 1
      BY DEF Descending
  <2>3. list[n] \in S /\ Cardinality(A(list[n])) = n - 1
      BY <2>1, <2>2
  <2> QED
      BY <1>1, <2>3
<1>8. list \in [1..N -> S] /\ DOMAIN list = 1..N
    BY <1>7 DEF Descending
<1>9. Elems(list) = S
  <2>1. ASSUME NEW c \in S PROVE c \in Elems(list)
    <3>1. f[c] \in 1..N /\ list[f[c]] = c
        BY <1>2, <1>3, <1>7
    <3> QED
        BY <3>1, <1>8 DEF Elems
  <2> QED
      BY <2>1, <1>8 DEF Elems
<1>10. ASSUME NEW m \in 1..N, NEW n \in 1..N, m < n
       PROVE  list[m] \in A(list[n])
  <2>1. list[m] # list[n] /\ f[list[m]] < f[list[n]] /\ list[m] \in S /\ list[n] \in S
      BY <1>1, <1>7, <1>10
  <2>2. CASE list[n] \in A(list[m])
      BY <2>1, <2>2, <1>2, AheadIsStrict
  <2> QED
      BY <2>1, <2>2, AheadIsTotal
<1> QED
    BY <1>1, <1>8, <1>9, <1>10

(* Shares *)

\* A better rank has the larger share.
LEMMA ShareFalls ==
    ASSUME NEW m \in 1..TopK, NEW n \in 1..TopK, m < n
    PROVE  Unit \div (60 + n) < Unit \div (60 + m)
<1> DEFINE p == Unit \div (60 + m)
           q == Unit \div (60 + n)
<1>1. m \in Nat /\ n \in Nat /\ Unit \in Nat \ {0}
    BY RetrievalAssumption
<1>2. Unit % (60 + m) = 0 /\ Unit % (60 + n) = 0
    BY RetrievalAssumption
<1>3. p \in Int /\ Unit = (60 + m) * p
    BY <1>1, <1>2, SMTT(30)
<1>4. q \in Int /\ Unit = (60 + n) * q
    BY <1>1, <1>2, SMTT(30)
<1> HIDE DEF p, q
<1>5. q > 0
    BY <1>1, <1>4, SMTT(30)
<1>6. (60 + m) * q < (60 + n) * q
    BY <1>1, <1>4, <1>5, SMTT(30)
<1>7. (60 + m) * q < (60 + m) * p
    BY <1>3, <1>4, <1>6
<1>8. q < p
    BY <1>1, <1>3, <1>4, <1>7, SMTT(30)
<1> QED
    BY <1>8 DEF p, q

LEMMA ShareIsPositive ==
    ASSUME NEW n \in 1..TopK
    PROVE  Unit \div (60 + n) \in Nat /\ Unit \div (60 + n) > 0
<1> DEFINE q == Unit \div (60 + n)
<1>1. n \in Nat /\ Unit \in Nat \ {0}
    BY RetrievalAssumption
<1>2. Unit % (60 + n) = 0
    BY RetrievalAssumption
<1>3. q \in Int /\ Unit = (60 + n) * q
    BY <1>1, <1>2, SMTT(30)
<1> HIDE DEF q
<1>4. q > 0
    BY <1>1, <1>3, SMTT(30)
<1> QED
    BY <1>3, <1>4 DEF q

(* Rankings *)

\* A list as a search returns it: each chunk at most once, no more than top_k.
Ranked(list) ==
    /\ list \in Seq(Chunk)
    /\ Len(list) <= TopK
    /\ \A m, n \in DOMAIN list : list[m] = list[n] => m = n

LEMMA RankingIsRanked ==
    ASSUME NEW S \in SUBSET Chunk, NEW list \in Ranking(S)
    PROVE  Ranked(list)
<1>1. PICK n \in 0..TopK :
          list \in {f \in [1..n -> S] : \A a, b \in 1..n : a # b => f[a] # f[b]}
    BY DEF Ranking
<1>2. n \in Nat /\ n <= TopK
    BY RetrievalAssumption
<1>3. list \in [1..n -> S] /\ \A a, b \in 1..n : a # b => list[a] # list[b]
    BY <1>1
<1>4. list \in Seq(Chunk) /\ Len(list) = n /\ DOMAIN list = 1..n
    BY <1>2, <1>3
<1> QED
    BY <1>2, <1>3, <1>4 DEF Ranked

LEMMA PlaceInRanking ==
    ASSUME NEW list, Ranked(list), NEW c \in Elems(list)
    PROVE  /\ Place(list, c) \in DOMAIN list
           /\ list[Place(list, c)] = c
           /\ Place(list, c) \in 1..TopK
           /\ Place(list, c) <= Len(list)
           /\ c \in Chunk
<1>1. \E n \in DOMAIN list : list[n] = c
    BY DEF Elems
<1>2. Place(list, c) \in DOMAIN list /\ list[Place(list, c)] = c
    BY <1>1 DEF Place
<1>3. DOMAIN list = 1..Len(list) /\ Len(list) \in Nat /\ Len(list) <= TopK /\ TopK \in Nat
    BY RetrievalAssumption DEF Ranked
<1> QED
    BY <1>2, <1>3 DEF Ranked

LEMMA ElemsAreFinite ==
    ASSUME NEW list, Ranked(list)
    PROVE  IsFiniteSet(Elems(list)) /\ Elems(list) \subseteq Chunk
<1> DEFINE f == [c \in Elems(list) |-> Place(list, c)]
<1>1. f \in [Elems(list) -> 1..TopK]
    BY PlaceInRanking
<1>2. \A c, d \in Elems(list) : f[c] = f[d] => c = d
    BY PlaceInRanking
<1>3. f \in Injection(Elems(list), 1..TopK)
    BY <1>1, <1>2 DEF Injection, IsInjective
<1>4. IsFiniteSet(1..TopK)
    BY RetrievalAssumption, FS_Interval
<1> QED
    BY <1>3, <1>4, FS_Injection, PlaceInRanking

\* An array from 1 to n is a list of that length.
LEMMA ArrayIsList ==
    ASSUME NEW S \in SUBSET Chunk, NEW n \in Nat, NEW list \in [1..n -> S]
    PROVE  list \in Seq(Chunk) /\ list \in Seq(S) /\ Len(list) = n /\ DOMAIN list = 1..n
OBVIOUS

(* Fusion *)

LEMMA ShareOfBetter ==
    ASSUME NEW list, Ranked(list), NEW c \in Elems(list), NEW d \in Elems(list),
           Place(list, c) <= Place(list, d)
    PROVE  Share(list, c) >= Share(list, d) /\ (c # d => Share(list, c) > Share(list, d))
<1>1. Place(list, c) \in 1..TopK /\ Place(list, d) \in 1..TopK
    BY PlaceInRanking
<1>2. c # d => Place(list, c) # Place(list, d)
    BY PlaceInRanking
<1>3. TopK \in Nat
    BY RetrievalAssumption
<1>4. Share(list, c) = Unit \div (60 + Place(list, c))
      /\ Share(list, d) = Unit \div (60 + Place(list, d))
    BY DEF Share
<1>5. CASE c = d
    BY <1>1, <1>4, <1>5, ShareIsPositive
<1>6. CASE c # d
  <2>1. Place(list, c) < Place(list, d)
      BY <1>1, <1>2, <1>3, <1>6
  <2>2. Share(list, d) < Share(list, c)
      BY <2>1, <1>1, <1>4, ShareFalls
  <2>3. Share(list, c) \in Nat /\ Share(list, d) \in Nat
      BY <1>1, <1>4, ShareIsPositive
  <2> QED
      BY <2>2, <2>3
<1> QED
    BY <1>5, <1>6

LEMMA ShareType ==
    ASSUME NEW list, Ranked(list), NEW c
    PROVE  /\ Share(list, c) \in Nat
           /\ c \in Elems(list) => Share(list, c) > 0
<1>1. CASE c \in Elems(list)
    BY <1>1, PlaceInRanking, ShareIsPositive DEF Share
<1>2. CASE c \notin Elems(list)
    BY <1>2 DEF Share
<1> QED
    BY <1>1, <1>2

\* What fusion finds can be sorted: no two documents were first seen at once.
LEMMA FoundIsSortable ==
    ASSUME Ranked(dense), Ranked(sparse)
    PROVE  Sortable(Found, RRF, FirstSeen) /\ Found \subseteq Chunk
<1>1. IsFiniteSet(WithId) /\ WithId \subseteq Elems(dense)
    BY ElemsAreFinite, FS_Subset DEF WithId
<1>2. IsFiniteSet(Found) /\ Found \subseteq Chunk
    BY <1>1, ElemsAreFinite, FS_Union DEF Found
<1>3. Len(dense) \in Nat
    BY DEF Ranked
<1>4. ASSUME NEW c \in WithId
      PROVE  /\ c \in Found
             /\ FirstSeen[c] = Place(dense, c)
             /\ FirstSeen[c] \in 1..Len(dense)
    BY <1>1, <1>3, PlaceInRanking DEF FirstSeen, Found
<1>5. ASSUME NEW c \in Found, c \notin WithId
      PROVE  /\ c \in Elems(sparse)
             /\ FirstSeen[c] = Len(dense) + Place(sparse, c)
             /\ Place(sparse, c) \in Nat \ {0}
    BY <1>5, PlaceInRanking, RetrievalAssumption DEF FirstSeen, Found
<1>6. ASSUME NEW c \in Found PROVE RRF[c] \in Int /\ FirstSeen[c] \in Int
  <2>1. RRF[c] \in Int
      BY <1>2, ShareType DEF RRF
  <2>2. FirstSeen[c] \in Int
      BY <1>3, <1>4, <1>5
  <2> QED
      BY <2>1, <2>2
<1>7. ASSUME NEW c \in Found, NEW d \in Found, FirstSeen[c] = FirstSeen[d]
      PROVE  c = d
  <2>1. CASE c \in WithId /\ d \in WithId
      BY <2>1, <1>1, <1>4, <1>7, PlaceInRanking
  <2>2. CASE c \notin WithId /\ d \notin WithId
    <3>1. Place(sparse, c) = Place(sparse, d)
        BY <2>2, <1>3, <1>5, <1>7
    <3> QED
        BY <3>1, <2>2, <1>5, PlaceInRanking
  <2>3. ASSUME NEW x \in WithId, NEW y \in Found, y \notin WithId
        PROVE  FirstSeen[x] # FirstSeen[y]
      BY <2>3, <1>3, <1>4, <1>5
  <2> QED
      BY <2>1, <2>2, <2>3, <1>7
<1> QED
    BY <1>2, <1>6, <1>7 DEF Sortable

\* A document that both lists rank higher has the larger sum.
LEMMA NoWorseHasMore ==
    ASSUME Ranked(dense), Ranked(sparse),
           NEW c \in Found, NEW d \in Found, c # d, NoWorse(c, d)
    PROVE  RRF[c] > RRF[d]
<1> DEFINE D(x) == IF x \in WithId THEN Share(dense, x) ELSE 0
<1>1. c \in Chunk /\ d \in Chunk
    BY FoundIsSortable
<1>2. RRF[c] = D(c) + Share(sparse, c) /\ RRF[d] = D(d) + Share(sparse, d)
    BY <1>1 DEF RRF
<1>3. /\ D(c) \in Nat /\ D(d) \in Nat
      /\ Share(sparse, c) \in Nat /\ Share(sparse, d) \in Nat
    BY ShareType
<1>4. WithId \subseteq Elems(dense)
    BY DEF WithId
<1>5. D(c) >= D(d) /\ (d \in WithId => D(c) > D(d))
    BY <1>3, <1>4, ShareOfBetter DEF NoWorse
<1>6. /\ Share(sparse, c) >= Share(sparse, d)
      /\ d \in Elems(sparse) => Share(sparse, c) > Share(sparse, d)
  <2>1. CASE d \in Elems(sparse)
      BY <2>1, ShareOfBetter DEF NoWorse
  <2>2. CASE d \notin Elems(sparse)
      BY <2>2, <1>3 DEF Share
  <2> QED
      BY <2>1, <2>2
<1>7. d \in WithId \/ d \in Elems(sparse)
    BY DEF Found
<1> HIDE DEF D
<1> QED
    BY <1>2, <1>3, <1>5, <1>6, <1>7

LEMMA FusedAgrees ==
    ASSUME Ranked(dense), Ranked(sparse)
    PROVE  /\ Fused \in Seq(Chunk)
           /\ Elems(Fused) = Found
           /\ Cardinality(Found) = Len(Fused)
           /\ \A m, n \in DOMAIN Fused : m < n => ~NoWorse(Fused[n], Fused[m])
<1> DEFINE N == Cardinality(Found)
<1>1. Sortable(Found, RRF, FirstSeen) /\ Found \subseteq Chunk
    BY FoundIsSortable
<1>2. /\ Fused \in [1..N -> Found]
      /\ N \in Nat
      /\ Elems(Fused) = Found
      /\ \A m, n \in 1..N :
            m < n => Fused[m] \in Ahead(Found, RRF, FirstSeen, Fused[n])
    BY <1>1, DescendingSorts DEF Fused
<1>3. Fused \in Seq(Chunk) /\ Len(Fused) = N /\ DOMAIN Fused = 1..N
    BY <1>1, <1>2, ArrayIsList
<1>4. ASSUME NEW m \in 1..N, NEW n \in 1..N, m < n, NoWorse(Fused[n], Fused[m])
      PROVE  FALSE
  <2>1. Fused[m] \in Ahead(Found, RRF, FirstSeen, Fused[n])
        /\ Fused[m] \in Found /\ Fused[n] \in Found
      BY <1>2, <1>4
  <2>2. /\ RRF[Fused[m]] \in Int /\ RRF[Fused[n]] \in Int
        /\ FirstSeen[Fused[m]] \in Int /\ FirstSeen[Fused[n]] \in Int
      BY <1>1, <2>1 DEF Sortable
  <2>3. RRF[Fused[m]] >= RRF[Fused[n]] /\ Fused[m] # Fused[n]
      BY <2>1, <2>2 DEF Ahead
  <2>4. RRF[Fused[n]] > RRF[Fused[m]]
      BY <1>4, <2>1, <2>3, NoWorseHasMore
  <2> QED
      BY <2>2, <2>3, <2>4
<1> QED
    BY <1>2, <1>3, <1>4

(* Reranking *)

\* The first of the reranked documents has the highest score of all.
LEMMA BestIsFirst ==
    ASSUME NEW list \in Seq(Chunk), IsFiniteSet(Elems(list)),
           Cardinality(Elems(list)) = Len(list),
           NEW key, \A c \in Elems(list) : key[c] \in Int
    PROVE  /\ Best(list, key) \in Seq(Chunk)
           /\ Elems(list) = {} => Best(list, key) = << >>
           /\ Elems(list) # {} =>
                 /\ Len(Best(list, key)) \in 1..TopK
                 /\ Best(list, key)[1] \in Elems(list)
                 /\ \A c \in Elems(list) : key[Best(list, key)[1]] >= key[c]
<1> DEFINE E == Elems(list)
           N == Len(list)
           place == [c \in E |-> Place(list, c)]
           sorted == Descending(E, key, place)
           M == IF N < TopK THEN N ELSE TopK
<1>1. N \in Nat /\ DOMAIN list = 1..N /\ TopK \in Nat \ {0} /\ M \in 0..N /\ M <= TopK
    BY RetrievalAssumption
<1>2. ASSUME NEW c \in E
      PROVE  Place(list, c) \in DOMAIN list /\ list[Place(list, c)] = c /\ c \in Chunk
  <2>1. \E n \in DOMAIN list : list[n] = c
      BY DEF Elems
  <2> QED
      BY <2>1 DEF Place
<1>3. Sortable(E, key, place)
    BY <1>1, <1>2 DEF Sortable
<1>4. /\ sorted \in [1..N -> E]
      /\ Elems(sorted) = E
      /\ \A m, n \in 1..N : m < n => sorted[m] \in Ahead(E, key, place, sorted[n])
    BY <1>3, DescendingSorts
<1>5. E \subseteq Chunk
    BY <1>2
<1>6. sorted \in Seq(Chunk) /\ Len(sorted) = N /\ DOMAIN sorted = 1..N
    BY <1>1, <1>4, <1>5, ArrayIsList
<1>7. Best(list, key) = SubSeq(sorted, 1, M)
    BY DEF Best
<1> HIDE DEF sorted, M, place
<1>8. /\ SubSeq(sorted, 1, M) \in Seq(Chunk)
      /\ Len(SubSeq(sorted, 1, M)) = M
      /\ M > 0 => SubSeq(sorted, 1, M)[1] = sorted[1]
    BY <1>1, <1>6
<1>9. E = {} <=> N = 0
    BY FS_EmptySet
<1>10. CASE E = {}
  <2>1. M = 0
      BY <1>1, <1>9, <1>10
  <2> QED
      BY <2>1, <1>7, <1>8, <1>10
<1>11. CASE E # {}
  <2>1. N > 0 /\ 1 \in 1..N
      BY <1>1, <1>9, <1>11
  <2>2. M \in 1..TopK
      BY <2>1, <1>1 DEF M
  <2>3. sorted[1] \in E
      BY <2>1, <1>4
  <2>4. ASSUME NEW c \in E PROVE key[sorted[1]] >= key[c]
    <3>1. PICK n \in 1..N : sorted[n] = c
        BY <1>4, <1>6 DEF Elems
    <3>2. key[sorted[1]] \in Int /\ key[c] \in Int
        BY <2>3
    <3>3. CASE n = 1
        BY <3>1, <3>2, <3>3
    <3>4. CASE n # 1
      <4>1. sorted[1] \in Ahead(E, key, place, c)
          BY <2>1, <3>1, <3>4, <1>1, <1>4
      <4> QED
          BY <4>1, <3>2 DEF Ahead
    <3> QED
        BY <3>3, <3>4
  <2> QED
      BY <2>2, <2>3, <2>4, <1>7, <1>8, <1>11
<1> QED
    BY <1>10, <1>11

---------------------------------------------------------------------------
(* The run *)

\* The two searches return rankings.
Searches == Ranked(dense) /\ Ranked(sparse)

\* After reranking the first document scores as high as any that was found.
FirstIsBest ==
    stage = "generate_answer" =>
        /\ Found = {} => docs = << >>
        /\ Found # {} =>
              /\ Len(docs) \in 1..TopK
              /\ docs[1] \in Found
              /\ \A c \in Found : score[docs[1]] >= score[c]

RetrievalInv ==
    RetrievalTypeOK /\ Searches /\ FusionAgrees /\ FirstIsBest /\ VerdictSeesAll

LEMMA InitRetrievalInv == RetrievalInit => RetrievalInv
<1> SUFFICES ASSUME RetrievalInit PROVE RetrievalInv
    OBVIOUS
<1>1. Ranked(<< >>)
    BY RetrievalAssumption DEF Ranked
<1>2. Searches
    BY <1>1 DEF RetrievalInit, Searches
<1>3. RetrievalTypeOK
    BY DEF RetrievalInit, RetrievalTypeOK, Result
<1> QED
    BY <1>2, <1>3 DEF RetrievalInit, RetrievalInv, FusionAgrees, FirstIsBest, VerdictSeesAll

LEMMA SearchStep ==
    ASSUME RetrievalInv, Raise \/ RewriteQuery \/ SimilaritySearch \/ KeywordSearch
    PROVE  RetrievalInv'
<1>1. Searched \in SUBSET Chunk
    BY RetrievalAssumption DEF Searched
<1>2. Searches'
    BY <1>1, RankingIsRanked
    DEF RetrievalInv, Searches, Raise, RewriteQuery, SimilaritySearch, KeywordSearch
<1>3. RetrievalTypeOK'
    BY <1>2 DEF RetrievalInv, RetrievalTypeOK, Searches, Ranked,
                Raise, RewriteQuery, SimilaritySearch, KeywordSearch
<1>4. stage' \notin {"rerank", "generate_answer", "end"}
    BY DEF Raise, RewriteQuery, SimilaritySearch, KeywordSearch
<1> QED
    BY <1>2, <1>3, <1>4 DEF RetrievalInv, FusionAgrees, FirstIsBest, VerdictSeesAll

LEMMA FusionStep ==
    ASSUME RetrievalInv, Fusion
    PROVE  RetrievalInv'
<1>1. stage' = "rerank" /\ docs' = Fused
      /\ UNCHANGED <<api, config, dense, sparse, score, result>>
    BY DEF Fusion
<1>2. /\ Fused \in Seq(Chunk)
      /\ Elems(Fused) = Found
      /\ Cardinality(Found) = Len(Fused)
      /\ \A m, n \in DOMAIN Fused : m < n => ~NoWorse(Fused[n], Fused[m])
    BY FusedAgrees DEF RetrievalInv, Searches
<1>3. Found' = Found /\ \A c, d : NoWorse(c, d)' = NoWorse(c, d)
    BY <1>1 DEF Found, WithId, NoWorse
<1>4. FusionAgrees'
    BY <1>1, <1>2, <1>3 DEF FusionAgrees
<1>5. RetrievalTypeOK' /\ Searches'
    BY <1>1, <1>2 DEF RetrievalInv, RetrievalTypeOK, Searches
<1> QED
    BY <1>1, <1>4, <1>5 DEF RetrievalInv, FirstIsBest, VerdictSeesAll

LEMMA RerankStep ==
    ASSUME RetrievalInv, Rerank
    PROVE  RetrievalInv'
<1>1. PICK f \in [Elems(docs) -> Score] :
          /\ score' = [c \in Chunk |-> IF c \in Elems(docs) THEN f[c] ELSE score[c]]
          /\ docs' = Best(docs, f)
    BY DEF Rerank
<1>2. stage = "rerank" /\ stage' = "generate_answer"
      /\ UNCHANGED <<api, config, dense, sparse, result>>
    BY DEF Rerank
<1>3. docs \in Seq(Chunk) /\ Elems(docs) = Found /\ Cardinality(Found) = Len(docs)
    BY <1>2 DEF RetrievalInv, RetrievalTypeOK, FusionAgrees
<1>4. IsFiniteSet(Found) /\ Found \subseteq Chunk
    BY FoundIsSortable DEF RetrievalInv, Searches, Sortable
<1>5. \A c \in Found : f[c] \in Int /\ f[c] \in Score /\ score'[c] = f[c]
    BY <1>1, <1>3, <1>4, RetrievalAssumption
<1>6. /\ docs' \in Seq(Chunk)
      /\ Found = {} => docs' = << >>
      /\ Found # {} =>
            /\ Len(docs') \in 1..TopK
            /\ docs'[1] \in Found
            /\ \A c \in Found : f[docs'[1]] >= f[c]
    BY <1>1, <1>3, <1>4, <1>5, BestIsFirst
<1>7. Found' = Found
    BY <1>2 DEF Found, WithId
<1>8. FirstIsBest'
    BY <1>5, <1>6, <1>7 DEF FirstIsBest
<1>9. score' \in [Chunk -> Score \cup {Threshold}]
    BY <1>1 DEF RetrievalInv, RetrievalTypeOK
<1>10. RetrievalTypeOK' /\ Searches'
    BY <1>2, <1>6, <1>9 DEF RetrievalInv, RetrievalTypeOK, Searches
<1> QED
    BY <1>2, <1>8, <1>10 DEF RetrievalInv, FusionAgrees, VerdictSeesAll

LEMMA AnswerStep ==
    ASSUME RetrievalInv, GenerateAnswer
    PROVE  RetrievalInv'
<1>1. stage = "generate_answer" /\ stage' = "end"
      /\ UNCHANGED <<api, config, dense, sparse, docs, score>>
    BY DEF GenerateAnswer
<1>2. Found' = Found
    BY <1>1 DEF Found, WithId
<1>3. docs \in Seq(Chunk)
    BY DEF RetrievalInv, RetrievalTypeOK
<1>4. \A c \in Chunk : score[c] \in Int
    BY RetrievalAssumption DEF RetrievalInv, RetrievalTypeOK
<1>5. Found \subseteq Chunk
    BY FoundIsSortable DEF RetrievalInv, Searches
<1>6. /\ Found = {} => docs = << >>
      /\ Found # {} =>
            /\ Len(docs) \in 1..TopK
            /\ docs[1] \in Found
            /\ \A c \in Found : score[docs[1]] >= score[c]
    BY <1>1 DEF RetrievalInv, FirstIsBest
<1>7. CASE Below
  <2>1. result' = [kind |-> "below_threshold", cited |-> <<>>, insufficient_coverage |-> TRUE]
      BY <1>7 DEF GenerateAnswer
  <2>2. result' \in Result /\ result'.kind = "below_threshold"
      BY <2>1 DEF Result
  <2>3. \A c \in Found : score[c] < Threshold
      BY <1>4, <1>5, <1>6, <1>7, RetrievalAssumption DEF Below
  <2> QED
      BY <1>1, <1>2, <2>2, <2>3
      DEF RetrievalInv, RetrievalTypeOK, Searches, FusionAgrees, FirstIsBest, VerdictSeesAll
<1>8. CASE ~Below
  <2>1. PICK phrase \in BOOLEAN :
            result' = [kind |-> "answer", cited |-> docs, insufficient_coverage |-> phrase]
      BY <1>8 DEF GenerateAnswer
  <2>2. result' \in Result /\ result'.kind = "answer" /\ result'.cited = docs
      BY <1>3, <2>1 DEF Result
  <2> QED
      BY <1>1, <1>2, <1>6, <2>2
      DEF RetrievalInv, RetrievalTypeOK, Searches, FusionAgrees, FirstIsBest, VerdictSeesAll
<1> QED
    BY <1>7, <1>8

LEMMA NextRetrievalInv == RetrievalInv /\ [RetrievalNext]_retrievalVars => RetrievalInv'
<1> SUFFICES ASSUME RetrievalInv, [RetrievalNext]_retrievalVars PROVE RetrievalInv'
    OBVIOUS
<1>1. CASE UNCHANGED retrievalVars
    BY <1>1 DEF retrievalVars, RetrievalInv, RetrievalTypeOK, Searches, FusionAgrees,
                FirstIsBest, VerdictSeesAll, Found, WithId, NoWorse
<1>2. CASE RetrievalNext
    BY <1>2, SearchStep, FusionStep, RerankStep, AnswerStep DEF RetrievalNext
<1> QED
    BY <1>1, <1>2

\* Every variable of a retrieval call keeps its type, and each node leaves
\* behind all that later nodes rely on (retrieval_agent/graph.py).
THEOREM RetrievalInvariant == RetrievalSpec => []RetrievalInv
<1>1. RetrievalInv /\ [RetrievalNext]_retrievalVars => RetrievalInv'
    BY NextRetrievalInv
<1> QED
    BY <1>1, InitRetrievalInv, PTL DEF RetrievalSpec

\* Fusion (pgvector_client.py) keeps every document with an id, once, and never
\* puts one before another that both searches rank higher.
THEOREM FusionKeepsAgreement == RetrievalSpec => []FusionAgrees
<1>1. RetrievalInv => FusionAgrees
    BY DEF RetrievalInv
<1> QED
    BY <1>1, RetrievalInvariant, PTL

\* The verdict of generate_answer is one on all that was found.
THEOREM VerdictIsOnAll == RetrievalSpec => []VerdictSeesAll
<1>1. RetrievalInv => VerdictSeesAll
    BY DEF RetrievalInv
<1> QED
    BY <1>1, RetrievalInvariant, PTL
===========================================================================
