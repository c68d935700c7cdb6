------------------------ MODULE Orchestrator_proofs ------------------------
(***************************************************************************)
(* Proofs about Orchestrator, for any number of runs on a thread, any      *)
(* calls that an LLM makes, any number of messages that pruning keeps and  *)
(* any recursion limit: what pruning and execute_tools leave in a history, *)
(* what the LLM is asked with, and what guardrail_check lets through.      *)
(* Then about CustomerFacts, for any number of facts: what is lost of      *)
(* them, and that the graph with its memory is a graph and a memory.       *)
(***************************************************************************)
EXTENDS CustomerFacts, SequenceTheorems, WellFoundedInduction, TLAPS

---------------------------------------------------------------------------
(* Where a history is cut *)

\* A set of numbers up to n has a largest one.
LEMMA Largest ==
    ASSUME NEW n \in Nat, NEW S, S \subseteq 0 .. n, S # {}
    PROVE  \E d \in S : \A e \in S : e <= d
<1> DEFINE T == {n - d : d \in S}
<1>0. \A d \in S : n - d \in Nat /\ n - d \in T
    OBVIOUS
<1>1. T \subseteq Nat /\ T # {}
    BY <1>0
<1>2. PICK x \in T : \A y \in T : <<y, x>> \notin OpToRel(<, Nat)
    <2> HIDE DEF T
    <2> QED
        BY <1>1, NatLessThanWellFounded, WFMin
<1>3. \A y \in T : x <= y
    <2> SUFFICES ASSUME NEW y \in T PROVE x <= y
        OBVIOUS
    <2>1. x \in Nat /\ y \in Nat
        BY <1>1
    <2>2. ~(y < x)
        BY <1>2, <2>1, Zenon DEF OpToRel
    <2> QED
        BY <2>1, <2>2
<1>4. PICK d \in S : x = n - d
    OBVIOUS
<1>5. ASSUME NEW e \in S PROVE e <= d
    <2>1. n - e \in T
        OBVIOUS
    <2> QED
        BY <1>3, <1>4, <2>1
<1> QED
    BY <1>4, <1>5

LEMMA LongestCalls ==
    /\ Longest \in Nat
    /\ \A list \in CallLists : list # <<>> /\ list \in Seq(Tool) /\ Len(list) \in 1 .. Longest
<1>1. PICK longest \in CallLists : \A other \in CallLists : Len(other) <= Len(longest)
    BY LongestAssumption
<1>2. \A list \in CallLists : list \in Seq(Tool) /\ list # <<>> /\ Len(list) \in Nat \ {0}
    BY CallListsAssumption, EmptySeq
<1>3. \E n \in {Len(list) : list \in CallLists} : \A list \in CallLists : Len(list) <= n
    BY <1>1
<1>4. Longest \in {Len(list) : list \in CallLists} /\ \A list \in CallLists : Len(list) <= Longest
    BY <1>3 DEF Longest
<1> QED
    BY <1>2, <1>4

\* Pruning cuts in front of a message that is no answer, as late as it can with
\* MAX_MESSAGES left.
LEMMA Cut ==
    ASSUME NEW S, NEW h \in Seq(S)
    PROVE  /\ Boundary(h) \in 0 .. Len(h)
           /\ Len(h) <= MAX_MESSAGES => Boundary(h) = 0
           /\ Boundary(h) # 0 => h[Boundary(h) + 1].kind # "tool"
           /\ Len(h) > MAX_MESSAGES =>
                /\ Boundary(h) <= Len(h) - MAX_MESSAGES
                /\ \A e \in 0 .. (Len(h) - MAX_MESSAGES) :
                      e = 0 \/ h[e + 1].kind # "tool" => e <= Boundary(h)
<1>1. Len(h) \in Nat /\ MAX_MESSAGES \in Nat /\ MAX_MESSAGES > 0
    BY LenProperties, BoundsAssumption
<1>2. CASE Len(h) <= MAX_MESSAGES
    BY <1>1, <1>2 DEF Boundary
<1>3. CASE Len(h) > MAX_MESSAGES
    <2>1. PICK cuts : cuts = {d \in 0 .. (Len(h) - MAX_MESSAGES) : d = 0 \/ h[d + 1].kind # "tool"}
        OBVIOUS
    <2>2. Len(h) - MAX_MESSAGES \in Nat /\ cuts \subseteq 0 .. (Len(h) - MAX_MESSAGES) /\ 0 \in cuts
        BY <1>1, <1>3, <2>1
    <2>3. \E d \in cuts : \A e \in cuts : e <= d
        BY <2>2, Largest
    <2>4. Boundary(h) = CHOOSE d \in cuts : \A e \in cuts : e <= d
        BY <1>1, <1>3, <2>1, SMTT(60) DEF Boundary
    <2>5. Boundary(h) \in cuts /\ \A e \in cuts : e <= Boundary(h)
        BY <2>3, <2>4
    <2> QED
        BY <1>1, <1>3, <2>1, <2>5
<1> QED
    BY <1>1, <1>2, <1>3

\* What pruning keeps.
LEMMA Kept ==
    ASSUME NEW S, NEW h \in Seq(S)
    PROVE  /\ Pruned(h) \in Seq(S)
           /\ Len(Pruned(h)) = Len(h) - Boundary(h)
           /\ \A i \in 1 .. Len(Pruned(h)) : Pruned(h)[i] = h[i + Boundary(h)]
<1>1. PICK d : d = Boundary(h)
    OBVIOUS
<1>2. d \in 0 .. Len(h) /\ Len(h) \in Nat
    BY <1>1, Cut, LenProperties
<1>3. \A i \in (d + 1) .. Len(h) : h[i] \in S
    BY <1>2, ElementOfSeq
<1>4. Pruned(h) = SubSeq(h, d + 1, Len(h))
    BY <1>1 DEF Pruned
<1>5. /\ Pruned(h) \in Seq(S)
      /\ Len(Pruned(h)) = IF d + 1 <= Len(h) THEN Len(h) - (d + 1) + 1 ELSE 0
      /\ \A i \in 1 .. Len(h) - (d + 1) + 1 : Pruned(h)[i] = h[(d + 1) + i - 1]
    BY <1>2, <1>3, <1>4, SubSeqProperties
<1> QED
    BY <1>1, <1>2, <1>5
---------------------------------------------------------------------------
(* Types *)

\* The run whose next node is guardrail_check or execute_tools ends with a call
\* message of its own, and execute_tools runs the calls of that message.
Calling ==
    \A r \in Run : node[r] \in {"guardrail_check", "execute_tools"} =>
        \E list \in CallLists :
            /\ messages[r] # <<>> /\ rounds[r] >= 1
            /\ Last(r) = AI(r, rounds[r], list)
            /\ node[r] = "execute_tools" => DOMAIN outcome[r] = DOMAIN list /\ list[1] # "risky"

LEMMA Constructors ==
    ASSUME NEW r \in Run, NEW k \in 0 .. (MaxRounds + 1)
    PROVE  /\ Human(r) \in Message
           /\ \A list \in CallLists \cup {<<>>} : AI(r, k, list) \in Message
           /\ \A j \in 1 .. Longest : Answer(r, k, j) \in Message
BY LongestCalls, BoundsAssumption DEF Human, AI, Answer, Message

\* A message is appended.
LEMMA Appended ==
    ASSUME NEW h \in Seq(Message), NEW m \in Message
    PROVE  /\ Append(h, m) \in Seq(Message) /\ Append(h, m) # <<>>
           /\ Len(h) \in Nat /\ Len(Append(h, m)) = Len(h) + 1
           /\ \A i \in 1 .. Len(h) : Append(h, m)[i] = h[i]
           /\ Append(h, m)[Len(h) + 1] = m
BY AppendProperties, LenProperties

\* The history with the answers of all n calls of round k appended.
Answered(h, r, k, n) == h \o [j \in 1 .. n |-> Answer(r, k, j)]

LEMMA AnswersAppended ==
    ASSUME NEW h \in Seq(Message), NEW n \in 0 .. Longest, NEW r \in Run, NEW k \in 0 .. (MaxRounds + 1),
           NEW g, g = Answered(h, r, k, n)
    PROVE  /\ g \in Seq(Message)
           /\ Len(h) \in Nat /\ Len(g) = Len(h) + n
           /\ \A i \in 1 .. Len(h) : g[i] = h[i]
           /\ \A j \in 1 .. n : g[Len(h) + j] = Answer(r, k, j)
<1>1. n \in Nat /\ Longest \in Nat
    BY LongestCalls
<1>2. PICK a : a = [j \in 1 .. n |-> Answer(r, k, j)]
    OBVIOUS
<1>3. \A j \in 1 .. n : Answer(r, k, j) \in Message
    BY <1>1, Constructors
<1>4. a \in Seq(Message) /\ Len(a) = n
    <2>1. a \in [1 .. n -> Message]
        BY <1>2, <1>3
    <2>2. a \in Seq(Message)
        <3>1. a \in UNION {[1 .. m -> Message] : m \in Nat}
            BY <1>1, <2>1
        <3> QED
            BY <3>1, SeqDef, Zenon
    <2>3. 1 .. n = 1 .. Len(a) /\ Len(a) \in Nat
        BY <2>1, <2>2, LenProperties
    <2> QED
        BY <1>1, <2>2, <2>3
<1>5. g = h \o a
    BY <1>1, <1>2 DEF Answered
<1>6. /\ g \in Seq(Message) /\ Len(g) = Len(h) + Len(a)
      /\ \A i \in 1 .. Len(h) + Len(a) : g[i] = IF i <= Len(h) THEN h[i] ELSE a[i - Len(h)]
    <2>1. a \in Seq(Message)
        BY <1>4
    <2> QED
        BY <1>5, <2>1, ConcatProperties, ZenonT(60)
<1>7. Len(h) \in Nat
    BY LenProperties
<1>8. \A i \in 1 .. Len(h) : g[i] = h[i]
    BY <1>1, <1>4, <1>6, <1>7
<1>9. ASSUME NEW j \in 1 .. n PROVE g[Len(h) + j] = Answer(r, k, j)
    <2>1. Len(h) + j \in 1 .. Len(h) + Len(a) /\ ~(Len(h) + j <= Len(h)) /\ (Len(h) + j) - Len(h) = j
        BY <1>1, <1>4, <1>7
    <2>2. g[Len(h) + j] = a[j]
        BY <1>6, <2>1
    <2> QED
        BY <1>2, <2>2
<1> QED
    BY <1>4, <1>6, <1>7, <1>8, <1>9

\* A node has returned.
LEMMA ProceedTypes ==
    ASSUME TypeOK, NEW r \in Run, NEW history \in Seq(Message), NEW next \in Nodes \cup {"done"},
           Proceed(r, history, next)
    PROVE  /\ messages' \in [Run -> Seq(Message)] /\ checkpoint' \in Seq(Message)
           /\ node' \in [Run -> Nodes \cup Failed \cup {"new", "done"}]
           /\ messages'[r] = history /\ checkpoint' = history /\ node'[r] = next
           /\ \A a \in Run \ {r} : messages'[a] = messages[a] /\ node'[a] = node[a]
BY DEF Proceed, TypeOK

\* The other runs stand where they stood.
LEMMA OthersCalling ==
    ASSUME Calling, NEW r \in Run,
           \A a \in Run \ {r} : /\ messages'[a] = messages[a] /\ node'[a] = node[a]
                                /\ rounds'[a] = rounds[a] /\ outcome'[a] = outcome[a],
           node'[r] \notin {"guardrail_check", "execute_tools"}
    PROVE  Calling'
BY DEF Calling, Last

LEMMA InitTypes == Init => TypeOK /\ Calling
BY BoundsAssumption, EmptySeq DEF Init, TypeOK, Calling

\* A run that stops without an answer.
LEMMA StopTypes ==
    ASSUME TypeOK, Calling, NEW r \in Run, NEW how \in Failed, node' = [node EXCEPT ![r] = how],
           UNCHANGED <<messages, checkpoint, rounds, outcome, performed, cut>>
    PROVE  TypeOK' /\ Calling'
<1>1. node'[r] = how /\ \A a \in Run \ {r} : node'[a] = node[a]
    BY DEF TypeOK
<1>2. how \notin {"guardrail_check", "execute_tools"}
    BY DEF Failed
<1> QED
    BY <1>1, <1>2, OthersCalling DEF TypeOK

LEMMA NextTypes == TypeOK /\ Calling /\ [Next]_vars => TypeOK' /\ Calling'
<1> SUFFICES ASSUME TypeOK, Calling, [Next]_vars PROVE TypeOK' /\ Calling'
    OBVIOUS
<1>a. {"load_memory", "prune_messages", "orchestrator_agent", "guardrail_check", "execute_tools",
       "synthesise", "save_memory"} = Nodes
    BY DEF Nodes
<1>b. MaxRounds \in Nat /\ \A r \in Run : rounds[r] \in 0 .. MaxRounds /\ messages[r] \in Seq(Message)
    BY BoundsAssumption DEF TypeOK
<1>0. ASSUME NEW r \in Run, NEW history \in Seq(Message), NEW next \in Nodes \cup {"done"},
             next \notin {"guardrail_check", "execute_tools"}, Proceed(r, history, next),
             rounds' \in [Run -> 0 .. MaxRounds], \A a \in Run \ {r} : rounds'[a] = rounds[a],
             outcome' \in [Run -> Seq({"running", "answered", "raised", "interrupted"})],
             \A a \in Run \ {r} : outcome'[a] = outcome[a], performed' = performed, cut' \subseteq Run
      PROVE  TypeOK' /\ Calling'
    <2>1. /\ messages' \in [Run -> Seq(Message)] /\ checkpoint' \in Seq(Message)
          /\ node' \in [Run -> Nodes \cup Failed \cup {"new", "done"}]
          /\ node'[r] = next
          /\ \A a \in Run \ {r} : messages'[a] = messages[a] /\ node'[a] = node[a]
        BY <1>0, ProceedTypes
    <2>2. Calling'
        BY <1>0, <2>1, OthersCalling
    <2> QED
        BY <1>0, <2>1, <2>2 DEF TypeOK
<1>1. ASSUME NEW r \in Run, Start(r) PROVE TypeOK' /\ Calling'
    <2>1. PICK h : h = Append(checkpoint, Human(r))
        OBVIOUS
    <2>2. h \in Seq(Message)
        <3>1. Human(r) \in Message
            BY <1>b, Constructors
        <3> QED
            BY <2>1, <3>1, Appended DEF TypeOK
    <2>3. cut' \subseteq Run
        BY <1>1 DEF Start, TypeOK
    <2>4. Proceed(r, h, "load_memory") /\ UNCHANGED <<rounds, outcome, performed>>
        BY <1>1, <2>1 DEF Start
    <2> QED
        BY <1>0, <1>a, <2>2, <2>3, <2>4 DEF TypeOK
<1>2. ASSUME NEW r \in Run, LoadMemory(r) \/ SaveMemory(r) PROVE TypeOK' /\ Calling'
    BY <1>0, <1>2, <1>a, <1>b DEF LoadMemory, SaveMemory, TypeOK
<1>3. ASSUME NEW r \in Run, PruneMessages(r) PROVE TypeOK' /\ Calling'
    <2>1. PICK h : h = Pruned(messages[r])
        OBVIOUS
    <2>2. h \in Seq(Message)
        BY <1>b, <2>1, Kept
    <2>3. Proceed(r, h, "orchestrator_agent") /\ UNCHANGED <<rounds, outcome, performed, cut>>
        BY <1>3, <2>1 DEF PruneMessages
    <2> QED
        BY <1>0, <1>a, <2>2, <2>3 DEF TypeOK
<1>4. ASSUME NEW r \in Run, OrchestratorAgent(r) PROVE TypeOK' /\ Calling'
    <2>1. PICK list \in CallLists \cup {<<>>} :
              Proceed(r, Append(messages[r], AI(r, rounds[r] + 1, list)),
                      IF list = <<>> THEN "synthesise" ELSE "guardrail_check")
        BY <1>4 DEF OrchestratorAgent
    <2>2. /\ rounds'[r] = rounds[r] + 1 /\ rounds' \in [Run -> 0 .. MaxRounds]
          /\ \A a \in Run \ {r} : rounds'[a] = rounds[a]
          /\ UNCHANGED <<outcome, performed, cut>> /\ rounds[r] + 1 \in 1 .. MaxRounds
        BY <1>4, <1>b DEF OrchestratorAgent, TypeOK
    <2>3. PICK m : m = AI(r, rounds[r] + 1, list)
        OBVIOUS
    <2>4. m \in Message
        BY <1>b, <2>2, <2>3, Constructors
    <2>5. PICK h : h = Append(messages[r], m)
        OBVIOUS
    <2>6. h \in Seq(Message) /\ h # <<>> /\ h[Len(h)] = m
        BY <1>b, <2>4, <2>5, Appended
    <2>7. CASE list = <<>>
        <3>1. Proceed(r, h, "synthesise")
            BY <2>1, <2>3, <2>5, <2>7
        <3> QED
            BY <1>0, <1>a, <2>2, <2>6, <3>1 DEF TypeOK
    <2>8. CASE list # <<>>
        <3>1. list \in CallLists /\ Proceed(r, h, "guardrail_check")
            BY <2>1, <2>3, <2>5, <2>8
        <3>2. /\ messages' \in [Run -> Seq(Message)] /\ checkpoint' \in Seq(Message)
              /\ node' \in [Run -> Nodes \cup Failed \cup {"new", "done"}]
              /\ messages'[r] = h /\ node'[r] = "guardrail_check"
              /\ \A a \in Run \ {r} : messages'[a] = messages[a] /\ node'[a] = node[a]
            BY <1>a, <2>6, <3>1, ProceedTypes
        <3>3. Calling'
            <4> SUFFICES ASSUME NEW a \in Run, node'[a] \in {"guardrail_check", "execute_tools"}
                         PROVE  \E l \in CallLists :
                                    /\ messages'[a] # <<>> /\ rounds'[a] >= 1
                                    /\ messages'[a][Len(messages'[a])] = AI(a, rounds'[a], l)
                                    /\ node'[a] = "execute_tools" => DOMAIN outcome'[a] = DOMAIN l /\ l[1] # "risky"
                BY DEF Calling, Last
            <4>1. CASE a = r
                BY <2>2, <2>3, <2>6, <3>1, <3>2, <4>1
            <4>2. CASE a # r
                <5>1. /\ messages'[a] = messages[a] /\ node'[a] = node[a]
                      /\ rounds'[a] = rounds[a] /\ outcome'[a] = outcome[a]
                    BY <2>2, <3>2, <4>2
                <5> QED
                    BY <5>1 DEF Calling, Last
            <4> QED
                BY <4>1, <4>2
        <3> QED
            BY <2>2, <3>2, <3>3 DEF TypeOK
    <2> QED
        BY <2>7, <2>8
<1>5. ASSUME NEW r \in Run, GuardrailCheck(r) PROVE TypeOK' /\ Calling'
    <2>1. PICK list \in CallLists :
              /\ messages[r] # <<>> /\ rounds[r] >= 1 /\ Last(r) = AI(r, rounds[r], list)
        BY <1>5 DEF GuardrailCheck, Calling
    <2>2. Last(r).calls = list /\ list[1] # "risky"
        BY <1>5, <2>1 DEF GuardrailCheck, Intercepted, AI
    <2>3. PICK o : o = [j \in DOMAIN list |-> "running"]
        OBVIOUS
    <2>4. o \in Seq({"running", "answered", "raised", "interrupted"}) /\ DOMAIN o = DOMAIN list
        BY <2>3, LongestCalls
    <2>5. outcome' = [outcome EXCEPT ![r] = o] /\ UNCHANGED <<rounds, performed, cut>>
        BY <1>5, <2>2, <2>3 DEF GuardrailCheck
    <2>6. /\ messages' \in [Run -> Seq(Message)] /\ checkpoint' \in Seq(Message)
          /\ node' \in [Run -> Nodes \cup Failed \cup {"new", "done"}]
          /\ messages'[r] = messages[r] /\ node'[r] = "execute_tools"
          /\ \A a \in Run \ {r} : messages'[a] = messages[a] /\ node'[a] = node[a]
        BY <1>5, <1>a, <1>b, ProceedTypes DEF GuardrailCheck
    <2>7. /\ outcome' \in [Run -> Seq({"running", "answered", "raised", "interrupted"})]
          /\ outcome'[r] = o /\ \A a \in Run \ {r} : outcome'[a] = outcome[a]
        BY <2>4, <2>5 DEF TypeOK
    <2>8. Calling'
        <3> SUFFICES ASSUME NEW a \in Run, node'[a] \in {"guardrail_check", "execute_tools"}
                     PROVE  \E l \in CallLists :
                                /\ messages'[a] # <<>> /\ rounds'[a] >= 1
                                /\ messages'[a][Len(messages'[a])] = AI(a, rounds'[a], l)
                                /\ node'[a] = "execute_tools" => DOMAIN outcome'[a] = DOMAIN l /\ l[1] # "risky"
            BY DEF Calling, Last
        <3>1. CASE a = r
            BY <2>1, <2>2, <2>4, <2>5, <2>6, <2>7, <3>1 DEF Last
        <3>2. CASE a # r
            <4>1. /\ messages'[a] = messages[a] /\ node'[a] = node[a]
                  /\ rounds'[a] = rounds[a] /\ outcome'[a] = outcome[a]
                BY <2>5, <2>6, <2>7, <3>2
            <4> QED
                BY <4>1 DEF Calling, Last
        <3> QED
            BY <3>1, <3>2
    <2> QED
        BY <2>5, <2>6, <2>7, <2>8 DEF TypeOK
<1>6. ASSUME NEW r \in Run, GuardrailRaises(r) \/ RunRaises(r) \/ Crash(r) \/ ToolsStop(r)
      PROVE  TypeOK' /\ Calling'
    <2>1. /\ \E how \in Failed : node' = [node EXCEPT ![r] = how]
          /\ UNCHANGED <<messages, checkpoint, rounds, outcome, performed, cut>>
        BY <1>6 DEF GuardrailRaises, RunRaises, Crash, ToolsStop, Failed
    <2> QED
        BY <2>1, StopTypes
<1>7. ASSUME NEW r \in Run, NEW j \in DOMAIN outcome[r], NEW how \in {"answered", "raised", "interrupted"},
             ToolEnds(r, j, how)
      PROVE  TypeOK' /\ Calling'
    <2>1. PICK list \in CallLists :
              /\ messages[r] # <<>> /\ rounds[r] >= 1 /\ Last(r) = AI(r, rounds[r], list)
              /\ DOMAIN outcome[r] = DOMAIN list
        BY <1>7 DEF ToolEnds, Calling
    <2>2. /\ UNCHANGED <<messages, checkpoint, node, rounds, cut>>
          /\ outcome' = [outcome EXCEPT ![r] = [outcome[r] EXCEPT ![j] = how]]
        BY <1>7 DEF ToolEnds
    <2>3. PICK o : o = [outcome[r] EXCEPT ![j] = how]
        OBVIOUS
    <2>4. o \in Seq({"running", "answered", "raised", "interrupted"}) /\ DOMAIN o = DOMAIN outcome[r]
        BY <2>3 DEF TypeOK
    <2>5. /\ outcome' \in [Run -> Seq({"running", "answered", "raised", "interrupted"})]
          /\ outcome'[r] = o /\ \A a \in Run \ {r} : outcome'[a] = outcome[a]
        BY <2>2, <2>3, <2>4 DEF TypeOK
    <2>6. j \in 1 .. Longest /\ list[j] \in Tool /\ Last(r).calls = list
        BY <2>1, LongestCalls, ElementOfSeq, LenProperties DEF AI
    <2>7. performed' \subseteq [run : Run, round : 1 .. MaxRounds, call : 1 .. Longest, tool : Tool]
        <3>1. PICK c : c = [run |-> r, round |-> rounds[r], call |-> j, tool |-> list[j]]
            OBVIOUS
        <3>2. c \in [run : Run, round : 1 .. MaxRounds, call : 1 .. Longest, tool : Tool]
            BY <1>b, <2>1, <2>6, <3>1
        <3>3. performed' \in {performed, performed \cup {c}}
            BY <1>7, <2>6, <3>1 DEF ToolEnds
        <3> QED
            BY <3>2, <3>3 DEF TypeOK
    <2>8. Calling'
        BY <2>2, <2>4, <2>5 DEF Calling, Last
    <2> QED
        BY <2>2, <2>5, <2>7, <2>8 DEF TypeOK
<1>8. ASSUME NEW r \in Run, ExecuteTools(r) PROVE TypeOK' /\ Calling'
    <2>1. PICK list \in CallLists : DOMAIN outcome[r] = DOMAIN list
        BY <1>8 DEF ExecuteTools, Calling
    <2>2. PICK n : n = Len(list)
        OBVIOUS
    <2>3. DOMAIN outcome[r] = 1 .. n /\ n \in 1 .. Longest
        BY <2>1, <2>2, LongestCalls, LenProperties
    <2>4. PICK h : h = messages[r] \o [j \in DOMAIN outcome[r] |-> Answer(r, rounds[r], j)]
        OBVIOUS
    <2>5. rounds[r] \in 0 .. (MaxRounds + 1) /\ n \in 0 .. Longest
        BY <1>b, <2>3, LongestCalls
    <2>6. h \in Seq(Message)
        <3>1. PICK g, k : g = messages[r] /\ k = rounds[r]
            OBVIOUS
        <3>2. g \in Seq(Message) /\ k \in 0 .. (MaxRounds + 1) /\ n \in 0 .. Longest
            BY <1>b, <2>5, <3>1
        <3>3. h = Answered(g, r, k, n)
            BY <2>3, <2>4, <3>1 DEF Answered
        <3> QED
            BY <3>2, <3>3, AnswersAppended
    <2>7. /\ outcome' \in [Run -> Seq({"running", "answered", "raised", "interrupted"})]
          /\ \A a \in Run \ {r} : outcome'[a] = outcome[a]
        BY <1>8, EmptySeq DEF ExecuteTools, TypeOK
    <2>8. Proceed(r, h, "prune_messages") /\ UNCHANGED <<rounds, performed, cut>>
        BY <1>8, <2>4 DEF ExecuteTools
    <2> QED
        BY <1>0, <1>a, <2>6, <2>7, <2>8 DEF TypeOK
<1>9. ASSUME NEW r \in Run, Synthesise(r) PROVE TypeOK' /\ Calling'
    <2>1. AI(r, rounds[r] + 1, <<>>) \in Message
        BY <1>b, Constructors
    <2>2. PICK h : h = Append(messages[r], AI(r, rounds[r] + 1, <<>>))
        OBVIOUS
    <2>3. h \in Seq(Message)
        BY <1>b, <2>1, <2>2, Appended
    <2>4. Proceed(r, h, "save_memory") /\ UNCHANGED <<rounds, outcome, performed, cut>>
        BY <1>9, <2>2 DEF Synthesise
    <2> QED
        BY <1>0, <1>a, <2>3, <2>4 DEF TypeOK
<1>10. CASE UNCHANGED vars
    BY <1>10 DEF vars, TypeOK, Calling, Last
<1> QED
    BY <1>1, <1>2, <1>3, <1>4, <1>5, <1>6, <1>7, <1>8, <1>9, <1>10 DEF Next, Step

\* Every variable keeps its type: a run's history holds messages of the runs of its
\* thread, and the answers of a run are those of calls that its LLM has made.
THEOREM TypeCorrect == Spec => []TypeOK
<1> QED
    BY InitTypes, NextTypes, PTL DEF Spec
---------------------------------------------------------------------------
(* Risky actions *)

LEMMA NextRisky ==
    TypeOK /\ Calling /\ RiskyOnlyBehindAnother /\ [Next]_vars => RiskyOnlyBehindAnother'
<1> SUFFICES ASSUME TypeOK, Calling, RiskyOnlyBehindAnother, [Next]_vars PROVE RiskyOnlyBehindAnother'
    OBVIOUS
<1>1. ASSUME NEW r \in Run, NEW j \in DOMAIN outcome[r], NEW how, ToolEnds(r, j, how)
      PROVE  RiskyOnlyBehindAnother'
    <2>1. PICK list \in CallLists :
              /\ Last(r) = AI(r, rounds[r], list)
              /\ DOMAIN outcome[r] = DOMAIN list /\ list[1] # "risky"
        BY <1>1 DEF ToolEnds, Calling
    <2>2. j \in Nat \ {0} /\ Last(r).calls = list
        BY <2>1, LongestCalls, LenProperties DEF AI
    <2>3. list[j] = "risky" => j > 1
        BY <2>1, <2>2
    <2>4. PICK c : c = [run |-> r, round |-> rounds[r], call |-> j, tool |-> list[j]]
        OBVIOUS
    <2>5. performed' \in {performed, performed \cup {c}}
        BY <1>1, <2>2, <2>4 DEF ToolEnds
    <2> QED
        BY <2>3, <2>4, <2>5 DEF RiskyOnlyBehindAnother
<1>2. CASE UNCHANGED performed
    BY <1>2 DEF RiskyOnlyBehindAnother
<1> QED
    BY <1>1, <1>2
    DEF Next, Step, Start, LoadMemory, PruneMessages, OrchestratorAgent, GuardrailCheck, GuardrailRaises,
        ExecuteTools, ToolsStop, Synthesise, SaveMemory, RunRaises, Crash, vars

\* A risky action takes effect only behind an earlier call of the same message
\* (guardrail_check looks at the first call).
THEOREM RiskyNeedsCompany == Spec => []RiskyOnlyBehindAnother
<1>1. Init => RiskyOnlyBehindAnother
    BY DEF Init, RiskyOnlyBehindAnother
<1> QED
    BY <1>1, InitTypes, NextTypes, NextRisky, PTL DEF Spec

---------------------------------------------------------------------------
(* Histories *)

\* The answer of call j stands j places behind the message that makes the call, and
\* all between them are answers of that message.
InPlace(h) ==
    \A i \in DOMAIN h : h[i].kind = "tool" =>
        /\ h[i].call \in 1 .. (i - 1)
        /\ h[i - h[i].call].kind = "ai"
        /\ h[i].call <= Len(h[i - h[i].call].calls)
        /\ \A m \in (i - h[i].call + 1) .. i :
              h[m].kind = "tool" /\ SameRound(h[m], h[i - h[i].call])

LEMMA AppendInPlace ==
    ASSUME NEW h \in Seq(Message), NEW m \in Message, m.kind # "tool", InPlace(h)
    PROVE  InPlace(Append(h, m))
<1>1. PICK g : g = Append(h, m)
    OBVIOUS
<1>2. /\ DOMAIN h = 1 .. Len(h) /\ DOMAIN g = 1 .. (Len(h) + 1) /\ Len(h) \in Nat
      /\ \A i \in 1 .. Len(h) : g[i] = h[i]
      /\ g[Len(h) + 1] = m
    BY <1>1, Appended, LenProperties
<1> SUFFICES ASSUME NEW i \in DOMAIN g, g[i].kind = "tool"
             PROVE  /\ g[i].call \in 1 .. (i - 1)
                    /\ g[i - g[i].call].kind = "ai"
                    /\ g[i].call <= Len(g[i - g[i].call].calls)
                    /\ \A z \in (i - g[i].call + 1) .. i :
                          g[z].kind = "tool" /\ SameRound(g[z], g[i - g[i].call])
    BY <1>1, SMTT(60) DEF InPlace
<1>3. i \in 1 .. Len(h)
    BY <1>2
<1>4. PICK c : c = h[i].call
    OBVIOUS
<1>5. /\ c \in 1 .. (i - 1) /\ h[i - c].kind = "ai" /\ c <= Len(h[i - c].calls)
      /\ \A z \in (i - c + 1) .. i : h[z].kind = "tool" /\ SameRound(h[z], h[i - c])
    BY <1>2, <1>3, <1>4 DEF InPlace
<1>6. g[i].call = c /\ i - c \in 1 .. Len(h) /\ g[i - c] = h[i - c]
    BY <1>2, <1>3, <1>4, <1>5
<1>7. \A z \in (i - c + 1) .. i : z \in 1 .. Len(h) /\ g[z] = h[z]
    BY <1>2, <1>3, <1>6
<1> QED
    BY <1>5, <1>6, <1>7

\* The fields of messages.
LEMMA Fields ==
    \A r, k, j, list :
        /\ Human(r).kind = "human" /\ Human(r).run = r /\ Human(r).calls = <<>>
        /\ AI(r, k, list).kind = "ai" /\ AI(r, k, list).run = r /\ AI(r, k, list).round = k
        /\ AI(r, k, list).calls = list
        /\ Answer(r, k, j).kind = "tool" /\ Answer(r, k, j).run = r /\ Answer(r, k, j).round = k
        /\ Answer(r, k, j).call = j /\ Answer(r, k, j).calls = <<>>
BY DEF Human, AI, Answer

\* What execute_tools makes of the history of a run.
LEMMA AnswersShape ==
    ASSUME NEW h \in Seq(Message), h # <<>>, NEW list \in CallLists, NEW r \in Run,
           NEW k \in 0 .. MaxRounds, h[Len(h)] = AI(r, k, list),
           NEW g, g = Answered(h, r, k, Len(list))
    PROVE  LET n == Len(h)
               l == Len(list)
           IN
           /\ g \in Seq(Message) /\ n \in Nat \ {0} /\ l \in 1 .. Longest /\ Longest \in Nat
           /\ DOMAIN h = 1 .. n /\ DOMAIN g = 1 .. (n + l) /\ Len(g) = n + l
           /\ \A i \in 1 .. n : g[i] = h[i]
           /\ \A j \in 1 .. l : g[n + j] = Answer(r, k, j)
           /\ g[n].kind = "ai" /\ g[n].run = r /\ g[n].round = k /\ g[n].calls = list
           /\ \A z \in (n + 1) .. (n + l) :
                 /\ g[z].kind = "tool" /\ g[z].run = r /\ g[z].round = k /\ g[z].call = z - n
<1> DEFINE n == Len(h)
           l == Len(list)
<1>1. k \in 0 .. (MaxRounds + 1) /\ l \in 0 .. Longest /\ l \in 1 .. Longest /\ Longest \in Nat
    BY LongestCalls, BoundsAssumption
<1>2. n \in Nat \ {0}
    BY EmptySeq, LenProperties
<1>3. g = Answered(h, r, k, l)
    OBVIOUS
<1>4. /\ g \in Seq(Message)
      /\ Len(h) \in Nat /\ Len(g) = Len(h) + l
      /\ \A i \in 1 .. Len(h) : g[i] = h[i]
      /\ \A j \in 1 .. l : g[Len(h) + j] = Answer(r, k, j)
    <2>1. h \in Seq(Message) /\ l \in 0 .. Longest /\ r \in Run /\ k \in 0 .. (MaxRounds + 1)
        BY <1>1
    <2> QED
        BY <1>3, <2>1, AnswersAppended
<1>5. DOMAIN g = 1 .. (n + l) /\ DOMAIN h = 1 .. n
    BY <1>4, LenProperties
<1>6. g[n] = AI(r, k, list)
    BY <1>2, <1>4
<1>7. g[n].kind = "ai" /\ g[n].run = r /\ g[n].round = k /\ g[n].calls = list
    BY <1>6, Fields
<1>8. ASSUME NEW z \in (n + 1) .. (n + l)
      PROVE  g[z].kind = "tool" /\ g[z].run = r /\ g[z].round = k /\ g[z].call = z - n
    <2>1. PICK j : j = z - n
        OBVIOUS
    <2>2. j \in 1 .. l /\ z = n + j
        BY <1>1, <1>2, <2>1
    <2>3. g[z] = Answer(r, k, j)
        BY <1>4, <2>2
    <2> QED
        BY <2>1, <2>3, Fields
<1> QED
    BY <1>1, <1>2, <1>4, <1>5, <1>7, <1>8

LEMMA AnswersInPlace ==
    ASSUME NEW h \in Seq(Message), h # <<>>, InPlace(h), NEW list \in CallLists, NEW r \in Run,
           NEW k \in 0 .. MaxRounds, h[Len(h)] = AI(r, k, list),
           NEW g, g = Answered(h, r, k, Len(list))
    PROVE  InPlace(g)
<1>1. PICK n, l : n = Len(h) /\ l = Len(list)
    OBVIOUS
<1>2. /\ n \in Nat \ {0} /\ l \in Nat /\ DOMAIN h = 1 .. n /\ DOMAIN g = 1 .. (n + l)
      /\ \A i \in 1 .. n : g[i] = h[i]
      /\ g[n].kind = "ai" /\ g[n].run = r /\ g[n].round = k /\ g[n].calls = list
      /\ \A z \in (n + 1) .. (n + l) :
            g[z].kind = "tool" /\ g[z].run = r /\ g[z].round = k /\ g[z].call = z - n
    <2>1. /\ n \in Nat \ {0} /\ l \in 1 .. Longest /\ Longest \in Nat
          /\ DOMAIN h = 1 .. n /\ DOMAIN g = 1 .. (n + l)
          /\ \A i \in 1 .. n : g[i] = h[i]
          /\ g[n].kind = "ai" /\ g[n].run = r /\ g[n].round = k /\ g[n].calls = list
          /\ \A z \in (n + 1) .. (n + l) :
                g[z].kind = "tool" /\ g[z].run = r /\ g[z].round = k /\ g[z].call = z - n
        BY <1>1, AnswersShape, SMTT(30)
    <2> QED
        BY <2>1
<1> SUFFICES ASSUME NEW i \in DOMAIN g, g[i].kind = "tool"
             PROVE  /\ g[i].call \in 1 .. (i - 1)
                    /\ g[i - g[i].call].kind = "ai"
                    /\ g[i].call <= Len(g[i - g[i].call].calls)
                    /\ \A z \in (i - g[i].call + 1) .. i :
                          g[z].kind = "tool" /\ SameRound(g[z], g[i - g[i].call])
    BY DEF InPlace
<1>4. CASE i \in 1 .. n
    <2>1. PICK c : c = h[i].call
        OBVIOUS
    <2>2. /\ c \in 1 .. (i - 1) /\ h[i - c].kind = "ai" /\ c <= Len(h[i - c].calls)
          /\ \A z \in (i - c + 1) .. i : h[z].kind = "tool" /\ SameRound(h[z], h[i - c])
        BY <1>2, <1>4, <2>1, SMTT(60) DEF InPlace
    <2>3. g[i].call = c /\ i - c \in 1 .. n /\ g[i - c] = h[i - c]
        BY <1>2, <1>4, <2>1, <2>2
    <2>4. \A z \in (i - c + 1) .. i : z \in 1 .. n /\ g[z] = h[z]
        BY <1>2, <1>4, <2>3
    <2> QED
        BY <2>2, <2>3, <2>4
<1>5. CASE i \in (n + 1) .. (n + l)
    <2>1. g[i].call = i - n /\ i - (i - n) = n /\ i - n \in 1 .. (i - 1) /\ i - n <= Len(list)
        BY <1>1, <1>2, <1>5
    <2>2. \A z \in (n + 1) .. i : g[z].kind = "tool" /\ SameRound(g[z], g[n])
        BY <1>2, <1>5 DEF SameRound
    <2>3. i - g[i].call = n
        BY <2>1
    <2> QED
        BY <1>2, <2>1, <2>2, <2>3
<1>6. i \in 1 .. n \/ i \in (n + 1) .. (n + l)
    BY <1>2
<1> QED
    BY <1>4, <1>5, <1>6

LEMMA PrunedInPlace ==
    ASSUME NEW h \in Seq(Message), InPlace(h) PROVE InPlace(Pruned(h))
<1>1. PICK g, d, n : g = Pruned(h) /\ d = Boundary(h) /\ n = Len(h)
    OBVIOUS
<1>2. /\ d \in 0 .. n /\ n \in Nat
      /\ d # 0 => h[d + 1].kind # "tool"
    BY <1>1, Cut, LenProperties
<1>3. /\ DOMAIN h = 1 .. n /\ DOMAIN g = 1 .. (n - d)
      /\ \A i \in 1 .. (n - d) : g[i] = h[i + d]
    BY <1>1, Kept, LenProperties
<1> SUFFICES ASSUME NEW i \in DOMAIN g, g[i].kind = "tool"
             PROVE  /\ g[i].call \in 1 .. (i - 1)
                    /\ g[i - g[i].call].kind = "ai"
                    /\ g[i].call <= Len(g[i - g[i].call].calls)
                    /\ \A z \in (i - g[i].call + 1) .. i :
                          g[z].kind = "tool" /\ SameRound(g[z], g[i - g[i].call])
    BY <1>1 DEF InPlace
<1>4. PICK c, p : c = g[i].call /\ p = i + d
    OBVIOUS
<1>5. p \in 1 .. n /\ h[p] = g[i] /\ i \in 1 .. (n - d)
    BY <1>2, <1>3, <1>4
<1>6. /\ c \in 1 .. (p - 1) /\ h[p - c].kind = "ai" /\ c <= Len(h[p - c].calls)
      /\ \A z \in (p - c + 1) .. p : h[z].kind = "tool" /\ SameRound(h[z], h[p - c])
    <2>1. p \in DOMAIN h /\ h[p].kind = "tool" /\ h[p].call = c
        BY <1>3, <1>4, <1>5
    <2> QED
        BY <2>1 DEF InPlace
<1>7. c < i
    <2>1. d # 0 => d + 1 \notin (p - c + 1) .. p
        BY <1>2, <1>6
    <2>2. /\ p = i + d /\ i \in Nat \ {0} /\ d \in Nat /\ c \in Nat \ {0} /\ c <= p - 1
          /\ d = 0 \/ ~(p - c + 1 <= d + 1 /\ d + 1 <= p)
        <3>1. d = 0 \/ ~(p - c + 1 <= d + 1 /\ d + 1 <= p)
            <4>1. p \in Int /\ c \in Int /\ d \in Int
                BY <1>2, <1>5, <1>6
            <4> QED
                BY <2>1, <4>1
        <3>2. p = i + d /\ i \in Nat \ {0} /\ d \in Nat /\ p \in Nat
            BY <1>2, <1>4, <1>5
        <3>3. c \in Nat \ {0} /\ c <= p - 1
            <4>1. c \in 1 .. (p - 1)
                BY <1>6
            <4> QED
                BY <3>2, <4>1
        <3> QED
            BY <3>1, <3>2, <3>3
    <2> QED
        BY <2>2
<1>8. i - c \in 1 .. (n - d) /\ g[i - c] = h[p - c] /\ c \in 1 .. (i - 1)
    <2>1. i - c \in 1 .. (n - d) /\ (i - c) + d = p - c /\ c \in 1 .. (i - 1)
        <3>1. /\ p = i + d /\ i \in Int /\ d \in Int /\ c \in Int /\ n \in Int
              /\ c >= 1 /\ c < i /\ i <= n - d
            <4>1. n \in Int /\ d \in Int
                BY <1>2
            <4>2. i \in Int /\ i <= n - d
                BY <1>5, <4>1
            <4>3. p \in Int
                BY <1>4, <4>1, <4>2
            <4>4. c \in Int /\ c >= 1
                BY <1>6, <4>3
            <4> QED
                BY <1>4, <1>7, <4>1, <4>2, <4>4
        <3>2. i - c \in Int /\ 1 <= i - c /\ i - c <= n - d
            BY <3>1
        <3>3. (i - c) + d = p - c
            BY <3>1
        <3>4. c <= i - 1
            BY <3>1
        <3> QED
            BY <3>1, <3>2, <3>3, <3>4
    <2> QED
        BY <1>3, <2>1
<1>9. ASSUME NEW z \in (i - c + 1) .. i
      PROVE  g[z].kind = "tool" /\ SameRound(g[z], g[i - c])
    <2>1. z \in 1 .. (n - d) /\ z + d \in (p - c + 1) .. p
        <3>1. /\ d \in Int /\ i \in Int /\ p = i + d /\ c \in Int /\ n \in Int
              /\ i <= n - d /\ c < i /\ c >= 1 /\ z \in Int /\ i - c + 1 <= z /\ z <= i
            BY <1>2, <1>4, <1>5, <1>6, <1>7
        <3> QED
            BY <3>1
    <2>2. g[z] = h[z + d]
        BY <1>3, <2>1
    <2> QED
        BY <1>6, <1>8, <2>1, <2>2
<1> QED
    BY <1>4, <1>5, <1>6, <1>8, <1>9

\* In every history of the thread, answers are in place.
Histories ==
    /\ InPlace(checkpoint)
    /\ \A r \in Run : InPlace(messages[r])

LEMMA NextHistories == TypeOK /\ Calling /\ Histories /\ [Next]_vars => Histories'
<1> SUFFICES ASSUME TypeOK, Calling, Histories, [Next]_vars PROVE Histories'
    OBVIOUS
<1>a. /\ MaxRounds \in Nat /\ checkpoint \in Seq(Message)
      /\ \A r \in Run : rounds[r] \in 0 .. MaxRounds /\ messages[r] \in Seq(Message)
    BY BoundsAssumption DEF TypeOK
<1>0. ASSUME NEW r \in Run, NEW h, InPlace(h), NEW next, Proceed(r, h, next)
      PROVE  Histories'
    <2>1. checkpoint' = h /\ \A a \in Run : messages'[a] = IF a = r THEN h ELSE messages[a]
        BY <1>0 DEF Proceed, TypeOK
    <2> QED
        BY <1>0, <2>1 DEF Histories
<1>1. ASSUME NEW r \in Run, Start(r) PROVE Histories'
    <2>1. PICK m : m = Human(r)
        OBVIOUS
    <2>2. m \in Message /\ m.kind # "tool"
        BY <1>a, <2>1, Constructors, Fields
    <2>3. InPlace(Append(checkpoint, m))
        BY <1>a, <2>2, AppendInPlace DEF Histories
    <2> QED
        BY <1>0, <1>1, <2>1, <2>3 DEF Start
<1>2. ASSUME NEW r \in Run, LoadMemory(r) \/ SaveMemory(r) \/ GuardrailCheck(r) PROVE Histories'
    <2>1. InPlace(messages[r]) /\ \E next : Proceed(r, messages[r], next)
        BY <1>2 DEF LoadMemory, SaveMemory, GuardrailCheck, Histories
    <2> QED
        BY <1>0, <2>1
<1>3. ASSUME NEW r \in Run, PruneMessages(r) PROVE Histories'
    <2>1. InPlace(Pruned(messages[r]))
        BY <1>a, PrunedInPlace DEF Histories
    <2> QED
        BY <1>0, <1>3, <2>1 DEF PruneMessages
<1>4. ASSUME NEW r \in Run, OrchestratorAgent(r) \/ Synthesise(r) PROVE Histories'
    <2>1. PICK list \in CallLists \cup {<<>>} :
              \E next : Proceed(r, Append(messages[r], AI(r, rounds[r] + 1, list)), next)
        BY <1>4 DEF OrchestratorAgent, Synthesise
    <2>2. PICK m : m = AI(r, rounds[r] + 1, list)
        OBVIOUS
    <2>3. m \in Message /\ m.kind # "tool"
        <3>1. rounds[r] + 1 \in 0 .. (MaxRounds + 1)
            BY <1>a
        <3>2. AI(r, rounds[r] + 1, list) \in Message
            BY <3>1, Constructors
        <3> QED
            BY <2>2, <3>2, Fields
    <2>4. InPlace(Append(messages[r], m))
        BY <1>a, <2>3, AppendInPlace DEF Histories
    <2> QED
        BY <1>0, <2>1, <2>2, <2>4
<1>5. ASSUME NEW r \in Run, ExecuteTools(r) PROVE Histories'
    <2>1. PICK list \in CallLists :
              /\ messages[r] # <<>> /\ Last(r) = AI(r, rounds[r], list)
              /\ DOMAIN outcome[r] = 1 .. Len(list)
        BY <1>5, LongestCalls, LenProperties DEF ExecuteTools, Calling
    <2>2. PICK h : h = messages[r]
        OBVIOUS
    <2>3. PICK k : k = rounds[r]
        OBVIOUS
    <2>4. h \in Seq(Message) /\ h # <<>> /\ InPlace(h) /\ k \in 0 .. MaxRounds /\ h[Len(h)] = AI(r, k, list)
        BY <1>a, <2>1, <2>2, <2>3 DEF Histories, Last
    <2>5. PICK g : g = Answered(h, r, k, Len(list))
        OBVIOUS
    <2>6. InPlace(g)
        BY <2>4, <2>5, AnswersInPlace
    <2>7. Proceed(r, g, "prune_messages")
        BY <1>5, <2>1, <2>2, <2>3, <2>5 DEF ExecuteTools, Answered
    <2> QED
        BY <1>0, <2>6, <2>7
<1>6. CASE UNCHANGED <<messages, checkpoint>>
    BY <1>6 DEF Histories
<1> QED
    BY <1>1, <1>2, <1>3, <1>4, <1>5, <1>6
    DEF Next, Step, GuardrailRaises, ToolEnds, ToolsStop, RunRaises, Crash, vars

LEMMA InPlaceAnswers ==
    ASSUME NEW h \in Seq(Message), InPlace(h), NEW i \in DOMAIN h, h[i].kind = "tool"
    PROVE  \E k \in 1 .. i : Answers(h, k, i)
<1>1. PICK k : k = i - h[i].call
    OBVIOUS
<1>2. i \in Nat /\ h[i].call \in 1 .. (i - 1)
    BY LenProperties DEF InPlace
<1>3. k \in 1 .. i /\ k < i
    BY <1>1, <1>2
<1>4. Answers(h, k, i)
    BY <1>1, <1>3 DEF InPlace, Answers
<1> QED
    BY <1>3, <1>4

\* However often the history is pruned and whatever checkpoint a run starts from, an
\* answer stands behind the message that made the call, with answers of the same
\* message in between.
THEOREM AnswersStandBehindCalls == Spec => []NoOrphanAnswer
<1>1. Init => Histories
    BY EmptySeq DEF Init, Histories, InPlace
<1>2. TypeOK /\ Histories => NoOrphanAnswer
    <2> SUFFICES ASSUME TypeOK, Histories, NEW h \in {messages[r] : r \in Run} \cup {checkpoint},
                        NEW i \in DOMAIN h, h[i].kind = "tool"
                 PROVE  \E k \in 1 .. i : Answers(h, k, i)
        BY DEF NoOrphanAnswer
    <2>1. h \in Seq(Message) /\ InPlace(h)
        BY DEF TypeOK, Histories
    <2> QED
        BY <2>1, InPlaceAnswers
<1> QED
    BY <1>1, <1>2, InitTypes, NextTypes, NextHistories, PTL DEF Spec

---------------------------------------------------------------------------
(* What the LLM is asked with *)

\* The customer's message is there and the run's own messages follow it, or the run's
\* own messages fill all that is kept.
Own(r, h) ==
    \/ \E i \in DOMAIN h : h[i] = Human(r) /\ \A m \in DOMAIN h : m > i => h[m].run = r
    \/ Len(h) >= MAX_MESSAGES /\ \A m \in DOMAIN h : h[m].run = r

Asked == \A r \in Run : node[r] # "new" => Own(r, messages[r])

Bounded == \A r \in Run : node[r] = "orchestrator_agent" => Len(messages[r]) <= MAX_MESSAGES + Longest

\* A run adds messages of its own.
LEMMA ExtendedOwn ==
    ASSUME NEW h \in Seq(Message), NEW g \in Seq(Message), NEW r \in Run, Own(r, h),
           Len(h) <= Len(g), \A i \in 1 .. Len(h) : g[i] = h[i],
           \A i \in (Len(h) + 1) .. Len(g) : g[i].run = r
    PROVE  Own(r, g)
<1>1. PICK n, l : n = Len(h) /\ l = Len(g)
    OBVIOUS
<1>2. /\ n \in Nat /\ l \in Nat /\ n <= l /\ DOMAIN h = 1 .. n /\ DOMAIN g = 1 .. l
      /\ MAX_MESSAGES \in Nat
      /\ \A i \in 1 .. n : g[i] = h[i]
      /\ \A i \in (n + 1) .. l : g[i].run = r
    BY <1>1, LenProperties, BoundsAssumption
<1>3. ASSUME NEW i \in 1 .. n, h[i] = Human(r), \A m \in 1 .. n : m > i => h[m].run = r
      PROVE  Own(r, g)
    <2>1. i \in 1 .. l /\ g[i] = Human(r)
        BY <1>2, <1>3
    <2>2. ASSUME NEW m \in 1 .. l, m > i PROVE g[m].run = r
        <3>1. m \in 1 .. n \/ m \in (n + 1) .. l
            BY <1>2
        <3> QED
            BY <1>2, <1>3, <2>2, <3>1
    <2> QED
        BY <1>2, <2>1, <2>2 DEF Own
<1>4. ASSUME n >= MAX_MESSAGES, \A m \in 1 .. n : h[m].run = r PROVE Own(r, g)
    <2>1. l >= MAX_MESSAGES
        BY <1>2, <1>4
    <2>2. ASSUME NEW m \in 1 .. l PROVE g[m].run = r
        <3>1. m \in 1 .. n \/ m \in (n + 1) .. l
            BY <1>2
        <3> QED
            BY <1>2, <1>4, <3>1
    <2> QED
        BY <1>1, <1>2, <2>1, <2>2 DEF Own
<1>5. \/ \E i \in 1 .. n : h[i] = Human(r) /\ \A m \in 1 .. n : m > i => h[m].run = r
      \/ n >= MAX_MESSAGES /\ \A m \in 1 .. n : h[m].run = r
    BY <1>1, <1>2 DEF Own
<1> QED
    BY <1>3, <1>4, <1>5

LEMMA AppendOwn ==
    ASSUME NEW h \in Seq(Message), NEW r \in Run, Own(r, h), NEW m \in Message, m.run = r
    PROVE  Own(r, Append(h, m))
<1>1. PICK g : g = Append(h, m)
    OBVIOUS
<1>2. /\ g \in Seq(Message) /\ Len(h) \in Nat /\ Len(g) = Len(h) + 1
      /\ \A i \in 1 .. Len(h) : g[i] = h[i]
      /\ g[Len(h) + 1] = m
    BY <1>1, Appended
<1>3. Len(h) <= Len(g) /\ \A i \in (Len(h) + 1) .. Len(g) : g[i].run = r
    BY <1>2
<1>4. Own(r, g)
    BY <1>2, <1>3, ExtendedOwn
<1> QED
    BY <1>1, <1>4

\* The message of a run is dropped only when what is kept is full of its answers.
LEMMA PrunedOwn ==
    ASSUME NEW h \in Seq(Message), NEW r \in Run, Own(r, h) PROVE Own(r, Pruned(h))
<1>1. PICK g, d, n : g = Pruned(h) /\ d = Boundary(h) /\ n = Len(h)
    OBVIOUS
<1>2. /\ d \in 0 .. n /\ n \in Nat /\ MAX_MESSAGES \in Nat
      /\ n <= MAX_MESSAGES => d = 0
      /\ n > MAX_MESSAGES => d <= n - MAX_MESSAGES
    BY <1>1, Cut, LenProperties, BoundsAssumption
<1>3. /\ DOMAIN h = 1 .. n /\ DOMAIN g = 1 .. (n - d) /\ Len(g) = n - d
      /\ \A i \in 1 .. (n - d) : g[i] = h[i + d]
    BY <1>1, Kept, LenProperties
<1>4. d # 0 => n - d >= MAX_MESSAGES
    BY <1>2
<1>5. ASSUME NEW i \in 1 .. n, h[i] = Human(r), \A m \in 1 .. n : m > i => h[m].run = r
      PROVE  Own(r, g)
    <2>1. CASE i > d
        <3>1. PICK p : p = i - d
            OBVIOUS
        <3>2. p \in 1 .. (n - d) /\ p + d = i
            BY <1>2, <2>1, <3>1
        <3>3. g[p] = Human(r)
            BY <1>3, <1>5, <3>2
        <3>4. ASSUME NEW m \in 1 .. (n - d), m > p PROVE g[m].run = r
            <4>1. m + d \in 1 .. n /\ m + d > i
                BY <1>2, <3>2, <3>4
            <4> QED
                BY <1>3, <1>5, <4>1
        <3> QED
            BY <1>3, <3>2, <3>3, <3>4 DEF Own
    <2>2. CASE i <= d
        <3>1. n - d >= MAX_MESSAGES
            BY <1>2, <1>4, <2>2
        <3>2. ASSUME NEW m \in 1 .. (n - d) PROVE g[m].run = r
            <4>1. m + d \in 1 .. n /\ m + d > i
                BY <1>2, <2>2
            <4> QED
                BY <1>3, <1>5, <4>1
        <3> QED
            BY <1>3, <3>1, <3>2 DEF Own
    <2> QED
        BY <1>2, <2>1, <2>2
<1>6. ASSUME n >= MAX_MESSAGES, \A m \in 1 .. n : h[m].run = r PROVE Own(r, g)
    <2>1. n - d >= MAX_MESSAGES
        BY <1>2, <1>4, <1>6
    <2>2. ASSUME NEW m \in 1 .. (n - d) PROVE g[m].run = r
        <3>1. m + d \in 1 .. n
            BY <1>2
        <3> QED
            BY <1>3, <1>6, <3>1
    <2> QED
        BY <1>3, <2>1, <2>2 DEF Own
<1>7. \/ \E i \in 1 .. n : h[i] = Human(r) /\ \A m \in 1 .. n : m > i => h[m].run = r
      \/ n >= MAX_MESSAGES /\ \A m \in 1 .. n : h[m].run = r
    BY <1>1, <1>3 DEF Own
<1>8. Own(r, g)
    BY <1>5, <1>6, <1>7
<1> QED
    BY <1>1, <1>8

\* Where the last MAX_MESSAGES would begin with an answer, the walk back ends at the
\* message that made the call.
LEMMA PrunedBounded ==
    ASSUME NEW h \in Seq(Message), InPlace(h) PROVE Len(Pruned(h)) <= MAX_MESSAGES + Longest
<1>1. PICK d, n, e : d = Boundary(h) /\ n = Len(h) /\ e = Len(h) - MAX_MESSAGES
    OBVIOUS
<1>2. /\ d \in 0 .. n /\ n \in Nat /\ MAX_MESSAGES \in Nat \ {0} /\ Longest \in Nat /\ e = n - MAX_MESSAGES
      /\ n <= MAX_MESSAGES => d = 0
      /\ DOMAIN h = 1 .. n /\ Len(Pruned(h)) = n - d
    BY <1>1, Cut, Kept, LenProperties, LongestCalls, BoundsAssumption
<1>3. ASSUME n > MAX_MESSAGES, NEW b \in 0 .. e, h[b + 1].kind # "tool" PROVE b <= d
    BY <1>1, <1>3, Cut
<1>4. CASE n <= MAX_MESSAGES
    BY <1>2, <1>4
<1>5. CASE n > MAX_MESSAGES
    <2>1. e \in Nat /\ e >= 1 /\ e + 1 \in 1 .. n
        BY <1>2, <1>5
    <2>2. CASE h[e + 1].kind # "tool"
        <3>1. e <= d
            BY <1>3, <1>5, <2>1, <2>2
        <3> QED
            BY <1>2, <2>1, <3>1
    <2>3. CASE h[e + 1].kind = "tool"
        <3>1. PICK p, c : p = e + 1 /\ c = h[p].call
            OBVIOUS
        <3>2. c \in 1 .. (p - 1) /\ h[p - c].kind = "ai" /\ c <= Len(h[p - c].calls)
            BY <1>2, <2>1, <2>3, <3>1 DEF InPlace
        <3>3. PICK k : k = p - c
            OBVIOUS
        <3>4. k \in 1 .. e /\ k \in DOMAIN h
            <4>1. /\ p = e + 1 /\ c \in 1 .. (p - 1) /\ k = p - c /\ e \in Nat /\ n \in Nat
                  /\ e + 1 \in 1 .. n
                BY <1>2, <2>1, <3>1, <3>2, <3>3
            <4>2. k \in 1 .. e /\ k \in 1 .. n
                BY <4>1
            <4> QED
                BY <1>2, <4>2
        <3>5. h[k].calls \in CallLists \cup {<<>>}
            <4>1. h[k] \in Message
                BY <1>1, <1>2, <3>4, ElementOfSeq
            <4> QED
                BY <4>1 DEF Message
        <3>6. Len(h[k].calls) <= Longest /\ Len(h[k].calls) \in Nat
            <4>1. CASE h[k].calls \in CallLists
                BY <1>2, <4>1, LongestCalls
            <4>2. CASE h[k].calls = <<>>
                <5>1. Len(h[k].calls) = 0
                    BY <4>2, EmptySeq
                <5> QED
                    BY <1>2, <5>1
            <4> QED
                BY <3>5, <4>1, <4>2
        <3>7. k - 1 <= d
            <4>1. k - 1 \in 0 .. e /\ (k - 1) + 1 = k
                BY <2>1, <3>4
            <4>2. h[(k - 1) + 1].kind # "tool"
                BY <3>2, <3>3, <4>1
            <4> QED
                BY <1>3, <1>5, <4>1, <4>2
        <3>8. c <= Longest
            <4>1. c \in 1 .. (p - 1) /\ c <= Len(h[k].calls)
                BY <3>2, <3>3
            <4>2. c \in Int /\ Longest \in Int
                BY <1>2, <4>1
            <4> QED
                BY <3>6, <4>1, <4>2
        <3> QED
            <4>1. /\ c \in Int /\ k = p - c /\ p = e + 1 /\ e = n - MAX_MESSAGES /\ k - 1 <= d
                  /\ c <= Longest /\ n \in Int /\ d \in Int /\ MAX_MESSAGES \in Int /\ Longest \in Int
                BY <1>2, <3>1, <3>2, <3>3, <3>7, <3>8
            <4>2. n - d <= MAX_MESSAGES + Longest
                BY <4>1
            <4> QED
                BY <1>2, <4>2
    <2> QED
        BY <2>2, <2>3
<1> QED
    BY <1>2, <1>4, <1>5

LEMMA NextAsked ==
    TypeOK /\ Calling /\ Histories /\ Asked /\ Bounded /\ [Next]_vars => Asked' /\ Bounded'
<1> SUFFICES ASSUME TypeOK, Calling, Histories, Asked, Bounded, [Next]_vars PROVE Asked' /\ Bounded'
    OBVIOUS
<1>a. /\ MaxRounds \in Nat /\ checkpoint \in Seq(Message)
      /\ \A r \in Run : rounds[r] \in 0 .. MaxRounds /\ messages[r] \in Seq(Message)
    BY BoundsAssumption DEF TypeOK
<1>0. ASSUME NEW r \in Run, NEW h, Own(r, h), NEW next, Proceed(r, h, next),
             next = "orchestrator_agent" => Len(h) <= MAX_MESSAGES + Longest
      PROVE  Asked' /\ Bounded'
    <2>1. /\ messages'[r] = h /\ node'[r] = next
          /\ \A a \in Run \ {r} : messages'[a] = messages[a] /\ node'[a] = node[a]
        BY <1>0 DEF Proceed, TypeOK
    <2>2. ASSUME NEW a \in Run, node'[a] # "new" PROVE Own(a, messages'[a])
        BY <1>0, <2>1, <2>2 DEF Asked
    <2>3. ASSUME NEW a \in Run, node'[a] = "orchestrator_agent"
          PROVE  Len(messages'[a]) <= MAX_MESSAGES + Longest
        BY <1>0, <2>1, <2>3 DEF Bounded
    <2> QED
        BY <2>2, <2>3 DEF Asked, Bounded
<1>1. ASSUME NEW r \in Run, Start(r) PROVE Asked' /\ Bounded'
    <2>1. PICK g, m : m = Human(r) /\ g = Append(checkpoint, m)
        OBVIOUS
    <2>2. m \in Message
        BY <1>a, <2>1, Constructors
    <2>3. /\ g \in Seq(Message) /\ Len(checkpoint) \in Nat /\ Len(g) = Len(checkpoint) + 1
          /\ g[Len(checkpoint) + 1] = m
        BY <1>a, <2>1, <2>2, Appended
    <2>4. DOMAIN g = 1 .. (Len(checkpoint) + 1)
        BY <2>3, LenProperties
    <2>5. /\ Len(checkpoint) + 1 \in DOMAIN g
          /\ \A i \in DOMAIN g : ~(i > Len(checkpoint) + 1)
        BY <2>3, <2>4
    <2>6. Own(r, g)
        BY <2>1, <2>3, <2>5 DEF Own
    <2>7. Proceed(r, g, "load_memory")
        BY <1>1, <2>1 DEF Start
    <2> QED
        BY <1>0, <2>6, <2>7
<1>b. ASSUME NEW r \in Run, node[r] \in Nodes PROVE Own(r, messages[r])
    BY <1>b DEF Asked, Nodes
<1>2. ASSUME NEW r \in Run, LoadMemory(r) \/ SaveMemory(r) \/ GuardrailCheck(r) PROVE Asked' /\ Bounded'
    <2>1. node[r] \in Nodes /\ \E next : next # "orchestrator_agent" /\ Proceed(r, messages[r], next)
        BY <1>2 DEF LoadMemory, SaveMemory, GuardrailCheck, Nodes
    <2> QED
        BY <1>0, <1>b, <2>1
<1>3. ASSUME NEW r \in Run, PruneMessages(r) PROVE Asked' /\ Bounded'
    <2>1. Own(r, messages[r])
        BY <1>3, <1>b DEF PruneMessages, Nodes
    <2>2. Own(r, Pruned(messages[r]))
        BY <1>a, <2>1, PrunedOwn
    <2>3. Len(Pruned(messages[r])) <= MAX_MESSAGES + Longest
        BY <1>a, PrunedBounded DEF Histories
    <2> QED
        BY <1>0, <1>3, <2>2, <2>3 DEF PruneMessages
<1>4. ASSUME NEW r \in Run, OrchestratorAgent(r) \/ Synthesise(r) PROVE Asked' /\ Bounded'
    <2>1. PICK list \in CallLists \cup {<<>>} :
              \E next : /\ next # "orchestrator_agent"
                        /\ Proceed(r, Append(messages[r], AI(r, rounds[r] + 1, list)), next)
        BY <1>4 DEF OrchestratorAgent, Synthesise
    <2>2. PICK m : m = AI(r, rounds[r] + 1, list)
        OBVIOUS
    <2>3. m \in Message /\ m.run = r
        <3>1. rounds[r] + 1 \in 0 .. (MaxRounds + 1)
            BY <1>a
        <3>2. AI(r, rounds[r] + 1, list) \in Message
            BY <3>1, Constructors
        <3> QED
            BY <2>2, <3>2, Fields
    <2>4. Own(r, messages[r])
        BY <1>4, <1>b DEF OrchestratorAgent, Synthesise, Nodes
    <2>5. Own(r, Append(messages[r], m))
        BY <1>a, <2>3, <2>4, AppendOwn
    <2> QED
        BY <1>0, <2>1, <2>2, <2>5
<1>5. ASSUME NEW r \in Run, ExecuteTools(r) PROVE Asked' /\ Bounded'
    <2>1. PICK list \in CallLists :
              /\ messages[r] # <<>> /\ Last(r) = AI(r, rounds[r], list)
              /\ DOMAIN outcome[r] = 1 .. Len(list)
        BY <1>5, LongestCalls, LenProperties DEF ExecuteTools, Calling
    <2>2. PICK h, k : h = messages[r] /\ k = rounds[r]
        OBVIOUS
    <2>3. /\ h \in Seq(Message) /\ h # <<>> /\ k \in 0 .. MaxRounds /\ h[Len(h)] = AI(r, k, list)
          /\ Own(r, h)
        BY <1>5, <1>a, <1>b, <2>1, <2>2 DEF Last, ExecuteTools, Nodes
    <2>4. PICK g : g = Answered(h, r, k, Len(list))
        OBVIOUS
    <2>5. /\ g \in Seq(Message) /\ Len(h) \in Nat /\ Len(list) \in Nat /\ Len(g) = Len(h) + Len(list)
          /\ \A i \in 1 .. Len(h) : g[i] = h[i]
          /\ \A z \in (Len(h) + 1) .. (Len(h) + Len(list)) : g[z].run = r
        <3>1. Len(list) \in Nat
            BY LongestCalls
        <3>2. /\ g \in Seq(Message) /\ Len(h) \in Nat \ {0} /\ Len(g) = Len(h) + Len(list)
              /\ \A i \in 1 .. Len(h) : g[i] = h[i]
              /\ \A z \in (Len(h) + 1) .. (Len(h) + Len(list)) :
                    /\ g[z].kind = "tool" /\ g[z].run = r /\ g[z].round = k /\ g[z].call = z - Len(h)
            BY <2>3, <2>4, AnswersShape
        <3> QED
            BY <3>1, <3>2
    <2>6. Len(h) <= Len(g) /\ \A z \in (Len(h) + 1) .. Len(g) : g[z].run = r
        BY <2>5
    <2>7. Own(r, g)
        BY <2>3, <2>5, <2>6, ExtendedOwn
    <2>8. Proceed(r, g, "prune_messages")
        BY <1>5, <2>1, <2>2, <2>4 DEF ExecuteTools, Answered
    <2> QED
        BY <1>0, <2>7, <2>8
<1>6. ASSUME NEW r \in Run, GuardrailRaises(r) \/ RunRaises(r) \/ Crash(r) \/ ToolsStop(r)
      PROVE  Asked' /\ Bounded'
    <2>1. /\ node[r] \in Nodes /\ messages' = messages
          /\ \E how \in Failed : node' = [node EXCEPT ![r] = how]
        BY <1>6 DEF GuardrailRaises, RunRaises, Crash, ToolsStop, Failed, Nodes
    <2>2. \A a \in Run : (node'[a] = node[a] \/ (a = r /\ node'[a] \in Failed))
        BY <2>1 DEF TypeOK
    <2> QED
        BY <1>b, <2>1, <2>2 DEF Asked, Bounded, Failed
<1>7. CASE UNCHANGED <<messages, node>>
    BY <1>7 DEF Asked, Bounded
<1> QED
    BY <1>1, <1>2, <1>3, <1>4, <1>5, <1>6, <1>7 DEF Next, Step, ToolEnds, vars

\* The prompt stays bounded, and the LLM is asked without the message of this turn only
\* when the answers of the turn's own calls fill all that is kept.
THEOREM QuestionLostOnlyByLongTurn == Spec => []QuestionLostByLongTurn
<1>1. Init => Histories /\ Asked /\ Bounded
    BY EmptySeq DEF Init, Histories, InPlace, Asked, Bounded
<1>2. Asked /\ Bounded => QuestionLostByLongTurn
    BY DEF Asked, Bounded, Own, QuestionLostByLongTurn
<1> QED
    BY <1>1, <1>2, InitTypes, NextTypes, NextHistories, NextAsked, PTL DEF Spec

---------------------------------------------------------------------------
(* Calls without answers *)

Hanging == {"guardrail_check", "execute_tools"} \cup Failed

\* What the history h of a run that goes to next may lack, when the runs in c were cut.
Lacks(r, h, next, c) ==
    \A k \in DOMAIN h : Unanswered(h, k) =>
        IF h[k].run = r THEN k = Len(h) /\ next \in Hanging ELSE h[k].run \in c

\* What the checkpoint lacks, a run that hangs or was cut has left there.
Left ==
    /\ \A k \in DOMAIN checkpoint : Unanswered(checkpoint, k) =>
          checkpoint[k].run \in cut \/ node[checkpoint[k].run] \in Hanging
    /\ \A a \in cut : node[a] # "new"

Carried == Left /\ \A r \in Run : Lacks(r, messages[r], node[r], cut)

\* Messages that are added take no answer away.
LEMMA ExtendedUnanswered ==
    ASSUME NEW h \in Seq(Message), NEW g \in Seq(Message), Len(h) <= Len(g),
           \A i \in 1 .. Len(h) : g[i] = h[i], NEW k \in DOMAIN h, Unanswered(g, k)
    PROVE  Unanswered(h, k)
<1>1. PICK n, l : n = Len(h) /\ l = Len(g)
    OBVIOUS
<1>2. /\ n \in Nat /\ l \in Nat /\ n <= l /\ DOMAIN h = 1 .. n /\ DOMAIN g = 1 .. l
      /\ \A i \in 1 .. n : g[i] = h[i]
      /\ k \in 1 .. n /\ g[k] = h[k]
    BY <1>1, LenProperties
<1>3. PICK j \in DOMAIN h[k].calls : ~ \E i \in DOMAIN g : g[i].call = j /\ Answers(g, k, i)
    BY <1>2 DEF Unanswered
<1>4. ASSUME NEW i \in DOMAIN h, h[i].call = j, Answers(h, k, i) PROVE FALSE
    <2>1. i \in DOMAIN g /\ g[i].call = j
        BY <1>2, <1>4
    <2>2. \A m \in (k + 1) .. i : m \in 1 .. n
        BY <1>2, <1>4
    <2>3. Answers(g, k, i)
        BY <1>2, <1>4, <2>2 DEF Answers
    <2> QED
        BY <1>3, <2>1, <2>3
<1> QED
    BY <1>3, <1>4 DEF Unanswered

\* Pruning takes the answers away only with the call.
LEMMA PrunedUnanswered ==
    ASSUME NEW h \in Seq(Message), NEW k \in DOMAIN Pruned(h), Unanswered(Pruned(h), k)
    PROVE  /\ k + Boundary(h) \in DOMAIN h /\ Pruned(h)[k] = h[k + Boundary(h)]
           /\ Unanswered(h, k + Boundary(h))
<1>1. PICK g, d, n, p : g = Pruned(h) /\ d = Boundary(h) /\ n = Len(h) /\ p = k + d
    OBVIOUS
<1>2. d \in 0 .. n /\ n \in Nat
    BY <1>1, Cut, LenProperties
<1>3. /\ DOMAIN h = 1 .. n /\ DOMAIN g = 1 .. (n - d)
      /\ \A i \in 1 .. (n - d) : g[i] = h[i + d]
    BY <1>1, Kept, LenProperties
<1>4. k \in 1 .. (n - d) /\ p \in 1 .. n /\ g[k] = h[p] /\ Unanswered(g, k)
    BY <1>1, <1>2, <1>3
<1>5. PICK j \in DOMAIN h[p].calls : ~ \E i \in DOMAIN g : g[i].call = j /\ Answers(g, k, i)
    BY <1>4 DEF Unanswered
<1>6. ASSUME NEW i \in DOMAIN h, h[i].call = j, Answers(h, p, i) PROVE FALSE
    <2>1. i \in 1 .. n /\ p < i
        BY <1>3, <1>6 DEF Answers
    <2>2. PICK q : q = i - d
        OBVIOUS
    <2>3. q \in 1 .. (n - d) /\ k < q /\ q + d = i
        <3>1. /\ p = k + d /\ k \in Int /\ k >= 1 /\ d \in Int /\ n \in Int /\ i \in Int
              /\ i <= n /\ p < i /\ q = i - d
            BY <1>1, <1>2, <1>4, <2>1, <2>2
        <3> QED
            BY <3>1
    <2>4. q \in DOMAIN g /\ g[q].call = j
        BY <1>3, <1>6, <2>3
    <2>5. ASSUME NEW m \in (k + 1) .. q PROVE g[m].kind = "tool" /\ SameRound(g[m], g[k])
        <3>1. m \in 1 .. (n - d) /\ m + d \in (p + 1) .. i
            BY <1>1, <1>2, <1>4, <2>3
        <3>2. g[m] = h[m + d]
            BY <1>3, <3>1
        <3> QED
            BY <1>4, <1>6, <3>1, <3>2 DEF Answers
    <2>6. g[k].kind = "ai"
        BY <1>4, <1>6 DEF Answers
    <2>7. Answers(g, k, q)
        BY <2>3, <2>5, <2>6 DEF Answers
    <2> QED
        BY <1>5, <2>4, <2>7
<1>7. Unanswered(h, p)
    BY <1>5, <1>6 DEF Unanswered
<1> QED
    BY <1>1, <1>3, <1>4, <1>7

\* A message without calls lacks nothing.
LEMMA NoCalls ==
    ASSUME NEW h, NEW k, h[k].calls = <<>> PROVE ~Unanswered(h, k)
BY EmptySeq DEF Unanswered

\* Execute_tools answers all calls of the message.
LEMMA AnsweredAll ==
    ASSUME NEW h \in Seq(Message), h # <<>>, NEW list \in CallLists, NEW r \in Run,
           NEW k \in 0 .. MaxRounds, h[Len(h)] = AI(r, k, list),
           NEW g, g = Answered(h, r, k, Len(list)), NEW p \in DOMAIN g, Unanswered(g, p)
    PROVE  p \in DOMAIN h /\ p # Len(h) /\ g[p] = h[p] /\ Unanswered(h, p)
<1>1. PICK n, l : n = Len(h) /\ l = Len(list)
    OBVIOUS
<1>2. /\ g \in Seq(Message) /\ n \in Nat \ {0} /\ l \in Nat /\ DOMAIN h = 1 .. n /\ DOMAIN g = 1 .. (n + l)
      /\ Len(g) = n + l
      /\ \A i \in 1 .. n : g[i] = h[i]
      /\ \A j \in 1 .. l : g[n + j] = Answer(r, k, j)
      /\ g[n].kind = "ai" /\ g[n].run = r /\ g[n].round = k /\ g[n].calls = list
      /\ \A z \in (n + 1) .. (n + l) :
            g[z].kind = "tool" /\ g[z].run = r /\ g[z].round = k /\ g[z].call = z - n
    <2>1. /\ g \in Seq(Message) /\ n \in Nat \ {0} /\ l \in 1 .. Longest /\ Longest \in Nat
          /\ DOMAIN h = 1 .. n /\ DOMAIN g = 1 .. (n + l) /\ Len(g) = n + l
          /\ \A i \in 1 .. n : g[i] = h[i]
          /\ \A j \in 1 .. l : g[n + j] = Answer(r, k, j)
          /\ g[n].kind = "ai" /\ g[n].run = r /\ g[n].round = k /\ g[n].calls = list
          /\ \A z \in (n + 1) .. (n + l) :
                g[z].kind = "tool" /\ g[z].run = r /\ g[z].round = k /\ g[z].call = z - n
        BY <1>1, AnswersShape, SMTT(60)
    <2> QED
        BY <2>1
<1>3. p \in 1 .. n
    <2> SUFFICES ASSUME p \in (n + 1) .. (n + l) PROVE FALSE
        BY <1>2
    <2>1. PICK j \in 1 .. l : p = n + j
        <3>1. p - n \in 1 .. l /\ p = n + (p - n)
            BY <1>2
        <3> QED
            BY <3>1
    <2>2. g[p].calls = <<>>
        BY <1>2, <2>1, Fields
    <2> QED
        BY <2>2, NoCalls
<1>4. p # n
    <2> SUFFICES ASSUME p = n PROVE FALSE
        OBVIOUS
    <2>1. PICK j \in DOMAIN list : ~ \E i \in DOMAIN g : g[i].call = j /\ Answers(g, n, i)
        BY <1>2 DEF Unanswered
    <2>2. DOMAIN list = 1 .. l
        BY <1>1, LongestCalls, LenProperties
    <2>3. PICK i : i = n + j
        OBVIOUS
    <2>4. i \in (n + 1) .. (n + l) /\ i \in 1 .. (n + l) /\ i - n = j /\ n < i
        BY <1>2, <2>2, <2>3
    <2>5. g[i].call = j
        BY <1>2, <2>4
    <2>6. \A m \in (n + 1) .. i : g[m].kind = "tool" /\ SameRound(g[m], g[n])
        BY <1>2, <2>4 DEF SameRound
    <2>7. Answers(g, n, i)
        BY <1>2, <2>4, <2>6 DEF Answers
    <2> QED
        BY <1>2, <2>1, <2>4, <2>5, <2>7
<1>5. Len(h) <= Len(g) /\ \A i \in 1 .. Len(h) : g[i] = h[i]
    BY <1>1, <1>2
<1>6. Unanswered(h, p)
    BY <1>2, <1>3, <1>5, ExtendedUnanswered
<1> QED
    BY <1>1, <1>2, <1>3, <1>4, <1>6

LEMMA NextCarried == TypeOK /\ Calling /\ Carried /\ [Next]_vars => Carried'
<1> SUFFICES ASSUME TypeOK, Calling, Carried, [Next]_vars PROVE Carried'
    OBVIOUS
<1>a. /\ MaxRounds \in Nat /\ checkpoint \in Seq(Message)
      /\ \A r \in Run : rounds[r] \in 0 .. MaxRounds /\ messages[r] \in Seq(Message)
    BY BoundsAssumption DEF TypeOK
<1>b. \A r \in Run : Lacks(r, messages[r], node[r], cut)
    BY DEF Carried
<1>c. \A r \in Run : \A k \in DOMAIN messages[r] :
          Unanswered(messages[r], k) =>
            \/ messages[r][k].run = r /\ k = Len(messages[r]) /\ node[r] \in Hanging
            \/ messages[r][k].run # r /\ messages[r][k].run \in cut
    BY <1>b DEF Lacks
<1>0. ASSUME NEW r \in Run, NEW h, NEW next, next # "new", Proceed(r, h, next), cut \subseteq cut',
             \A a \in cut' : node'[a] # "new", Lacks(r, h, next, cut')
      PROVE  Carried'
    <2>1. /\ messages'[r] = h /\ node'[r] = next /\ checkpoint' = h
          /\ \A a \in Run \ {r} : messages'[a] = messages[a] /\ node'[a] = node[a]
        BY <1>0 DEF Proceed, TypeOK
    <2>2. ASSUME NEW a \in Run PROVE Lacks(a, messages'[a], node'[a], cut')
        <3>1. CASE a = r
            BY <1>0, <2>1, <3>1
        <3>2. CASE a # r
            <4>1. messages'[a] = messages[a] /\ node'[a] = node[a]
                BY <2>1, <3>2
            <4> QED
                BY <1>0, <1>b, <4>1 DEF Lacks
        <3> QED
            BY <3>1, <3>2
    <2>3. Left'
        BY <1>0, <2>1 DEF Left, Lacks
    <2> QED
        BY <2>2, <2>3 DEF Carried
<1>d. ASSUME NEW r \in Run, NEW h, NEW next, next # "new", Proceed(r, h, next), cut' = cut
      PROVE  \A a \in cut' : node'[a] # "new"
    <2>1. node'[r] = next /\ \A a \in Run \ {r} : node'[a] = node[a]
        BY <1>d DEF Proceed, TypeOK
    <2>2. cut \subseteq Run /\ \A a \in cut : node[a] # "new"
        BY DEF TypeOK, Carried, Left
    <2> QED
        BY <1>d, <2>1, <2>2
<1>1. ASSUME NEW r \in Run, Start(r) PROVE Carried'
    <2>1. PICK g, m, n : m = Human(r) /\ g = Append(checkpoint, m) /\ n = Len(checkpoint)
        OBVIOUS
    <2>2. m \in Message /\ m.calls = <<>>
        BY <1>a, <2>1, Constructors, Fields
    <2>3. /\ g \in Seq(Message) /\ n \in Nat /\ Len(g) = n + 1
          /\ \A i \in 1 .. n : g[i] = checkpoint[i]
          /\ g[n + 1] = m
        BY <1>a, <2>1, <2>2, Appended
    <2>4. DOMAIN g = 1 .. (n + 1) /\ DOMAIN checkpoint = 1 .. n
        BY <1>a, <2>1, <2>3, LenProperties
    <2>5. node[r] = "new" /\ Proceed(r, g, "load_memory")
          /\ cut' = cut \cup {a \in Run : node[a] \notin {"new", "done"}}
        BY <1>1, <2>1 DEF Start
    <2>6. ASSUME NEW k \in DOMAIN g, Unanswered(g, k) PROVE g[k].run # r /\ g[k].run \in cut'
        <3>1. k \in 1 .. n
            <4>1. k # n + 1
                BY <2>2, <2>3, <2>6, NoCalls
            <4> QED
                BY <2>3, <2>4, <4>1
        <3>2. Unanswered(checkpoint, k)
            <4>1. Len(checkpoint) <= Len(g) /\ \A i \in 1 .. Len(checkpoint) : g[i] = checkpoint[i]
                BY <2>1, <2>3
            <4> QED
                BY <1>a, <2>3, <2>4, <2>6, <3>1, <4>1, ExtendedUnanswered
        <3>3. PICK a : a = checkpoint[k].run
            OBVIOUS
        <3>4. a \in Run
            <4>1. checkpoint[k] \in Message
                BY <1>a, <2>1, <3>1, ElementOfSeq
            <4> QED
                BY <3>3, <4>1 DEF Message
        <3>5. a \in cut \/ node[a] \in Hanging
            BY <2>4, <3>1, <3>2, <3>3 DEF Carried, Left
        <3>6. node[a] # "new" /\ (a \in cut \/ node[a] # "done")
            BY <3>5 DEF Carried, Left, Hanging, Failed
        <3> QED
            BY <2>3, <2>5, <3>1, <3>3, <3>4, <3>6
    <2>7. Lacks(r, g, "load_memory", cut')
        BY <2>6 DEF Lacks
    <2>8. \A a \in cut' : node'[a] # "new"
        <3>1. node'[r] = "load_memory" /\ \A a \in Run \ {r} : node'[a] = node[a]
            BY <2>5 DEF Proceed, TypeOK
        <3>2. cut \subseteq Run /\ \A a \in cut : node[a] # "new"
            BY DEF TypeOK, Carried, Left
        <3> QED
            BY <2>5, <3>1, <3>2
    <2> QED
        BY <1>0, <2>5, <2>7, <2>8
<1>2. ASSUME NEW r \in Run, LoadMemory(r) \/ SaveMemory(r) \/ GuardrailCheck(r) PROVE Carried'
    <2>1. /\ \E next : /\ next # "new" /\ Proceed(r, messages[r], next)
                       /\ node[r] \in Hanging => next \in Hanging
          /\ cut' = cut
        BY <1>2 DEF LoadMemory, SaveMemory, GuardrailCheck, Hanging, Failed
    <2>2. PICK next : /\ next # "new" /\ Proceed(r, messages[r], next)
                      /\ node[r] \in Hanging => next \in Hanging
        BY <2>1
    <2>3. Lacks(r, messages[r], next, cut')
        BY <1>b, <2>1, <2>2 DEF Lacks
    <2> QED
        BY <1>0, <1>d, <2>1, <2>2, <2>3
<1>3. ASSUME NEW r \in Run, PruneMessages(r) PROVE Carried'
    <2>1. PICK h, d : h = messages[r] /\ d = Boundary(messages[r])
        OBVIOUS
    <2>2. PICK g : g = Pruned(h)
        OBVIOUS
    <2>3. Proceed(r, g, "orchestrator_agent") /\ cut' = cut /\ node[r] \notin Hanging
        BY <1>3, <2>1, <2>2 DEF PruneMessages, Hanging, Failed
    <2>4. ASSUME NEW k \in DOMAIN g, Unanswered(g, k) PROVE g[k].run # r /\ g[k].run \in cut
        <3>1. k + d \in DOMAIN h /\ g[k] = h[k + d] /\ Unanswered(h, k + d)
            BY <1>a, <2>1, <2>2, <2>4, PrunedUnanswered
        <3> QED
            BY <1>c, <2>1, <2>3, <3>1
    <2>5. Lacks(r, g, "orchestrator_agent", cut')
        BY <2>3, <2>4 DEF Lacks
    <2> QED
        BY <1>0, <1>d, <2>3, <2>5
<1>4. ASSUME NEW r \in Run, OrchestratorAgent(r) \/ Synthesise(r) PROVE Carried'
    <2>a. PICK list \in CallLists \cup {<<>>} :
              \E next : /\ Proceed(r, Append(messages[r], AI(r, rounds[r] + 1, list)), next)
                        /\ next # "new" /\ (list = <<>> \/ next = "guardrail_check")
        BY <1>4 DEF OrchestratorAgent, Synthesise
    <2>1. PICK next : /\ Proceed(r, Append(messages[r], AI(r, rounds[r] + 1, list)), next)
                      /\ next # "new" /\ (list = <<>> \/ next = "guardrail_check")
        BY <2>a
    <2>2. cut' = cut /\ node[r] \notin Hanging
        BY <1>4 DEF OrchestratorAgent, Synthesise, Hanging, Failed
    <2>3. PICK m, h : m = AI(r, rounds[r] + 1, list) /\ h = messages[r]
        OBVIOUS
    <2>4. PICK g, n : g = Append(h, m) /\ n = Len(h)
        OBVIOUS
    <2>5. m \in Message /\ m.run = r /\ m.calls = list /\ h \in Seq(Message)
        <3>1. rounds[r] + 1 \in 0 .. (MaxRounds + 1)
            BY <1>a
        <3> QED
            BY <1>a, <2>3, <3>1, Constructors, Fields
    <2>6. /\ g \in Seq(Message) /\ n \in Nat /\ Len(g) = n + 1
          /\ \A i \in 1 .. n : g[i] = h[i]
          /\ g[n + 1] = m
        BY <2>4, <2>5, Appended
    <2>7. DOMAIN g = 1 .. (n + 1) /\ DOMAIN h = 1 .. n
        BY <2>4, <2>5, <2>6, LenProperties
    <2>8. ASSUME NEW k \in DOMAIN g, Unanswered(g, k)
          PROVE  IF g[k].run = r THEN k = Len(g) /\ next \in Hanging ELSE g[k].run \in cut
        <3>1. CASE k = n + 1
            <4>1. list # <<>>
                BY <2>5, <2>6, <2>8, <3>1, NoCalls
            <4> QED
                BY <2>1, <2>5, <2>6, <3>1, <4>1 DEF Hanging
        <3>2. CASE k \in 1 .. n
            <4>1. Len(h) <= Len(g) /\ \A i \in 1 .. Len(h) : g[i] = h[i]
                BY <2>4, <2>6
            <4>2. Unanswered(h, k)
                BY <2>5, <2>6, <2>7, <2>8, <3>2, <4>1, ExtendedUnanswered
            <4>3. h[k].run # r /\ h[k].run \in cut
                BY <1>c, <2>2, <2>3, <2>7, <3>2, <4>2
            <4> QED
                BY <2>6, <3>2, <4>3
        <3> QED
            BY <2>6, <2>7, <3>1, <3>2
    <2>9. Lacks(r, g, next, cut') /\ Proceed(r, g, next)
        BY <2>1, <2>2, <2>3, <2>4, <2>8 DEF Lacks
    <2> QED
        BY <1>0, <1>d, <2>1, <2>2, <2>9
<1>5. ASSUME NEW r \in Run, ExecuteTools(r) PROVE Carried'
    <2>1. PICK list \in CallLists :
              /\ messages[r] # <<>> /\ Last(r) = AI(r, rounds[r], list)
              /\ DOMAIN outcome[r] = 1 .. Len(list)
        BY <1>5, LongestCalls, LenProperties DEF ExecuteTools, Calling
    <2>2. PICK h, k : h = messages[r] /\ k = rounds[r]
        OBVIOUS
    <2>3. h \in Seq(Message) /\ h # <<>> /\ k \in 0 .. MaxRounds /\ h[Len(h)] = AI(r, k, list)
        BY <1>a, <2>1, <2>2 DEF Last
    <2>4. PICK g : g = Answered(h, r, k, Len(list))
        OBVIOUS
    <2>5. Proceed(r, g, "prune_messages") /\ cut' = cut
        BY <1>5, <2>1, <2>2, <2>4 DEF ExecuteTools, Answered
    <2>6. ASSUME NEW p \in DOMAIN g, Unanswered(g, p) PROVE g[p].run # r /\ g[p].run \in cut
        <3>1. p \in DOMAIN h /\ p # Len(h) /\ g[p] = h[p] /\ Unanswered(h, p)
            BY <2>3, <2>4, <2>6, AnsweredAll
        <3> QED
            BY <1>c, <2>2, <3>1
    <2>7. Lacks(r, g, "prune_messages", cut')
        BY <2>5, <2>6 DEF Lacks
    <2> QED
        BY <1>0, <1>d, <2>5, <2>7
<1>6. ASSUME NEW r \in Run, GuardrailRaises(r) \/ RunRaises(r) \/ Crash(r) \/ ToolsStop(r)
      PROVE  Carried'
    <2>1. /\ UNCHANGED <<messages, checkpoint, cut>>
          /\ \E how \in Failed : node' = [node EXCEPT ![r] = how]
        BY <1>6 DEF GuardrailRaises, RunRaises, Crash, ToolsStop, Failed
    <2>2. PICK how \in Failed : node' = [node EXCEPT ![r] = how]
        BY <2>1
    <2>3. how \in Hanging /\ how # "new"
        BY DEF Failed, Hanging
    <2>4. \A a \in Run : node'[a] = node[a] \/ node'[a] = how
        BY <2>2 DEF TypeOK
    <2>5. \A a \in Run : /\ node[a] \in Hanging => node'[a] \in Hanging
                         /\ node[a] # "new" => node'[a] # "new"
        BY <2>3, <2>4
    <2>6. ASSUME NEW a \in Run PROVE Lacks(a, messages'[a], node'[a], cut')
        BY <1>b, <2>1, <2>5 DEF Lacks
    <2>7. \A k \in DOMAIN checkpoint : checkpoint[k].run \in Run
        <3> SUFFICES ASSUME NEW k \in DOMAIN checkpoint PROVE checkpoint[k].run \in Run
            OBVIOUS
        <3>1. checkpoint[k] \in Message
            BY <1>a, ElementOfSeq, LenProperties
        <3> QED
            BY <3>1 DEF Message
    <2>8. Left'
        BY <2>1, <2>5, <2>7 DEF Left, Carried, TypeOK
    <2> QED
        BY <2>6, <2>8 DEF Carried
<1>7. CASE UNCHANGED <<messages, checkpoint, node, cut>>
    BY <1>7 DEF Carried, Left, Lacks
<1> QED
    BY <1>1, <1>2, <1>3, <1>4, <1>5, <1>6, <1>7 DEF Next, Step, ToolEnds, vars

\* A run never carries a call of its own without its answers beyond execute_tools, and
\* finds one of another run only where that run had failed or was still on its way when
\* a later one started.
THEOREM LostAnswersNeedCutRun == Spec => []UnansweredNeedsCutRun
<1>1. Init => Carried
    BY EmptySeq DEF Init, Carried, Left, Lacks
<1>2. Carried => UnansweredNeedsCutRun
    BY DEF Carried, Lacks, Hanging, UnansweredNeedsCutRun
<1> QED
    BY <1>1, <1>2, InitTypes, NextTypes, NextCarried, PTL DEF Spec

---------------------------------------------------------------------------
(* CustomerFacts *)

LEMMA NextFactsTypeOK == FactsTypeOK /\ [FactsNext]_factsVars => FactsTypeOK'
<1> SUFFICES ASSUME FactsTypeOK, [FactsNext]_factsVars PROVE FactsTypeOK'
    OBVIOUS
<1> USE DEF FactsTypeOK, Become, Where
<1>1. ASSUME NEW t \in Run, LoadFacts(t) \/ SkipPut(t) \/ LeaveGraph(t) PROVE FactsTypeOK'
    BY <1>1 DEF LoadFacts, SkipPut, LeaveGraph
<1>2. ASSUME NEW t \in Run, ReadFacts(t) PROVE FactsTypeOK'
    BY <1>2 DEF ReadFacts, Saving
<1>3. ASSUME NEW t \in Run, NEW new \in SUBSET Fact, PutFacts(t, new) PROVE FactsTypeOK'
    BY <1>3 DEF PutFacts
<1> QED
    BY <1>1, <1>2, <1>3 DEF FactsNext, factsVars

\* What is kept of a customer's facts has its type, whatever the merges answer.
THEOREM FactsTypeCorrect == FactsSpec => []FactsTypeOK
<1>1. FactsInit => FactsTypeOK
    BY DEF FactsInit, FactsTypeOK, Where
<1> QED
    BY <1>1, NextFactsTypeOK, PTL DEF FactsSpec

\* Runs that are in save_memory at once have crossed; what is stored and was not
\* when one of them read was put by another that was there with it.
SavesCross ==
    /\ \A t, u \in Saving : t # u => <<t, u>> \in crossed
    /\ \A t \in Run : at[t] # "saved" => put[t] = {}
    /\ \A t \in Saving : \A f \in facts \ existing[t] :
           \E u \in Run : at[u] = "saved" /\ f \in put[u] /\ <<u, t>> \in crossed

LEMMA NextSavesCross ==
    FactsTypeOK /\ SavesCross /\ [FactsNext]_factsVars => SavesCross'
<1> SUFFICES ASSUME FactsTypeOK, SavesCross, [FactsNext]_factsVars PROVE SavesCross'
    OBVIOUS
<1> USE DEF Become, Saving
<1>1. ASSUME NEW t \in Run, LoadFacts(t) \/ SkipPut(t) \/ LeaveGraph(t) PROVE SavesCross'
    BY <1>1 DEF LoadFacts, SkipPut, LeaveGraph, SavesCross, FactsTypeOK
<1>2. ASSUME NEW t \in Run, ReadFacts(t) PROVE SavesCross'
    BY <1>2 DEF ReadFacts, SavesCross, FactsTypeOK
<1>3. ASSUME NEW t \in Run, NEW new \in SUBSET Fact, PutFacts(t, new) PROVE SavesCross'
    BY <1>3 DEF PutFacts, SavesCross, FactsTypeOK
<1> QED
    BY <1>1, <1>2, <1>3 DEF FactsNext, factsVars, SavesCross

LEMMA NextLostFact ==
    ASSUME FactsTypeOK, SavesCross, LostFactNeedsOverlap, [FactsNext]_factsVars
    PROVE  LostFactNeedsOverlap'
<1> USE DEF Become
<1>1. ASSUME NEW t \in Run, LoadFacts(t) \/ ReadFacts(t) \/ SkipPut(t) \/ LeaveGraph(t)
      PROVE  LostFactNeedsOverlap'
    <2>1. UNCHANGED <<facts, put, dropped>> /\ crossed \subseteq crossed'
        BY <1>1 DEF LoadFacts, ReadFacts, SkipPut, LeaveGraph
    <2>2. \A u \in Run : at[u] = "saved" => at'[u] = "saved"
        BY <1>1 DEF LoadFacts, ReadFacts, SkipPut, LeaveGraph, FactsTypeOK
    <2> QED
        BY <2>1, <2>2 DEF LostFactNeedsOverlap, Overwritten
<1>2. ASSUME NEW t \in Run, NEW new \in SUBSET Fact, PutFacts(t, new)
      PROVE  LostFactNeedsOverlap'
    <2>1. /\ facts' = new /\ dropped' = (dropped \cup existing[t]) \ new /\ crossed' = crossed
          /\ at'[t] = "saved" /\ put'[t] = new /\ t \in Saving
          /\ \A u \in Run : u # t => at'[u] = at[u] /\ put'[u] = put[u]
        BY <1>2 DEF PutFacts, Saving, FactsTypeOK
    <2>2. \A f : Overwritten(f) => Overwritten(f)'
        BY <2>1 DEF Overwritten, Saving
    <2> SUFFICES ASSUME NEW u \in Run, NEW f \in put'[u] \ facts'
                 PROVE  f \in dropped' \/ Overwritten(f)'
        BY DEF LostFactNeedsOverlap
    <2>3. f \in put[u] /\ f \notin new /\ u # t
        BY <2>1
    <2>4. CASE f \in existing[t]
        BY <2>1, <2>3, <2>4
    <2>5. CASE f \notin facts
        BY <2>1, <2>2, <2>3, <2>5 DEF LostFactNeedsOverlap
    <2>6. CASE f \in facts \ existing[t]
        <3>1. PICK w \in Run : at[w] = "saved" /\ f \in put[w] /\ <<w, t>> \in crossed
            BY <2>1, <2>6 DEF SavesCross
        <3>2. w # t
            BY <2>1, <3>1 DEF Saving
        <3> QED
            BY <2>1, <2>3, <3>1, <3>2 DEF Overwritten
    <2> QED
        BY <2>4, <2>5, <2>6
<1>3. CASE UNCHANGED factsVars
    BY <1>3 DEF factsVars, LostFactNeedsOverlap, Overwritten
<1> QED
    BY <1>1, <1>2, <1>3 DEF FactsNext

\* A fact of a customer that was stored and is gone was left out by a merge that
\* had been shown it, or is the lost update of two runs in save_memory at once
\* (graph.py:78-105), for any number of conversations.
THEOREM FactsAreLostOnlyByOverlap == FactsSpec => []LostFactNeedsOverlap
<1>1. FactsInit => FactsTypeOK /\ SavesCross /\ LostFactNeedsOverlap
    BY DEF FactsInit, FactsTypeOK, Where, SavesCross, Saving, LostFactNeedsOverlap
<1> QED
    BY <1>1, NextFactsTypeOK, NextSavesCross, NextLostFact, PTL DEF FactsSpec

---------------------------------------------------------------------------
(* The graph with its memory *)

LEMMA MemoryStep ==
    [MemoryNext]_memoryVars => [Next]_vars /\ [FactsNext]_factsVars
<1> SUFFICES ASSUME [MemoryNext]_memoryVars PROVE [Next]_vars /\ [FactsNext]_factsVars
    OBVIOUS
<1>1. ASSUME NEW t \in Run, LoadMemory(t) /\ LoadFacts(t)
      PROVE  Next /\ FactsNext
    BY <1>1 DEF Next, Step, FactsNext
<1>2. ASSUME NEW t \in Run, Remember(t) PROVE UNCHANGED vars /\ FactsNext
    BY <1>2 DEF Remember, FactsNext
<1>3. ASSUME NEW t \in Run, SaveMemory(t), UNCHANGED factsVars
      PROVE  Next /\ UNCHANGED factsVars
    BY <1>3 DEF Next, Step
<1>4. ASSUME NEW t \in Run, Abandon(t),
             GuardrailRaises(t) \/ ToolsStop(t) \/ RunRaises(t) \/ Crash(t)
      PROVE  Next /\ [FactsNext]_factsVars
    BY <1>4 DEF Next, Step, Abandon, FactsNext
<1>5. ASSUME NEW t \in Run, UNCHANGED factsVars,
             \/ Start(t) \/ PruneMessages(t) \/ OrchestratorAgent(t)
             \/ GuardrailCheck(t) \/ ExecuteTools(t) \/ Synthesise(t)
             \/ \E j \in DOMAIN outcome[t], how \in {"answered", "raised", "interrupted"} :
                   ToolEnds(t, j, how)
      PROVE  Next /\ UNCHANGED factsVars
    BY <1>5 DEF Next, Step
<1>6. CASE UNCHANGED memoryVars
    BY <1>6 DEF memoryVars
<1> QED
    BY <1>1, <1>2, <1>3, <1>4, <1>5, <1>6 DEF MemoryNext

\* The graph with its memory does to the messages of a thread what the graph
\* does, and to the customer's facts what its first and last node do.
THEOREM MemoryImplementsParts == MemorySpec => Spec /\ FactsSpec
<1> QED
    BY MemoryStep, PTL DEF MemorySpec, MemoryInit, Spec, FactsSpec

\* So what is proved of each holds of both together.
COROLLARY GraphWithMemory ==
    MemorySpec => [](/\ NoOrphanAnswer /\ UnansweredNeedsCutRun
                    /\ QuestionLostByLongTurn /\ RiskyOnlyBehindAnother
                    /\ LostFactNeedsOverlap)
<1> QED
    BY MemoryImplementsParts, AnswersStandBehindCalls, LostAnswersNeedCutRun,
       QuestionLostOnlyByLongTurn, RiskyNeedsCompany, FactsAreLostOnlyByOverlap, PTL
=============================================================================
