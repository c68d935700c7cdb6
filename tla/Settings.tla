----------------------------- MODULE Settings -----------------------------
(***************************************************************************)
(* What a workspace's admins configure and a chat turn then reads:         *)
(* integrations of one domain (backend/services/settings_service.py),      *)
(* provider keys (provider_service.py) and the agent configuration         *)
(* (agent_service.py), with their routers.                                 *)
(*                                                                         *)
(* A request reads rows, may await a verifier, and commits once.  The ORM  *)
(* writes only the columns whose value differs from the one it read, and   *)
(* raises if a row it updates is gone or a row it inserts is there: the    *)
(* request then changes nothing.  Up to one request per slot is under way. *)
(***************************************************************************)
EXTENDS Integers, FiniteSets

CONSTANTS
    Integration,    \* integrations of the domain that may be created
    Provider,       \* providers that need a key
    DefaultProvider,\* "anthropic"
    Agent, Model,   \* agents that can be customised, and a custom value
    Secret,         \* what a configuration or a key may hold
    Slot,           \* concurrent requests
    MaxRequests,    \* bound on the requests of a behaviour
    None,           \* no row; NULL; a field the request leaves out
    Gone            \* an integration that was deleted

ASSUME SettingsAssumption ==
    /\ DefaultProvider \in Provider
    /\ Integration \cap Provider = {} /\ Agent \cap (Integration \cup Provider) = {}
    /\ MaxRequests \in Nat
    /\ None # Gone /\ {None, Gone} \cap (Secret \cup Model) = {}

VARIABLES
    integration,    \* workspace_integrations
    key,            \* workspace_provider_keys
    config,         \* workspace_agent_config: active_provider and one custom_* column
    req,            \* the request in each slot
    begun,          \* how many requests there were
    checked,        \* history: what a verifier accepted
    crossed,        \* history: what contending requests under way together were about
    chosen          \* history: providers made active otherwise than with a key

tables  == <<integration, key, config>>
history == <<checked, crossed, chosen>>
vars == <<tables, req, begun, history>>

IntegrationRow == [secret : Secret, primary : BOOLEAN,
                   status : {"pending", "active", "failed"}]
KeyRow    == [secret : Secret, verified : BOOLEAN, id : 1..MaxRequests]
Column    == UNION {[S -> Model] : S \in (SUBSET Agent) \ {{}}}
ConfigRow == [provider : Provider, custom : Column \cup {None}]

\* A row that is there is told apart from one that is not.
ASSUME RowsAssumption == None \notin KeyRow \cup ConfigRow

Idle == [op |-> "idle"]
Target == Integration \cup Provider \cup Agent
Seen == IntegrationRow \cup KeyRow \cup ConfigRow \cup {None}
Request ==
    {Idle} \cup
    [op : {"create", "update", "verify", "putKey", "dropKey", "verifyKey", "patch", "get"},
     at : {"read", "loaded", "ready", "seed"}, on : Target,
     new : Secret \cup Model \cup {None}, promote : BOOLEAN,
     seen : Seen, others : SUBSET Integration, cfg : ConfigRow \cup {None}]

TypeOK ==
    /\ integration \in [Integration -> IntegrationRow \cup {None, Gone}]
    /\ key \in [Provider -> KeyRow \cup {None}]
    /\ config \in ConfigRow \cup {None}
    /\ req \in [Slot -> Request]
    /\ begun \in 0..MaxRequests
    /\ checked \subseteq (Integration \cup Provider) \X Secret
    /\ crossed \subseteq SUBSET Target
    /\ chosen \subseteq Provider

Init ==
    /\ integration = [i \in Integration |-> None]
    /\ key = [p \in Provider |-> None]
    /\ config = None
    /\ req = [s \in Slot |-> Idle]
    /\ begun = 0
    /\ checked = {} /\ crossed = {} /\ chosen = {}

---------------------------------------------------------------------------
(* What the ORM writes, and what a request holds *)

\* The row after a flush: only columns that differ from what was read.
Flush(row, seen, new) ==
    [f \in DOMAIN row |-> IF new[f] # seen[f] THEN new[f] ELSE row[f]]

Live(i)   == integration[i] \notin {None, Gone}
Primaries == {i \in Integration : Live(i) /\ integration[i].primary}

\* _get_active_connector hands the first of these to the action agent.
Connectors == {i \in Primaries : integration[i].status = "active"}

\* build_agent_config: the key of the active provider, verified or not.
KeyForRun == IF config = None THEN None ELSE key[config.provider]

\* Two requests contend if they are about the same thing, or both look for
\* the primaries of the domain in order to demote them.
Contend(r, q) ==
    /\ q # Idle
    /\ (r.on = q.on) \/ (r.promote /\ q.promote)

Begin(s, r) ==
    /\ req[s] = Idle
    /\ begun < MaxRequests
    /\ begun' = begun + 1
    /\ req' = [req EXCEPT ![s] = r]
    /\ crossed' = crossed \cup {{r.on, req[t].on} : t \in {t \in Slot : Contend(r, req[t])}}

Asks(op, x) ==
    [op |-> op, at |-> "ready", on |-> x, new |-> None, promote |-> FALSE,
     seen |-> None, others |-> {}, cfg |-> None]

Ready(s, op, at) == req[s] # Idle /\ req[s].op = op /\ req[s].at = at
End(s)   == req' = [req EXCEPT ![s] = Idle]
Fail(s)  == End(s) /\ UNCHANGED <<tables, begun, history>>

---------------------------------------------------------------------------
(* Integrations *)

\* Mutant: the new primary integration does not displace the old one.
NoneDemoted(set) == integration

\* What remains of the primaries a request has read.
Demoted(set) ==
    [j \in Integration |-> IF j \in set /\ Live(j) THEN [integration[j] EXCEPT !.primary = FALSE]
                           ELSE integration[j]]

\* Rows of which only the primary flag is written go into one batched UPDATE, which
\* does not report that one of them was deleted meanwhile; one row alone does.
Batched(rows) == Cardinality(rows) > 1

\* POST: the new integration takes the place of the primary ones read.
BeginCreate(s, i, c) ==
    /\ integration[i] = None
    /\ \A t \in Slot : req[t] # Idle => req[t].on # i
    /\ Begin(s, [Asks("create", i) EXCEPT !.new = c, !.promote = TRUE, !.others = Primaries])
    /\ UNCHANGED <<tables, checked, chosen>>

CommitCreate(s) ==
    LET r == req[s] IN
    /\ Ready(s, "create", "ready")
    /\ \/ /\ (\A j \in r.others : Live(j)) \/ Batched(r.others)
          /\ integration' = [Demoted(r.others) EXCEPT
                ![r.on] = [secret |-> r.new, primary |-> TRUE, status |-> "pending"]]
          /\ End(s)
          /\ UNCHANGED <<key, config, begun, history>>
       \/ ~(\A j \in r.others : Live(j)) /\ Fail(s)

\* PATCH: a new configuration, or being primary, or both.
BeginUpdate(s, i, c, promote) ==
    /\ Live(i)
    /\ Begin(s, [Asks("update", i) EXCEPT !.new = c, !.promote = promote,
                    !.at = IF promote THEN "read" ELSE "ready", !.seen = integration[i]])
    /\ UNCHANGED <<tables, checked, chosen>>

ReadPrimaries(s) ==
    /\ Ready(s, "update", "read")
    /\ req' = [req EXCEPT ![s].at = "ready", ![s].others = Primaries \ {req[s].on}]
    /\ UNCHANGED <<tables, begun, history>>

\* Mutant: a new configuration keeps the status of the old one.
KeepStatus(s) ==
    LET r == req[s] IN
    [r.seen EXCEPT !.primary = @ \/ r.promote]

\* What the update makes of the row it has read (the encrypted configuration
\* is different each time, so it is always written).
Edited(s) ==
    LET r == req[s] IN
    [r.seen EXCEPT !.status = IF r.new = None THEN @ ELSE "pending",
                   !.primary = @ \/ r.promote]

CommitUpdate(s) ==
    LET r == req[s]
        row == Flush(integration[r.on], r.seen, Edited(s))
        flagged == r.others \cup
                       (IF r.new = None /\ r.promote /\ ~r.seen.primary THEN {r.on} ELSE {})
        written == flagged \cup (IF r.new # None THEN {r.on} ELSE {})
        gone == {j \in written : ~Live(j)} IN
    /\ Ready(s, "update", "ready")
    /\ \/ /\ gone = {} \/ (Batched(flagged) /\ gone \subseteq flagged)
          /\ integration' = [Demoted(r.others) EXCEPT
                ![r.on] = IF Live(r.on)
                          THEN [row EXCEPT !.secret = IF r.new = None THEN @ ELSE r.new]
                          ELSE @]
          /\ End(s)
          /\ UNCHANGED <<key, config, begun, history>>
       \/ gone # {} /\ Fail(s)

DeleteIntegration(i) ==
    /\ Live(i)
    /\ begun < MaxRequests
    /\ begun' = begun + 1
    /\ integration' = [integration EXCEPT ![i] = Gone]
    /\ UNCHANGED <<key, config, req, history>>

\* VERIFIERS: the external system accepts the credentials or not; a request that
\* fails and a configuration that cannot be decrypted count as refused.
Verdicts == BOOLEAN

BeginVerify(s, i) ==
    /\ Live(i)
    /\ Begin(s, [Asks("verify", i) EXCEPT !.seen = integration[i]])
    /\ UNCHANGED <<tables, checked, chosen>>

\* The verifier has answered; the status is that of the row read before.
FinishVerify(s, ok) ==
    LET r == req[s]
        done == [r.seen EXCEPT !.status = IF ok THEN "active" ELSE "failed"] IN
    /\ Ready(s, "verify", "ready")
    /\ checked' = IF ok THEN checked \cup {<<r.on, r.seen.secret>>} ELSE checked
    /\ integration' = IF Live(r.on)
                      THEN [integration EXCEPT ![r.on] = Flush(@, r.seen, done)]
                      ELSE integration
    /\ End(s)
    /\ UNCHANGED <<key, config, begun, crossed, chosen>>

---------------------------------------------------------------------------
(* Provider keys *)

\* PUT: reads the key's row, then the configuration, and commits both.
BeginPutKey(s, p, k) ==
    /\ Begin(s, [Asks("putKey", p) EXCEPT !.new = k, !.at = "read", !.seen = key[p]])
    /\ UNCHANGED <<tables, checked, chosen>>

ReadConfig(s) ==
    /\ Ready(s, "putKey", "read")
    /\ req' = [req EXCEPT ![s].at = "ready", ![s].cfg = config]
    /\ UNCHANGED <<tables, begun, history>>

\* An insert needs the row to be absent still, an update the row it has read.
SameRow(p, seen) ==
    IF seen = None THEN key[p] = None ELSE key[p] # None /\ key[p].id = seen.id

PutKey(s) ==
    LET r == req[s]
        keyFits == SameRow(r.on, r.seen)
        cfgFits == r.cfg = None => config = None IN
    /\ Ready(s, "putKey", "ready")
    /\ \/ /\ keyFits /\ cfgFits
          /\ key' = [key EXCEPT ![r.on] =
                IF r.seen = None THEN [secret |-> r.new, verified |-> FALSE, id |-> begun]
                ELSE [Flush(@, r.seen, [r.seen EXCEPT !.verified = FALSE])
                        EXCEPT !.secret = r.new]]
          /\ config' = IF r.cfg = None THEN [provider |-> r.on, custom |-> None]
                       ELSE Flush(config, r.cfg, [r.cfg EXCEPT !.provider = r.on])
          /\ chosen' = chosen \ {r.on}
          /\ End(s)
          /\ UNCHANGED <<integration, begun, checked, crossed>>
       \/ ~(keyFits /\ cfgFits) /\ Fail(s)

\* Mutant: the key of the active provider can be deleted.
DropAnyKey(s, p) ==
    /\ Begin(s, Asks("dropKey", p))
    /\ UNCHANGED <<tables, checked, chosen>>

\* DELETE: 409 for the active provider, looked at once.
BeginDropKey(s, p) ==
    /\ config # None => config.provider # p
    /\ Begin(s, Asks("dropKey", p))
    /\ UNCHANGED <<tables, checked, chosen>>

\* The key's row is read and deleted.
DropKey(s) ==
    /\ Ready(s, "dropKey", "ready")
    /\ key' = [key EXCEPT ![req[s].on] = None]
    /\ End(s)
    /\ UNCHANGED <<integration, config, begun, history>>

BeginVerifyKey(s, p) ==
    /\ key[p] # None
    /\ Begin(s, [Asks("verifyKey", p) EXCEPT !.seen = key[p]])
    /\ UNCHANGED <<tables, checked, chosen>>

\* The model answers: the row is marked verified, whatever key it holds now.
KeyAccepted(s) ==
    LET r == req[s] IN
    /\ Ready(s, "verifyKey", "ready")
    /\ checked' = checked \cup {<<r.on, r.seen.secret>>}
    /\ key' = IF SameRow(r.on, r.seen)
              THEN [key EXCEPT ![r.on] = Flush(@, r.seen, [r.seen EXCEPT !.verified = TRUE])]
              ELSE key
    /\ End(s)
    /\ UNCHANGED <<integration, config, begun, crossed, chosen>>

KeyRefused(s) == Ready(s, "verifyKey", "ready") /\ Fail(s)

---------------------------------------------------------------------------
(* Agent configuration *)

\* GET and PATCH insert the default configuration if they find none.
BeginGet(s) ==
    /\ config = None
    /\ Begin(s, [Asks("get", DefaultProvider) EXCEPT !.at = "seed"])
    /\ UNCHANGED <<tables, checked, chosen>>

\* PATCH /agents/global with a provider, or PATCH /agents/{agent}.
BeginPatch(s, x, m) ==
    /\ Begin(s, [Asks("patch", x) EXCEPT !.new = m, !.at = IF config = None THEN "seed" ELSE "read"])
    /\ UNCHANGED <<tables, checked, chosen>>

Seed(s) ==
    LET r == req[s] IN
    /\ r # Idle /\ r.at = "seed"
    /\ \/ /\ config = None
          /\ config' = [provider |-> DefaultProvider, custom |-> None]
          /\ chosen' = chosen \cup {DefaultProvider}
          /\ req' = [req EXCEPT ![s] = IF r.op = "get" THEN Idle ELSE [r EXCEPT !.at = "read"]]
          /\ UNCHANGED <<integration, key, begun, checked, crossed>>
       \/ config # None /\ Fail(s)

LoadConfig(s) ==
    /\ Ready(s, "patch", "read")
    /\ req' = [req EXCEPT ![s].at = "ready", ![s].cfg = config]
    /\ UNCHANGED <<tables, begun, history>>

\* _update_jsonb puts the value into the dict it has read and assigns a copy
\* that is equal to it: only a column that was NULL is written.
Customised(column, agent, model) ==
    IF column = None THEN [a \in {agent} |-> model] ELSE column

CommitPatch(s) ==
    LET r == req[s]
        new == IF r.on \in Provider THEN [r.cfg EXCEPT !.provider = r.on]
               ELSE [r.cfg EXCEPT !.custom = Customised(@, r.on, r.new)] IN
    /\ Ready(s, "patch", "ready")
    /\ config' = Flush(config, r.cfg, new)
    /\ chosen' = IF r.on \in Provider THEN chosen \cup {r.on} ELSE chosen
    /\ End(s)
    /\ UNCHANGED <<integration, key, begun, checked, crossed>>

---------------------------------------------------------------------------
Next ==
    \/ \E i \in Integration : DeleteIntegration(i)
    \/ \E s \in Slot :
        \/ \E i \in Integration, c \in Secret : BeginCreate(s, i, c)
        \/ \E i \in Integration, c \in Secret \cup {None}, b \in BOOLEAN : BeginUpdate(s, i, c, b)
        \/ \E i \in Integration : BeginVerify(s, i)
        \/ \E ok \in Verdicts : FinishVerify(s, ok)
        \/ \E p \in Provider, k \in Secret : BeginPutKey(s, p, k)
        \/ \E p \in Provider : BeginDropKey(s, p) \/ BeginVerifyKey(s, p) \/ BeginPatch(s, p, None)
        \/ \E a \in Agent, m \in Model : BeginPatch(s, a, m)
        \/ BeginGet(s)
        \/ CommitCreate(s) \/ ReadPrimaries(s) \/ CommitUpdate(s)
        \/ ReadConfig(s) \/ PutKey(s) \/ DropKey(s) \/ KeyAccepted(s) \/ KeyRefused(s)
        \/ Seed(s) \/ LoadConfig(s) \/ CommitPatch(s)

Spec == Init /\ [][Next]_vars

---------------------------------------------------------------------------
(* Properties *)

\* A domain has two primary integrations only if both were made primary by
\* requests under way at the same time: otherwise the connector a chat turn
\* gets does not depend on the order in which the database returns rows.
TwoPrimariesNeedOverlap ==
    \A i, j \in Primaries : i # j => {i, j} \in crossed

\* What is shown as active or verified, and so what chat turns may use, holds
\* exactly what a verifier accepted, unless two requests about it overlapped.
VerifiedMeansChecked ==
    /\ \A i \in Integration : Live(i) /\ integration[i].status = "active" =>
        <<i, integration[i].secret>> \in checked \/ {i} \in crossed
    /\ \A p \in Provider : key[p] # None /\ key[p].verified =>
        <<p, key[p].secret>> \in checked \/ {p} \in crossed

\* Deleting keys leaves the active provider without one only if the deletion
\* overlapped the request that made the provider active (a provider chosen in
\* the agent settings, or the default one, may never have had a key).
ActiveKeyKept ==
    config # None /\ KeyForRun = None =>
        config.provider \in chosen \/ {config.provider} \in crossed
===========================================================================
