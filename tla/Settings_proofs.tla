-------------------------- MODULE Settings_proofs --------------------------
(***************************************************************************)
(* Proofs about Settings, for any number of integrations, providers,       *)
(* agents, secrets and concurrent requests.                                *)
(***************************************************************************)
EXTENDS Settings, TLAPS

---------------------------------------------------------------------------
(* What a flush makes of a row *)

LEMMA FlushIntegration ==
    ASSUME NEW row \in IntegrationRow, NEW seen \in IntegrationRow, NEW new \in IntegrationRow
    PROVE  /\ Flush(row, seen, new) \in IntegrationRow
           /\ Flush(row, seen, new).secret = IF new.secret # seen.secret THEN new.secret ELSE row.secret
           /\ Flush(row, seen, new).status = IF new.status # seen.status THEN new.status ELSE row.status
           /\ Flush(row, seen, new).primary = IF new.primary # seen.primary THEN new.primary ELSE row.primary
BY DEF Flush, IntegrationRow

LEMMA FlushKey ==
    ASSUME NEW row \in KeyRow, NEW seen \in KeyRow, NEW new \in KeyRow
    PROVE  /\ Flush(row, seen, new) \in KeyRow
           /\ Flush(row, seen, new).secret = IF new.secret # seen.secret THEN new.secret ELSE row.secret
           /\ Flush(row, seen, new).verified = IF new.verified # seen.verified THEN new.verified ELSE row.verified
           /\ Flush(row, seen, new).id = IF new.id # seen.id THEN new.id ELSE row.id
BY DEF Flush, KeyRow

LEMMA FlushConfig ==
    ASSUME NEW row \in ConfigRow, NEW seen \in ConfigRow, NEW new \in ConfigRow
    PROVE  /\ Flush(row, seen, new) \in ConfigRow
           /\ Flush(row, seen, new).provider = IF new.provider # seen.provider THEN new.provider ELSE row.provider
BY DEF Flush, ConfigRow

---------------------------------------------------------------------------
(* Types *)

\* What a request of each kind is about and has read; and a request that has
\* found the configuration finds it there for good.
Shape(r) ==
    r # Idle =>
        /\ begun >= 1
        /\ r.promote => r.op \in {"create", "update"}
        /\ r.op = "create" => r.on \in Integration /\ r.new \in Secret /\ r.promote
        /\ r.op \in {"update", "verify"} => r.on \in Integration /\ r.seen \in IntegrationRow
        /\ r.op = "update" => r.new \in Secret \cup {None}
        /\ r.op = "putKey" => r.on \in Provider /\ r.new \in Secret /\ r.seen \in KeyRow \cup {None}
        /\ r.op = "dropKey" => r.on \in Provider
        /\ r.op = "verifyKey" => r.on \in Provider /\ r.seen \in KeyRow
        /\ r.op = "patch" => r.on \in Provider \/ (r.on \in Agent /\ r.new \in Model)
        /\ r.op = "patch" /\ r.at # "seed" => config # None
        /\ r.op = "patch" /\ r.at = "ready" => r.cfg # None
        /\ r.cfg # None => config # None
        /\ r.at = "seed" => r.op \in {"get", "patch"}

Shapes == \A s \in Slot : Shape(req[s])

LEMMA InitTypes == Init => TypeOK /\ Shapes
BY SettingsAssumption DEF Init, TypeOK, Shapes, Shape, Request

LEMMA AsksType ==
    ASSUME NEW op \in {"create", "update", "verify", "putKey", "dropKey", "verifyKey", "patch", "get"},
           NEW x \in Target
    PROVE  Asks(op, x) \in Request \ {Idle}
BY DEF Asks, Request, Idle, Seen

LEMMA BeginTypes ==
    ASSUME TypeOK, Shapes, NEW s \in Slot, NEW r \in Request \ {Idle}, Begin(s, r),
           UNCHANGED <<tables, checked, chosen>>, Shape(r)'
    PROVE  TypeOK' /\ Shapes'
<1>1. begun' \in 1..MaxRequests /\ begun' > begun
    BY SettingsAssumption DEF Begin, TypeOK
<1>2. r.on \in Target
    BY DEF Request
<1>3. \A t \in Slot : Contend(r, req[t]) => req[t].on \in Target
    BY DEF Contend, TypeOK, Request
<1>4. crossed' \subseteq SUBSET Target
    BY <1>2, <1>3 DEF Begin, TypeOK
<1>5. req' \in [Slot -> Request]
    BY DEF Begin, TypeOK
<1>6. TypeOK'
    BY <1>1, <1>4, <1>5 DEF TypeOK, tables
<1>7. ASSUME NEW t \in Slot PROVE Shape(req[t])'
    <2>1. CASE t = s
        BY <2>1 DEF Begin, TypeOK
    <2>2. CASE t # s
        <3>1. req'[t] = req[t] /\ Shape(req[t])
            BY <2>2 DEF Begin, TypeOK, Shapes
        <3> QED
            BY <1>1, <3>1 DEF Shape, tables, TypeOK
    <2> QED
        BY <2>1, <2>2
<1> QED
    BY <1>6, <1>7 DEF Shapes

\* A request goes on, or ends, and writes what it may.
LEMMA StepTypes ==
    ASSUME TypeOK, Shapes, NEW s \in Slot, NEW r \in Request, req' = [req EXCEPT ![s] = r],
           integration' \in [Integration -> IntegrationRow \cup {None, Gone}],
           key' \in [Provider -> KeyRow \cup {None}],
           config' \in ConfigRow \cup {None}, config # None => config' # None,
           checked' \subseteq (Integration \cup Provider) \X Secret, chosen' \subseteq Provider,
           UNCHANGED <<begun, crossed>>, Shape(r)'
    PROVE  TypeOK' /\ Shapes'
<1>1. req' \in [Slot -> Request]
    BY DEF TypeOK
<1>2. TypeOK'
    BY <1>1 DEF TypeOK
<1>3. ASSUME NEW t \in Slot PROVE Shape(req[t])'
    <2>1. CASE t = s
        BY <2>1 DEF TypeOK
    <2>2. CASE t # s
        <3>1. req'[t] = req[t] /\ Shape(req[t])
            BY <2>2 DEF TypeOK, Shapes
        <3> QED
            BY <3>1 DEF Shape
    <2> QED
        BY <2>1, <2>2
<1> QED
    BY <1>2, <1>3 DEF Shapes

LEMMA BeginnersTypes ==
    ASSUME TypeOK, Shapes, NEW s \in Slot,
           \/ \E i \in Integration, c \in Secret : BeginCreate(s, i, c)
           \/ \E i \in Integration, c \in Secret \cup {None}, b \in BOOLEAN : BeginUpdate(s, i, c, b)
           \/ \E i \in Integration : BeginVerify(s, i)
           \/ \E p \in Provider, k \in Secret : BeginPutKey(s, p, k)
           \/ \E p \in Provider : BeginDropKey(s, p) \/ BeginVerifyKey(s, p) \/ BeginPatch(s, p, None)
           \/ \E a \in Agent, m \in Model : BeginPatch(s, a, m)
           \/ BeginGet(s)
    PROVE  TypeOK' /\ Shapes'
<1>0. (\E r : Begin(s, r)) /\ UNCHANGED <<tables, checked, chosen>>
    BY DEF BeginCreate, BeginUpdate, BeginVerify, BeginPutKey, BeginDropKey, BeginVerifyKey,
       BeginPatch, BeginGet
<1>a. begun' >= 1 /\ config' = config
    BY <1>0 DEF Begin, TypeOK, tables
<1>1. ASSUME NEW i \in Integration, NEW c \in Secret, BeginCreate(s, i, c) PROVE TypeOK' /\ Shapes'
    <2>r. PICK r : r = [Asks("create", i) EXCEPT !.new = c, !.promote = TRUE, !.others = Primaries]
        OBVIOUS
    <2>1. r \in Request \ {Idle}
        BY <2>r, <1>a, SettingsAssumption DEF Asks, Request, Idle, Seen, Target, Primaries
    <2>s. Shape(r)'
        BY <2>r, <1>a, SettingsAssumption DEF Asks, Shape
    <2> QED
        BY <1>0, <1>1, <2>r, <2>1, <2>s, BeginTypes DEF BeginCreate
<1>2. ASSUME NEW i \in Integration, NEW c \in Secret \cup {None}, NEW b \in BOOLEAN,
             BeginUpdate(s, i, c, b)
      PROVE  TypeOK' /\ Shapes'
    <2>r. PICK r : r = [Asks("update", i) EXCEPT !.new = c, !.promote = b,
                         !.at = IF b THEN "read" ELSE "ready", !.seen = integration[i]]
        OBVIOUS
    <2>1. integration[i] \in IntegrationRow
        BY <1>2 DEF BeginUpdate, Live, TypeOK
    <2>2. r \in Request \ {Idle}
        BY <2>r, <1>a, <2>1, SettingsAssumption DEF Asks, Request, Idle, Seen, Target
    <2>s. Shape(r)'
        BY <2>r, <1>a, <2>1, SettingsAssumption DEF Asks, Shape
    <2> QED
        BY <1>0, <1>2, <2>r, <2>2, <2>s, BeginTypes DEF BeginUpdate
<1>3. ASSUME NEW i \in Integration, BeginVerify(s, i) PROVE TypeOK' /\ Shapes'
    <2>r. PICK r : r = [Asks("verify", i) EXCEPT !.seen = integration[i]]
        OBVIOUS
    <2>1. integration[i] \in IntegrationRow
        BY <1>3 DEF BeginVerify, Live, TypeOK
    <2>2. r \in Request \ {Idle}
        BY <2>r, <1>a, <2>1, SettingsAssumption DEF Asks, Request, Idle, Seen, Target
    <2>s. Shape(r)'
        BY <2>r, <1>a, <2>1, SettingsAssumption DEF Asks, Shape
    <2> QED
        BY <1>0, <1>3, <2>r, <2>2, <2>s, BeginTypes DEF BeginVerify
<1>4. ASSUME NEW p \in Provider, NEW k \in Secret, BeginPutKey(s, p, k) PROVE TypeOK' /\ Shapes'
    <2>r. PICK r : r = [Asks("putKey", p) EXCEPT !.new = k, !.at = "read", !.seen = key[p]]
        OBVIOUS
    <2>1. key[p] \in KeyRow \cup {None}
        BY DEF TypeOK
    <2>2. r \in Request \ {Idle}
        BY <2>r, <1>a, <2>1, SettingsAssumption DEF Asks, Request, Idle, Seen, Target
    <2>s. Shape(r)'
        BY <2>r, <1>a, <2>1, SettingsAssumption DEF Asks, Shape
    <2> QED
        BY <1>0, <1>4, <2>r, <2>2, <2>s, BeginTypes DEF BeginPutKey
<1>5. ASSUME NEW p \in Provider, BeginDropKey(s, p) PROVE TypeOK' /\ Shapes'
    <2>1. Asks("dropKey", p) \in Request \ {Idle} /\ Shape(Asks("dropKey", p))'
        BY <1>a, SettingsAssumption DEF Asks, Request, Idle, Seen, Target, Shape
    <2> QED
        BY <1>0, <1>5, <2>1, BeginTypes DEF BeginDropKey
<1>6. ASSUME NEW p \in Provider, BeginVerifyKey(s, p) PROVE TypeOK' /\ Shapes'
    <2>r. PICK r : r = [Asks("verifyKey", p) EXCEPT !.seen = key[p]]
        OBVIOUS
    <2>1. key[p] \in KeyRow
        BY <1>6 DEF BeginVerifyKey, TypeOK
    <2>2. r \in Request \ {Idle}
        BY <2>r, <1>a, <2>1, SettingsAssumption DEF Asks, Request, Idle, Seen, Target
    <2>s. Shape(r)'
        BY <2>r, <1>a, <2>1, SettingsAssumption DEF Asks, Shape
    <2> QED
        BY <1>0, <1>6, <2>r, <2>2, <2>s, BeginTypes DEF BeginVerifyKey
<1>7. ASSUME NEW x \in Provider \cup Agent, NEW m \in Model \cup {None}, BeginPatch(s, x, m),
             x \in Provider \/ m \in Model
      PROVE  TypeOK' /\ Shapes'
    <2>r. PICK r : r = [Asks("patch", x) EXCEPT !.new = m,
                         !.at = IF config = None THEN "seed" ELSE "read"]
        OBVIOUS
    <2>1. r \in Request \ {Idle}
        BY <2>r, <1>a, <1>7, SettingsAssumption DEF Asks, Request, Idle, Seen, Target
    <2>s. Shape(r)'
        BY <2>r, <1>a, <1>7, SettingsAssumption DEF Asks, Shape
    <2> QED
        BY <1>0, <1>7, <2>r, <2>1, <2>s, BeginTypes DEF BeginPatch
<1>8. ASSUME BeginGet(s) PROVE TypeOK' /\ Shapes'
    <2>r. PICK r : r = [Asks("get", DefaultProvider) EXCEPT !.at = "seed"]
        OBVIOUS
    <2>1. r \in Request \ {Idle}
        BY <2>r, <1>a, SettingsAssumption DEF Asks, Request, Idle, Seen, Target
    <2>s. Shape(r)'
        BY <2>r, <1>a, SettingsAssumption DEF Asks, Shape
    <2> QED
        BY <1>0, <1>8, <2>r, <2>1, <2>s, BeginTypes DEF BeginGet
<1> QED
    BY <1>1, <1>2, <1>3, <1>4, <1>5, <1>6, <1>7, <1>8

\* Demoting touches nothing but the primary flag.
LEMMA DemotedRows ==
    ASSUME TypeOK, NEW set \in SUBSET Integration
    PROVE  /\ Demoted(set) \in [Integration -> IntegrationRow \cup {None, Gone}]
           /\ \A j \in Integration : j \notin set \/ ~Live(j) => Demoted(set)[j] = integration[j]
           /\ \A j \in set : Live(j) =>
                             /\ integration[j] \in IntegrationRow
                             /\ Demoted(set)[j] \in IntegrationRow
                             /\ Demoted(set)[j].secret = integration[j].secret
                             /\ Demoted(set)[j].status = integration[j].status
                             /\ Demoted(set)[j].primary = FALSE
<1>1. \A j \in set : Live(j) => integration[j] \in IntegrationRow
    BY DEF TypeOK, Live
<1>2. \A j \in set : Live(j) =>
                     /\ [integration[j] EXCEPT !.primary = FALSE] \in IntegrationRow
                     /\ [integration[j] EXCEPT !.primary = FALSE].secret = integration[j].secret
                     /\ [integration[j] EXCEPT !.primary = FALSE].status = integration[j].status
                     /\ [integration[j] EXCEPT !.primary = FALSE].primary = FALSE
    BY <1>1 DEF IntegrationRow
<1> QED
    BY <1>1, <1>2 DEF Demoted, TypeOK

\* What the row of an integration holds after an update and after a verification.
UpdateOf(s) ==
    [Flush(integration[req[s].on], req[s].seen, Edited(s))
        EXCEPT !.secret = IF req[s].new = None THEN @ ELSE req[s].new]

LEMMA UpdatedRow ==
    ASSUME TypeOK, Shapes, NEW s \in Slot, Ready(s, "update", "ready"), Live(req[s].on),
           NEW row, row = UpdateOf(s)
    PROVE  /\ req[s].on \in Integration /\ req[s].seen \in IntegrationRow
           /\ integration[req[s].on] \in IntegrationRow
           /\ row \in IntegrationRow
           /\ row.secret = IF req[s].new = None THEN integration[req[s].on].secret ELSE req[s].new
           /\ row.status = IF req[s].new # None /\ req[s].seen.status # "pending" THEN "pending"
                           ELSE integration[req[s].on].status
           /\ row.primary = IF req[s].promote /\ ~req[s].seen.primary THEN TRUE
                            ELSE integration[req[s].on].primary
<1> DEFINE r == req[s]
           edited == Edited(s)
<1>1. /\ r.on \in Integration /\ r.seen \in IntegrationRow /\ r.new \in Secret \cup {None}
      /\ r.promote \in BOOLEAN
    BY DEF Ready, Shapes, Shape, TypeOK, Request
<1>2. integration[r.on] \in IntegrationRow
    BY <1>1 DEF TypeOK, Live
<1>3. /\ edited \in IntegrationRow
      /\ edited.secret = r.seen.secret
      /\ edited.status = IF r.new = None THEN r.seen.status ELSE "pending"
      /\ edited.primary = (r.seen.primary \/ r.promote)
    BY <1>1 DEF Edited, IntegrationRow
<1>4. PICK flushed \in IntegrationRow :
        /\ flushed = Flush(integration[r.on], r.seen, edited)
        /\ flushed.secret = integration[r.on].secret
        /\ flushed.status = IF edited.status # r.seen.status THEN edited.status
                            ELSE integration[r.on].status
        /\ flushed.primary = IF edited.primary # r.seen.primary THEN edited.primary
                             ELSE integration[r.on].primary
    BY <1>1, <1>2, <1>3, FlushIntegration
<1>5. /\ row \in IntegrationRow
      /\ row.secret = IF r.new = None THEN flushed.secret ELSE r.new
      /\ row.status = flushed.status /\ row.primary = flushed.primary
    BY <1>1, <1>4 DEF IntegrationRow, UpdateOf
<1>6. r.seen.primary \in BOOLEAN /\ edited.primary \in BOOLEAN
    BY <1>1, <1>3 DEF IntegrationRow
<1>7. row.primary = IF r.promote /\ ~r.seen.primary THEN TRUE ELSE integration[r.on].primary
    BY <1>1, <1>3, <1>4, <1>5, <1>6
<1>8. row.status = IF r.new # None /\ r.seen.status # "pending" THEN "pending"
                   ELSE integration[r.on].status
    BY <1>3, <1>4, <1>5
<1> QED
    BY <1>1, <1>2, <1>4, <1>5, <1>7, <1>8

LEMMA VerifiedRow ==
    ASSUME TypeOK, Shapes, NEW s \in Slot, Ready(s, "verify", "ready"), Live(req[s].on),
           NEW ok \in BOOLEAN,
           NEW row, row = Flush(integration[req[s].on], req[s].seen,
                                [req[s].seen EXCEPT !.status = IF ok THEN "active" ELSE "failed"])
    PROVE  /\ row \in IntegrationRow
           /\ row.secret = integration[req[s].on].secret
           /\ row.primary = integration[req[s].on].primary
           /\ row.status = IF ok /\ req[s].seen.status # "active" THEN "active"
                           ELSE IF ~ok /\ req[s].seen.status # "failed" THEN "failed"
                           ELSE integration[req[s].on].status
<1> DEFINE r == req[s]
<1>1. r.on \in Integration /\ r.seen \in IntegrationRow
    BY DEF Ready, Shapes, Shape
<1>2. integration[r.on] \in IntegrationRow
    BY <1>1 DEF TypeOK, Live
<1>3. PICK done \in IntegrationRow :
        /\ done = [r.seen EXCEPT !.status = IF ok THEN "active" ELSE "failed"]
        /\ done.secret = r.seen.secret /\ done.primary = r.seen.primary
        /\ done.status = IF ok THEN "active" ELSE "failed"
    BY <1>1 DEF IntegrationRow
<1>4. PICK flushed \in IntegrationRow :
        /\ flushed = Flush(integration[r.on], r.seen, done)
        /\ flushed.secret = IF done.secret # r.seen.secret THEN done.secret
                            ELSE integration[r.on].secret
        /\ flushed.primary = IF done.primary # r.seen.primary THEN done.primary
                             ELSE integration[r.on].primary
        /\ flushed.status = IF done.status # r.seen.status THEN done.status
                            ELSE integration[r.on].status
    BY <1>1, <1>2, FlushIntegration
<1>5. /\ row \in IntegrationRow
      /\ row.secret = integration[r.on].secret /\ row.primary = integration[r.on].primary
      /\ row.status = IF done.status # r.seen.status THEN done.status
                      ELSE integration[r.on].status
    BY <1>3, <1>4
<1>6. CASE ok
    BY <1>3, <1>5, <1>6
<1>7. CASE ~ok
    BY <1>3, <1>5, <1>7
<1> QED
    BY <1>6, <1>7

\* The same for a key that is replaced, for one that is accepted, and for the
\* configuration.
ReplacementOf(old, seen, secret) ==
    [Flush(old, seen, [seen EXCEPT !.verified = FALSE]) EXCEPT !.secret = secret]

LEMMA ReplacedKey ==
    ASSUME NEW old \in KeyRow, NEW seen \in KeyRow, NEW secret \in Secret
    PROVE  /\ ReplacementOf(old, seen, secret) \in KeyRow
           /\ ReplacementOf(old, seen, secret).verified = TRUE =>
                 old.verified = TRUE /\ seen.verified = FALSE
<1> DEFINE row == ReplacementOf(old, seen, secret)
<1> DEFINE edited == [seen EXCEPT !.verified = FALSE]
<1>0. edited \in KeyRow
    BY DEF KeyRow
<1>1. PICK new \in KeyRow :
        /\ new = edited
        /\ new.secret = seen.secret /\ new.id = seen.id /\ new.verified = FALSE
    BY <1>0 DEF KeyRow
<1>2. PICK flushed \in KeyRow :
        /\ flushed = Flush(old, seen, new)
        /\ flushed.id = IF new.id # seen.id THEN new.id ELSE old.id
        /\ flushed.verified = IF new.verified # seen.verified THEN new.verified ELSE old.verified
    BY FlushKey
<1>3. row \in KeyRow /\ row.verified = flushed.verified
    BY <1>1, <1>2 DEF KeyRow, ReplacementOf
<1>4. seen.verified \in BOOLEAN /\ old.verified \in BOOLEAN
    BY DEF KeyRow
<1> QED
    BY <1>1, <1>2, <1>3, <1>4

AcceptanceOf(old, seen) == Flush(old, seen, [seen EXCEPT !.verified = TRUE])

LEMMA AcceptedKey ==
    ASSUME NEW old \in KeyRow, NEW seen \in KeyRow, NEW row, row = AcceptanceOf(old, seen)
    PROVE  /\ row \in KeyRow /\ row.secret = old.secret /\ row.id = old.id
<1> DEFINE edited == [seen EXCEPT !.verified = TRUE]
<1>0. edited \in KeyRow
    BY DEF KeyRow
<1>1. PICK new \in KeyRow :
        /\ new = edited
        /\ new.secret = seen.secret /\ new.id = seen.id /\ new.verified = TRUE
    BY <1>0 DEF KeyRow
<1>2. PICK flushed \in KeyRow :
        /\ flushed = Flush(old, seen, new)
        /\ flushed.secret = IF new.secret # seen.secret THEN new.secret ELSE old.secret
        /\ flushed.id = IF new.id # seen.id THEN new.id ELSE old.id
        /\ flushed.verified = IF new.verified # seen.verified THEN new.verified ELSE old.verified
    BY FlushKey
<1> QED
    BY <1>1, <1>2 DEF AcceptanceOf

LEMMA ProviderWritten ==
    ASSUME NEW old \in ConfigRow, NEW seen \in ConfigRow, NEW p \in Provider,
           NEW row, row = Flush(old, seen, [seen EXCEPT !.provider = p])
    PROVE  /\ row \in ConfigRow
           /\ row.provider = IF p # seen.provider THEN p ELSE old.provider
<1>1. PICK new \in ConfigRow : new = [seen EXCEPT !.provider = p] /\ new.provider = p
    BY DEF ConfigRow
<1>2. PICK flushed \in ConfigRow :
        /\ flushed = Flush(old, seen, new)
        /\ flushed.provider = IF new.provider # seen.provider THEN new.provider ELSE old.provider
    BY FlushConfig
<1> QED
    BY <1>1, <1>2

LEMMA CustomWritten ==
    ASSUME NEW old \in ConfigRow, NEW seen \in ConfigRow, NEW a \in Agent, NEW m \in Model,
           NEW row, row = Flush(old, seen, [seen EXCEPT !.custom = Customised(@, a, m)])
    PROVE  row \in ConfigRow /\ row.provider = old.provider
<1>1. [x \in {a} |-> m] \in Column
    <2>1. {a} \in (SUBSET Agent) \ {{}}
        OBVIOUS
    <2>2. [x \in {a} |-> m] \in [{a} -> Model]
        OBVIOUS
    <2> QED
        BY <2>1, <2>2 DEF Column
<1>2. Customised(seen.custom, a, m) \in Column \cup {None}
    BY <1>1 DEF Customised, ConfigRow
<1>3. PICK new \in ConfigRow :
        new = [seen EXCEPT !.custom = Customised(@, a, m)] /\ new.provider = seen.provider
    BY <1>2 DEF ConfigRow
<1>4. PICK flushed \in ConfigRow :
        /\ flushed = Flush(old, seen, new)
        /\ flushed.provider = IF new.provider # seen.provider THEN new.provider ELSE old.provider
    BY FlushConfig
<1> QED
    BY <1>3, <1>4

---------------------------------------------------------------------------
(* What the steps write *)

Rows == [Integration -> IntegrationRow \cup {None, Gone}]

\* A step that is not about integration j may demote it, no more.
KeptRow(j) ==
    Live(j)' =>
        /\ Live(j)
        /\ integration'[j].secret = integration[j].secret
        /\ integration'[j].status = integration[j].status

LEMMA CreateWrites ==
    ASSUME TypeOK, Shapes, NEW s \in Slot, CommitCreate(s)
    PROVE  /\ req' = [req EXCEPT ![s] = Idle] /\ UNCHANGED <<key, config, begun, history>>
           /\ req[s].on \in Integration /\ integration' \in Rows
           /\ \A j \in Integration \ {req[s].on} : KeptRow(j)
           /\ integration' # integration =>
                  /\ integration'[req[s].on].status = "pending"
                  /\ Primaries' \subseteq (Primaries \ req[s].others) \cup {req[s].on}
<1> DEFINE r == req[s]
<1>1. /\ req' = [req EXCEPT ![s] = Idle] /\ UNCHANGED <<key, config, begun, history>>
      /\ r.on \in Integration /\ r.new \in Secret /\ r.others \in SUBSET Integration
    BY DEF CommitCreate, Ready, Shapes, Shape, TypeOK, Request, End, Fail, tables
<1>2. CASE integration' = integration
    BY <1>1, <1>2 DEF KeptRow, Live, Rows, TypeOK
<1>3. CASE integration' # integration
    <2>1. PICK row : row = [secret |-> r.new, primary |-> TRUE, status |-> "pending"]
        OBVIOUS
    <2>2. row \in IntegrationRow /\ row.status = "pending"
        BY <1>1, <2>1 DEF IntegrationRow
    <2>3. PICK rest : rest = Demoted(r.others)
        OBVIOUS
    <2>5. integration' = [rest EXCEPT ![r.on] = row]
        BY <1>3, <2>1, <2>3 DEF CommitCreate, Fail, tables
    <2>6. /\ rest \in Rows
          /\ \A j \in Integration : j \notin r.others \/ ~Live(j) => rest[j] = integration[j]
          /\ \A j \in r.others : Live(j) =>
                                 /\ integration[j] \in IntegrationRow
                                 /\ rest[j].secret = integration[j].secret
                                 /\ rest[j].status = integration[j].status
                                 /\ rest[j].primary = FALSE
        BY <1>1, <2>3, DemotedRows DEF Rows
    <2>7. integration' \in Rows
        BY <1>1, <2>2, <2>5, <2>6 DEF Rows
    <2>8. integration'[r.on] = row /\ \A j \in Integration \ {r.on} : integration'[j] = rest[j]
        BY <1>1, <2>5, <2>6 DEF Rows
    <2>9. \A j \in Integration \ {r.on} : KeptRow(j)
        BY <1>1, <2>6, <2>8 DEF KeptRow, Live
    <2>10. Primaries' \subseteq (Primaries \ r.others) \cup {r.on}
        BY <1>1, <2>6, <2>8 DEF Primaries, Live
    <2> QED
        BY <1>1, <2>2, <2>7, <2>8, <2>9, <2>10
<1> QED
    BY <1>2, <1>3

LEMMA UpdateWrites ==
    ASSUME TypeOK, Shapes, NEW s \in Slot, CommitUpdate(s)
    PROVE  /\ req' = [req EXCEPT ![s] = Idle] /\ UNCHANGED <<key, config, begun, history>>
           /\ req[s].on \in Integration /\ req[s].seen \in IntegrationRow /\ integration' \in Rows
           /\ \A j \in Integration \ {req[s].on} : KeptRow(j)
           /\ integration'[req[s].on] \notin {None, Gone} /\ integration' # integration =>
                  /\ Live(req[s].on)
                  /\ integration'[req[s].on].secret =
                         IF req[s].new = None THEN integration[req[s].on].secret ELSE req[s].new
                  /\ integration'[req[s].on].status =
                         IF req[s].new # None /\ req[s].seen.status # "pending" THEN "pending"
                         ELSE integration[req[s].on].status
           /\ integration' # integration =>
                  Primaries' \subseteq IF req[s].promote
                                       THEN (Primaries \ req[s].others) \cup {req[s].on}
                                       ELSE Primaries
<1> DEFINE r == req[s]
<1>1. /\ req' = [req EXCEPT ![s] = Idle] /\ UNCHANGED <<key, config, begun, history>>
      /\ r.on \in Integration /\ r.seen \in IntegrationRow /\ r.others \in SUBSET Integration
      /\ Ready(s, "update", "ready")
    BY DEF CommitUpdate, Ready, Shapes, Shape, TypeOK, Request, End, Fail, tables
<1>2. CASE integration' = integration
    BY <1>1, <1>2 DEF KeptRow, Live, Rows, TypeOK
<1>3. CASE integration' # integration
    <2>1. PICK row : row = UpdateOf(s)
        OBVIOUS
    <2>2. PICK rest : rest = Demoted(r.others)
        OBVIOUS
    <2>4. integration' = [rest EXCEPT ![r.on] = IF Live(r.on) THEN row ELSE @]
        BY <1>3, <2>1, <2>2 DEF CommitUpdate, Fail, tables, UpdateOf
    <2>5. Live(r.on) =>
          /\ integration[r.on] \in IntegrationRow
          /\ row \in IntegrationRow
          /\ row.secret = IF r.new = None THEN integration[r.on].secret ELSE r.new
          /\ row.status = IF r.new # None /\ r.seen.status # "pending" THEN "pending"
                          ELSE integration[r.on].status
          /\ row.primary = IF r.promote /\ ~r.seen.primary THEN TRUE ELSE integration[r.on].primary
        BY <1>1, <2>1, UpdatedRow
    <2>6. /\ rest \in Rows
          /\ \A j \in Integration : j \notin r.others \/ ~Live(j) => rest[j] = integration[j]
          /\ \A j \in r.others : Live(j) =>
                                 /\ integration[j] \in IntegrationRow
                                 /\ rest[j].secret = integration[j].secret
                                 /\ rest[j].status = integration[j].status
                                 /\ rest[j].primary = FALSE
        BY <1>1, <2>2, DemotedRows DEF Rows
    <2>7. integration' \in Rows
        BY <1>1, <2>4, <2>5, <2>6 DEF Rows
    <2>8. /\ integration'[r.on] = IF Live(r.on) THEN row ELSE integration[r.on]
          /\ \A j \in Integration \ {r.on} : integration'[j] = rest[j]
        BY <1>1, <2>4, <2>6 DEF Rows
    <2>9. \A j \in Integration \ {r.on} : KeptRow(j)
        BY <1>1, <2>6, <2>8 DEF KeptRow, Live
    <2>10. \A j \in Primaries' \ {r.on} : j \in Primaries \ r.others
        BY <1>1, <2>6, <2>8 DEF Primaries, Live
    <2>11. r.on \in Primaries' => r.promote \/ r.on \in Primaries
        BY <2>5, <2>8 DEF Primaries, Live
    <2>12. Primaries' \subseteq IF r.promote THEN (Primaries \ r.others) \cup {r.on} ELSE Primaries
        BY <2>10, <2>11
    <2> QED
        BY <1>1, <2>5, <2>7, <2>8, <2>9, <2>12 DEF Live
<1> QED
    BY <1>2, <1>3

LEMMA VerifyWrites ==
    ASSUME TypeOK, Shapes, NEW s \in Slot, NEW ok \in BOOLEAN, FinishVerify(s, ok)
    PROVE  /\ req' = [req EXCEPT ![s] = Idle] /\ UNCHANGED <<key, config, begun, crossed, chosen>>
           /\ req[s].on \in Integration /\ req[s].seen \in IntegrationRow /\ integration' \in Rows
           /\ checked' = IF ok THEN checked \cup {<<req[s].on, req[s].seen.secret>>} ELSE checked
           /\ \A j \in Integration \ {req[s].on} : KeptRow(j)
           /\ Primaries' \subseteq Primaries
           /\ integration'[req[s].on] \notin {None, Gone} =>
                  /\ Live(req[s].on)
                  /\ integration'[req[s].on].secret = integration[req[s].on].secret
                  /\ integration'[req[s].on].status =
                         IF ok /\ req[s].seen.status # "active" THEN "active"
                         ELSE IF ~ok /\ req[s].seen.status # "failed" THEN "failed"
                         ELSE integration[req[s].on].status
<1> DEFINE r == req[s]
<1>1. /\ req' = [req EXCEPT ![s] = Idle] /\ UNCHANGED <<key, config, begun, crossed, chosen>>
      /\ r.on \in Integration /\ r.seen \in IntegrationRow
      /\ Ready(s, "verify", "ready")
      /\ checked' = IF ok THEN checked \cup {<<r.on, r.seen.secret>>} ELSE checked
    BY DEF FinishVerify, Ready, Shapes, Shape, End
<1>2. CASE ~Live(r.on)
    <2>1. integration' = integration
        BY <1>2 DEF FinishVerify
    <2>2. integration'[r.on] \in {None, Gone}
        BY <1>2, <2>1 DEF Live
    <2>3. /\ integration' \in Rows
          /\ \A j \in Integration : KeptRow(j)
          /\ Primaries' \subseteq Primaries
        BY <2>1 DEF KeptRow, Live, Rows, TypeOK, Primaries
    <2> QED
        BY <1>1, <2>2, <2>3
<1>3. CASE Live(r.on)
    <2>1. PICK row : row = Flush(integration[r.on], r.seen,
                                 [r.seen EXCEPT !.status = IF ok THEN "active" ELSE "failed"])
        OBVIOUS
    <2>2. integration' = [integration EXCEPT ![r.on] = row]
        BY <1>3, <2>1 DEF FinishVerify
    <2>3. /\ row \in IntegrationRow
          /\ row.secret = integration[r.on].secret
          /\ row.primary = integration[r.on].primary
          /\ row.status = IF ok /\ r.seen.status # "active" THEN "active"
                          ELSE IF ~ok /\ r.seen.status # "failed" THEN "failed"
                          ELSE integration[r.on].status
        BY <1>1, <1>3, <2>1, VerifiedRow
    <2>4. integration'[r.on] = row /\ \A j \in Integration \ {r.on} : integration'[j] = integration[j]
        BY <1>1, <2>2 DEF TypeOK
    <2>5. integration' \in Rows
        BY <1>1, <2>2, <2>3 DEF Rows, TypeOK
    <2>6. \A j \in Integration \ {r.on} : KeptRow(j)
        BY <2>4 DEF KeptRow, Live
    <2>7. Primaries' \subseteq Primaries
        BY <1>3, <2>3, <2>4 DEF Primaries, Live
    <2> QED
        BY <1>1, <1>3, <2>3, <2>4, <2>5, <2>6, <2>7
<1> QED
    BY <1>2, <1>3

Keys == [Provider -> KeyRow \cup {None}]

LEMMA PutKeyWrites ==
    ASSUME TypeOK, Shapes, NEW s \in Slot, PutKey(s)
    PROVE  /\ req' = [req EXCEPT ![s] = Idle] /\ UNCHANGED <<integration, begun, checked, crossed>>
           /\ req[s].on \in Provider /\ key' \in Keys
           /\ \A q \in Provider \ {req[s].on} : key'[q] = key[q]
           /\ \/ UNCHANGED <<key, config, chosen>>
              \/ /\ key'[req[s].on] \in KeyRow
                 /\ IF req[s].seen = None THEN key'[req[s].on].verified = FALSE
                    ELSE /\ key[req[s].on] # None /\ key[req[s].on].id = req[s].seen.id
                         /\ key'[req[s].on].verified = TRUE =>
                                key[req[s].on].verified = TRUE /\ req[s].seen.verified = FALSE
                 /\ config' \in ConfigRow
                 /\ config'.provider = req[s].on \/ (config # None /\ config'.provider = config.provider)
                 /\ chosen' = chosen \ {req[s].on}
<1> DEFINE r == req[s]
<1>1. /\ req' = [req EXCEPT ![s] = Idle] /\ UNCHANGED <<integration, begun, checked, crossed>>
      /\ r.on \in Provider /\ r.new \in Secret /\ r.seen \in KeyRow \cup {None}
      /\ r.cfg \in ConfigRow \cup {None} /\ (r.cfg # None => config # None)
      /\ begun \in 1..MaxRequests
    BY SettingsAssumption DEF PutKey, Ready, Shapes, Shape, TypeOK, Request, End, Fail, tables, history
<1>2. CASE UNCHANGED <<key, config, chosen>>
    BY <1>1, <1>2 DEF Keys, TypeOK
<1>3. CASE ~UNCHANGED <<key, config, chosen>>
    <2>1. /\ SameRow(r.on, r.seen) /\ (r.cfg = None => config = None)
          /\ key' = [key EXCEPT ![r.on] =
                IF r.seen = None THEN [secret |-> r.new, verified |-> FALSE, id |-> begun]
                ELSE [Flush(@, r.seen, [r.seen EXCEPT !.verified = FALSE]) EXCEPT !.secret = r.new]]
          /\ config' = IF r.cfg = None THEN [provider |-> r.on, custom |-> None]
                       ELSE Flush(config, r.cfg, [r.cfg EXCEPT !.provider = r.on])
          /\ chosen' = chosen \ {r.on}
        BY <1>3 DEF PutKey, Fail, tables, history
    <2>2. PICK row : /\ key' = [key EXCEPT ![r.on] = row]
                     /\ row \in KeyRow
                     /\ IF r.seen = None THEN row.verified = FALSE
                        ELSE /\ key[r.on] # None /\ key[r.on].id = r.seen.id
                             /\ row.verified = TRUE => key[r.on].verified = TRUE /\ r.seen.verified = FALSE
        <3>1. CASE r.seen = None
            <4>1. PICK row : row = [secret |-> r.new, verified |-> FALSE, id |-> begun]
                OBVIOUS
            <4>2. row \in KeyRow /\ row.verified = FALSE
                BY <1>1, <4>1 DEF KeyRow
            <4> QED
                BY <2>1, <3>1, <4>1, <4>2
        <3>2. CASE r.seen # None
            <4>1. key[r.on] # None /\ key[r.on].id = r.seen.id /\ key[r.on] \in KeyRow
                BY <1>1, <2>1, <3>2 DEF SameRow, TypeOK
            <4>2. PICK row : row = ReplacementOf(key[r.on], r.seen, r.new)
                OBVIOUS
            <4>3. row \in KeyRow /\ (row.verified = TRUE => key[r.on].verified = TRUE /\ r.seen.verified = FALSE)
                <5>1. r.seen \in KeyRow /\ r.new \in Secret
                    BY <1>1, <3>2
                <5> QED
                    BY <4>1, <4>2, <5>1, ReplacedKey
            <4> QED
                BY <2>1, <3>2, <4>1, <4>2, <4>3 DEF ReplacementOf
        <3> QED
            BY <3>1, <3>2
    <2>3. /\ key' \in Keys /\ key'[r.on] = row
          /\ \A q \in Provider \ {r.on} : key'[q] = key[q]
        BY <1>1, <2>2 DEF Keys, TypeOK
    <2>4. /\ config' \in ConfigRow
          /\ config'.provider = r.on \/ (config # None /\ config'.provider = config.provider)
        <3>1. CASE r.cfg = None
            BY <1>1, <2>1, <3>1 DEF ConfigRow
        <3>2. CASE r.cfg # None
            <4>1. config \in ConfigRow /\ config # None /\ r.cfg \in ConfigRow
                BY <1>1, <3>2 DEF TypeOK
            <4>2. config' = Flush(config, r.cfg, [r.cfg EXCEPT !.provider = r.on])
                BY <2>1, <3>2
            <4> QED
                BY <1>1, <4>1, <4>2, ProviderWritten
        <3> QED
            BY <3>1, <3>2
    <2> QED
        BY <1>1, <2>1, <2>2, <2>3, <2>4
<1> QED
    BY <1>2, <1>3

LEMMA KeyAcceptedWrites ==
    ASSUME TypeOK, Shapes, NEW s \in Slot, KeyAccepted(s)
    PROVE  /\ req' = [req EXCEPT ![s] = Idle] /\ UNCHANGED <<integration, config, begun, crossed, chosen>>
           /\ req[s].on \in Provider /\ req[s].seen \in KeyRow /\ key' \in Keys
           /\ checked' = checked \cup {<<req[s].on, req[s].seen.secret>>}
           /\ \A q \in Provider \ {req[s].on} : key'[q] = key[q]
           /\ \/ key' = key
              \/ /\ key[req[s].on] # None /\ key[req[s].on].id = req[s].seen.id
                 /\ key'[req[s].on] \in KeyRow
                 /\ key'[req[s].on].secret = key[req[s].on].secret
<1> DEFINE r == req[s]
<1>1. /\ req' = [req EXCEPT ![s] = Idle] /\ UNCHANGED <<integration, config, begun, crossed, chosen>>
      /\ r.on \in Provider /\ r.seen \in KeyRow
      /\ checked' = checked \cup {<<r.on, r.seen.secret>>}
    BY DEF KeyAccepted, Ready, Shapes, Shape, End
<1>2. CASE ~SameRow(r.on, r.seen)
    BY <1>1, <1>2 DEF KeyAccepted, Keys, TypeOK
<1>3. CASE SameRow(r.on, r.seen)
    <2>1. key[r.on] # None /\ key[r.on].id = r.seen.id /\ key[r.on] \in KeyRow
        BY <1>1, <1>3, RowsAssumption DEF SameRow, TypeOK
    <2>2. PICK row : row = AcceptanceOf(key[r.on], r.seen)
        OBVIOUS
    <2>3. key' = [key EXCEPT ![r.on] = row]
        BY <1>3, <2>2 DEF KeyAccepted, AcceptanceOf
    <2>4. row \in KeyRow /\ row.secret = key[r.on].secret
        BY <1>1, <2>1, <2>2, AcceptedKey
    <2> QED
        BY <1>1, <2>1, <2>3, <2>4 DEF Keys, TypeOK
<1> QED
    BY <1>2, <1>3

LEMMA CommitPatchWrites ==
    ASSUME TypeOK, Shapes, NEW s \in Slot, CommitPatch(s)
    PROVE  /\ req' = [req EXCEPT ![s] = Idle] /\ UNCHANGED <<integration, key, begun, checked, crossed>>
           /\ chosen \subseteq chosen' /\ chosen' \subseteq Provider
           /\ config # None /\ config' \in ConfigRow
           /\ config'.provider \in chosen' \/ config'.provider = config.provider
<1> DEFINE r == req[s]
<1>1. /\ req' = [req EXCEPT ![s] = Idle] /\ UNCHANGED <<integration, key, begun, checked, crossed>>
      /\ r.on \in Provider \/ (r.on \in Agent /\ r.new \in Model)
      /\ r.cfg \in ConfigRow /\ config # None /\ config \in ConfigRow
      /\ chosen' = IF r.on \in Provider THEN chosen \cup {r.on} ELSE chosen
      /\ chosen \subseteq chosen' /\ chosen' \subseteq Provider
    BY DEF CommitPatch, Ready, Shapes, Shape, TypeOK, Request, End
<1>2. CASE r.on \in Provider
    <2>1. config' = Flush(config, r.cfg, [r.cfg EXCEPT !.provider = r.on])
        BY <1>2 DEF CommitPatch
    <2> QED
        BY <1>1, <1>2, <2>1, ProviderWritten
<1>3. CASE r.on \notin Provider
    <2>1. config' = Flush(config, r.cfg, [r.cfg EXCEPT !.custom = Customised(@, r.on, r.new)])
        BY <1>3 DEF CommitPatch
    <2> QED
        BY <1>1, <1>3, <2>1, CustomWritten
<1> QED
    BY <1>2, <1>3

---------------------------------------------------------------------------
(* Type correctness *)

\* A slot's request ends or goes on with what it was about.
GoesOn(s) ==
    \E r \in Request :
        /\ req[s] # Idle
        /\ req' = [req EXCEPT ![s] = r]
        /\ r # Idle => /\ r.op = req[s].op /\ r.on = req[s].on /\ r.promote = req[s].promote
                       /\ r.seen = req[s].seen /\ r.at # "seed"
        /\ UNCHANGED <<begun, crossed>>

Ends(s) == req[s] # Idle /\ req' = [req EXCEPT ![s] = Idle] /\ UNCHANGED <<begun, crossed>>

LEMMA EndsTypes ==
    ASSUME TypeOK, Shapes, NEW s \in Slot, Ends(s),
           integration' \in Rows, key' \in Keys,
           config' \in ConfigRow \cup {None}, config # None => config' # None,
           checked' \subseteq (Integration \cup Provider) \X Secret, chosen' \subseteq Provider
    PROVE  TypeOK' /\ Shapes' /\ GoesOn(s)
<1>1. Idle \in Request
    BY DEF Request
<1>2. Shape(Idle)'
    BY DEF Shape, Idle
<1>3. TypeOK' /\ Shapes'
    BY <1>1, <1>2, StepTypes DEF Ends, Rows, Keys
<1> QED
    BY <1>1, <1>3 DEF Ends, GoesOn

\* A request that reads, and one that inserts the default configuration.
LEMMA ReadersTypes ==
    ASSUME TypeOK, Shapes, NEW s \in Slot,
           ReadPrimaries(s) \/ ReadConfig(s) \/ LoadConfig(s) \/ Seed(s)
    PROVE  TypeOK' /\ Shapes' /\ GoesOn(s)
<1>1. CASE ReadPrimaries(s)
    <2>1. req[s] \in Request /\ req[s] # Idle /\ Shape(req[s])
        BY <1>1 DEF ReadPrimaries, Ready, TypeOK, Shapes
    <2>2. PICK r : r = [req[s] EXCEPT !.at = "ready", !.others = Primaries \ {req[s].on}]
        OBVIOUS
    <2>3. /\ r \in Request /\ r.op = req[s].op /\ r.on = req[s].on /\ r.promote = req[s].promote
          /\ r.seen = req[s].seen /\ r.new = req[s].new /\ r.cfg = req[s].cfg /\ r.at = "ready"
          /\ r.op = "update"
        BY <1>1, <2>1, <2>2 DEF ReadPrimaries, Ready, Request, Idle, Primaries
    <2>4. req' = [req EXCEPT ![s] = r] /\ UNCHANGED <<tables, begun, history>>
        BY <1>1, <2>2 DEF ReadPrimaries
    <2>5. Shape(r)'
        BY <2>1, <2>3, <2>4 DEF Shape, tables
    <2>6. TypeOK' /\ Shapes'
        BY <2>3, <2>4, <2>5, StepTypes DEF TypeOK, tables, history
    <2> QED
        BY <2>1, <2>3, <2>4, <2>6 DEF GoesOn, history
<1>2. CASE ReadConfig(s) \/ LoadConfig(s)
    <2>1. req[s] \in Request /\ req[s] # Idle /\ Shape(req[s])
        BY <1>2 DEF ReadConfig, LoadConfig, Ready, TypeOK, Shapes
    <2>2. PICK r : r = [req[s] EXCEPT !.at = "ready", !.cfg = config]
        OBVIOUS
    <2>3. /\ r \in Request /\ r.op = req[s].op /\ r.on = req[s].on /\ r.promote = req[s].promote
          /\ r.seen = req[s].seen /\ r.new = req[s].new /\ r.cfg = config /\ r.at = "ready"
          /\ r.op \in {"putKey", "patch"} /\ req[s].at = "read"
        BY <1>2, <2>1, <2>2 DEF ReadConfig, LoadConfig, Ready, Request, Idle, TypeOK
    <2>4. req' = [req EXCEPT ![s] = r] /\ UNCHANGED <<tables, begun, history>>
        BY <1>2, <2>2 DEF ReadConfig, LoadConfig
    <2>5. Shape(r)'
        BY <2>1, <2>3, <2>4 DEF Shape, tables
    <2>6. TypeOK' /\ Shapes'
        BY <2>3, <2>4, <2>5, StepTypes DEF TypeOK, tables, history
    <2> QED
        BY <2>1, <2>3, <2>4, <2>6 DEF GoesOn, history
<1>3. CASE Seed(s)
    <2>1. req[s] \in Request /\ req[s] # Idle /\ Shape(req[s]) /\ req[s].at = "seed"
        BY <1>3 DEF Seed, TypeOK, Shapes
    <2>2. CASE config # None
        <3>1. Ends(s) /\ UNCHANGED <<tables, history>>
            BY <1>3, <2>1, <2>2 DEF Seed, Fail, End, Ends, history
        <3> QED
            BY <3>1, EndsTypes DEF tables, history, TypeOK, Rows, Keys
    <2>3. CASE config = None
        <3>1. PICK row : row = [provider |-> DefaultProvider, custom |-> None]
            OBVIOUS
        <3>2. row \in ConfigRow /\ row # None
            BY <3>1, SettingsAssumption, RowsAssumption DEF ConfigRow
        <3>3. /\ config' = row /\ chosen' = chosen \cup {DefaultProvider}
              /\ req' = [req EXCEPT ![s] = IF req[s].op = "get" THEN Idle
                                           ELSE [req[s] EXCEPT !.at = "read"]]
              /\ UNCHANGED <<integration, key, begun, checked, crossed>>
            BY <1>3, <2>3, <3>1 DEF Seed
        <3>4. CASE req[s].op = "get"
            <4>1. Ends(s)
                BY <2>1, <3>3, <3>4 DEF Ends
            <4> QED
                BY <3>2, <3>3, <4>1, EndsTypes, SettingsAssumption DEF TypeOK, Rows, Keys
        <3>5. CASE req[s].op # "get"
            <4>1. PICK r : r = [req[s] EXCEPT !.at = "read"]
                OBVIOUS
            <4>2. /\ r \in Request /\ r.op = req[s].op /\ r.on = req[s].on
                  /\ r.promote = req[s].promote /\ r.seen = req[s].seen /\ r.new = req[s].new
                  /\ r.cfg = req[s].cfg /\ r.at = "read" /\ r.op = "patch"
                BY <2>1, <3>5, <4>1 DEF Request, Idle, Shape
            <4>3. req' = [req EXCEPT ![s] = r]
                BY <3>3, <3>5, <4>1
            <4>4. Shape(r)'
                BY <2>1, <3>2, <3>3, <4>2 DEF Shape
            <4>5. TypeOK' /\ Shapes'
                BY <2>3, <3>2, <3>3, <4>2, <4>3, <4>4, StepTypes, SettingsAssumption, ZenonT(60) DEF TypeOK
            <4> QED
                BY <2>1, <3>3, <4>2, <4>3, <4>5 DEF GoesOn
        <3> QED
            BY <3>4, <3>5
    <2> QED
        BY <2>2, <2>3
<1> QED
    BY <1>1, <1>2, <1>3

LEMMA WritersTypes ==
    ASSUME TypeOK, Shapes, NEW s \in Slot,
           \/ CommitCreate(s) \/ CommitUpdate(s)
           \/ \E ok \in Verdicts : FinishVerify(s, ok)
           \/ PutKey(s) \/ DropKey(s) \/ KeyAccepted(s) \/ KeyRefused(s) \/ CommitPatch(s)
    PROVE  TypeOK' /\ Shapes' /\ Ends(s) /\ GoesOn(s)
<1>0. req[s] # Idle
    BY DEF CommitCreate, CommitUpdate, FinishVerify, PutKey, DropKey, KeyAccepted, KeyRefused,
       CommitPatch, Ready
<1>1. CASE CommitCreate(s) \/ CommitUpdate(s)
    <2>1. /\ integration' \in Rows /\ req' = [req EXCEPT ![s] = Idle]
          /\ UNCHANGED <<key, config, begun, history>>
        BY <1>1, CreateWrites, UpdateWrites
    <2>2. Ends(s)
        BY <1>0, <2>1 DEF Ends, history
    <2> QED
        BY <2>1, <2>2, EndsTypes DEF history, TypeOK, Keys
<1>2. ASSUME NEW ok \in BOOLEAN, FinishVerify(s, ok) PROVE TypeOK' /\ Shapes' /\ Ends(s) /\ GoesOn(s)
    <2>1. /\ integration' \in Rows /\ req' = [req EXCEPT ![s] = Idle]
          /\ UNCHANGED <<key, config, begun, crossed, chosen>>
          /\ req[s].on \in Integration /\ req[s].seen \in IntegrationRow
          /\ checked' = IF ok THEN checked \cup {<<req[s].on, req[s].seen.secret>>} ELSE checked
        BY <1>2, VerifyWrites
    <2>2. req[s].seen.secret \in Secret
        BY <2>1 DEF IntegrationRow
    <2>3. checked' \subseteq (Integration \cup Provider) \X Secret
        BY <2>1, <2>2 DEF TypeOK
    <2>4. Ends(s)
        BY <1>0, <2>1 DEF Ends
    <2> QED
        BY <2>1, <2>3, <2>4, EndsTypes DEF TypeOK, Keys
<1>3. CASE PutKey(s)
    <2>1. /\ key' \in Keys /\ req' = [req EXCEPT ![s] = Idle]
          /\ UNCHANGED <<integration, begun, checked, crossed>>
          /\ UNCHANGED <<key, config, chosen>> \/ (config' \in ConfigRow /\ chosen' \subseteq chosen)
        BY <1>3, PutKeyWrites
    <2>2. Ends(s)
        BY <1>0, <2>1 DEF Ends
    <2> QED
        BY <2>1, <2>2, EndsTypes, RowsAssumption DEF TypeOK, Rows
<1>4. CASE KeyAccepted(s)
    <2>1. /\ key' \in Keys /\ req' = [req EXCEPT ![s] = Idle]
          /\ UNCHANGED <<integration, config, begun, crossed, chosen>>
          /\ req[s].on \in Provider /\ req[s].seen \in KeyRow
          /\ checked' = checked \cup {<<req[s].on, req[s].seen.secret>>}
        BY <1>4, KeyAcceptedWrites
    <2>2. req[s].seen.secret \in Secret
        BY <2>1 DEF KeyRow
    <2>3. checked' \subseteq (Integration \cup Provider) \X Secret
        BY <2>1, <2>2 DEF TypeOK
    <2>4. Ends(s)
        BY <1>0, <2>1 DEF Ends
    <2> QED
        BY <2>1, <2>3, <2>4, EndsTypes DEF TypeOK, Rows
<1>5. CASE DropKey(s)
    <2>1. /\ key' = [key EXCEPT ![req[s].on] = None] /\ req' = [req EXCEPT ![s] = Idle]
          /\ UNCHANGED <<integration, config, begun, history>>
        BY <1>5 DEF DropKey, End
    <2>2. Ends(s) /\ key' \in Keys
        BY <1>0, <2>1 DEF Ends, Keys, TypeOK, history
    <2> QED
        BY <2>1, <2>2, EndsTypes DEF TypeOK, Rows, history
<1>6. CASE KeyRefused(s)
    <2>1. Ends(s) /\ UNCHANGED <<tables, history>>
        BY <1>0, <1>6 DEF KeyRefused, Fail, End, Ends, history
    <2> QED
        BY <2>1, EndsTypes DEF TypeOK, tables, history, Rows, Keys
<1>7. CASE CommitPatch(s)
    <2>1. /\ req' = [req EXCEPT ![s] = Idle]
          /\ UNCHANGED <<integration, key, begun, checked, crossed>>
          /\ chosen' \subseteq Provider /\ config' \in ConfigRow
        BY <1>7, CommitPatchWrites
    <2>2. Ends(s)
        BY <1>0, <2>1 DEF Ends
    <2> QED
        BY <2>1, <2>2, EndsTypes, RowsAssumption DEF TypeOK, Rows, Keys
<1> QED
    BY <1>1, <1>2, <1>3, <1>4, <1>5, <1>6, <1>7 DEF Verdicts

Beginning(s) ==
    \/ \E i \in Integration, c \in Secret : BeginCreate(s, i, c)
    \/ \E i \in Integration, c \in Secret \cup {None}, b \in BOOLEAN : BeginUpdate(s, i, c, b)
    \/ \E i \in Integration : BeginVerify(s, i)
    \/ \E p \in Provider, k \in Secret : BeginPutKey(s, p, k)
    \/ \E p \in Provider : BeginDropKey(s, p) \/ BeginVerifyKey(s, p) \/ BeginPatch(s, p, None)
    \/ \E a \in Agent, m \in Model : BeginPatch(s, a, m)
    \/ BeginGet(s)

Reading(s) == ReadPrimaries(s) \/ ReadConfig(s) \/ LoadConfig(s) \/ Seed(s)

Writing(s) ==
    \/ CommitCreate(s) \/ CommitUpdate(s)
    \/ \E ok \in Verdicts : FinishVerify(s, ok)
    \/ PutKey(s) \/ DropKey(s) \/ KeyAccepted(s) \/ KeyRefused(s) \/ CommitPatch(s)

LEMMA NextCases ==
    ASSUME [Next]_vars
    PROVE  \/ \E i \in Integration : DeleteIntegration(i)
           \/ \E s \in Slot : Beginning(s) \/ Reading(s) \/ Writing(s)
           \/ UNCHANGED vars
BY DEF Next, Beginning, Reading, Writing

LEMMA DeletionTypes ==
    ASSUME TypeOK, Shapes, NEW i \in Integration, DeleteIntegration(i)
    PROVE  TypeOK' /\ Shapes' /\ \A j \in Integration : KeptRow(j)
<1>1. /\ integration' = [integration EXCEPT ![i] = Gone] /\ begun' = begun + 1
      /\ begun < MaxRequests /\ UNCHANGED <<key, config, req, history>>
    BY DEF DeleteIntegration
<1>2. TypeOK'
    BY <1>1, SettingsAssumption DEF TypeOK, history
<1>3. Shapes'
    BY <1>1 DEF Shapes, Shape, TypeOK
<1>4. \A j \in Integration : KeptRow(j)
    BY <1>1 DEF KeptRow, Live, TypeOK
<1> QED
    BY <1>2, <1>3, <1>4

LEMMA NextTypes == TypeOK /\ Shapes /\ [Next]_vars => TypeOK' /\ Shapes'
<1> SUFFICES ASSUME TypeOK, Shapes, [Next]_vars PROVE TypeOK' /\ Shapes'
    OBVIOUS
<1>1. CASE \E i \in Integration : DeleteIntegration(i)
    BY <1>1, DeletionTypes
<1>2. ASSUME NEW s \in Slot, Beginning(s) PROVE TypeOK' /\ Shapes'
    BY <1>2, BeginnersTypes DEF Beginning
<1>3. ASSUME NEW s \in Slot, Reading(s) PROVE TypeOK' /\ Shapes'
    BY <1>3, ReadersTypes DEF Reading
<1>4. ASSUME NEW s \in Slot, Writing(s) PROVE TypeOK' /\ Shapes'
    BY <1>4, WritersTypes DEF Writing
<1>5. CASE UNCHANGED vars
    BY <1>5 DEF vars, tables, history, TypeOK, Shapes, Shape
<1> QED
    BY <1>1, <1>2, <1>3, <1>4, <1>5, NextCases

\* Every variable keeps its type: what a flush writes over a row that was changed
\* since it was read is a row, and a configuration once there stays.
THEOREM TypeCorrect == Spec => [](TypeOK /\ Shapes)
<1> QED
    BY InitTypes, NextTypes, PTL DEF Spec

---------------------------------------------------------------------------
(* Requests under way together *)

\* Two requests under way that contend are recorded as having crossed.
Contention ==
    \A s, t \in Slot :
        /\ s # t /\ req[s] # Idle /\ req[t] # Idle
        /\ req[s].on = req[t].on \/ (req[s].promote /\ req[t].promote)
        => {req[s].on, req[t].on} \in crossed

LEMMA BeginningCrosses ==
    ASSUME TypeOK, NEW s \in Slot, Beginning(s)
    PROVE  /\ req[s] = Idle /\ UNCHANGED <<tables, checked, chosen>>
           /\ \E r : Begin(s, r)
           /\ crossed \subseteq crossed'
           /\ \A t \in Slot \ {s} : req'[t] = req[t]
<1>1. (\E r : Begin(s, r)) /\ UNCHANGED <<tables, checked, chosen>>
    BY DEF Beginning, BeginCreate, BeginUpdate, BeginVerify, BeginPutKey, BeginDropKey,
       BeginVerifyKey, BeginPatch, BeginGet
<1> QED
    BY <1>1 DEF Begin, TypeOK

LEMMA NextContention == TypeOK /\ Shapes /\ Contention /\ [Next]_vars => Contention'
<1> SUFFICES ASSUME TypeOK, Shapes, Contention, [Next]_vars PROVE Contention'
    OBVIOUS
<1>1. CASE (\E i \in Integration : DeleteIntegration(i)) \/ UNCHANGED vars
    BY <1>1 DEF DeleteIntegration, vars, history, Contention
<1>2. ASSUME NEW s \in Slot, GoesOn(s) PROVE Contention'
    <2>1. /\ \A t \in Slot : req'[t] # Idle => /\ req[t] # Idle
                                               /\ req'[t].on = req[t].on
                                               /\ req'[t].promote = req[t].promote
          /\ crossed' = crossed
        BY <1>2 DEF GoesOn, TypeOK
    <2> QED
        BY <2>1 DEF Contention
<1>3. ASSUME NEW s \in Slot, Beginning(s) PROVE Contention'
    <2>1. /\ \A t \in Slot \ {s} : req'[t] = req[t]
          /\ crossed \subseteq crossed'
        BY <1>3, BeginningCrosses
    <2>2. PICK r : Begin(s, r)
        BY <1>3, BeginningCrosses
    <2>3. req'[s] = r
        BY <2>2 DEF Begin, TypeOK
    <2>4. ASSUME NEW t \in Slot \ {s}, req[t] # Idle, r.on = req[t].on \/ (r.promote /\ req[t].promote)
          PROVE  {r.on, req[t].on} \in crossed'
        <3>1. t \in {u \in Slot : Contend(r, req[u])}
            BY <2>4 DEF Contend
        <3> QED
            BY <2>2, <3>1 DEF Begin
    <2>5. \A x, y : {x, y} = {y, x}
        OBVIOUS
    <2> SUFFICES ASSUME NEW t \in Slot, NEW u \in Slot, t # u, req'[t] # Idle, req'[u] # Idle,
                        req'[t].on = req'[u].on \/ (req'[t].promote /\ req'[u].promote)
                 PROVE  {req'[t].on, req'[u].on} \in crossed'
        BY DEF Contention
    <2>6. CASE t = s
        <3>1. u \in Slot \ {s} /\ req'[u] = req[u] /\ req'[t] = r
            BY <2>1, <2>3, <2>6
        <3> QED
            BY <2>4, <3>1
    <2>7. CASE u = s
        <3>1. t \in Slot \ {s} /\ req'[t] = req[t] /\ req'[u] = r
            BY <2>1, <2>3, <2>7
        <3>2. {r.on, req[t].on} \in crossed'
            BY <2>4, <3>1
        <3> QED
            BY <2>5, <3>1, <3>2
    <2>8. CASE t # s /\ u # s
        BY <2>1, <2>8 DEF Contention
    <2> QED
        BY <2>6, <2>7, <2>8
<1>4. ASSUME NEW s \in Slot, Reading(s) \/ Writing(s) PROVE GoesOn(s)
    BY <1>4, ReadersTypes, WritersTypes DEF Reading, Writing
<1> QED
    BY <1>1, <1>2, <1>3, <1>4, NextCases

---------------------------------------------------------------------------
(* Primary integrations *)

\* A request that is about to make its integration primary will demote every other
\* primary one, except those that became primary through a request it has crossed.
Displacing ==
    \A s \in Slot :
        req[s] # Idle /\ req[s].promote /\ req[s].at = "ready" =>
            \A j \in Primaries :
                j \in req[s].others \/ j = req[s].on \/ {req[s].on, j} \in crossed

LEMMA WritingPrimaries ==
    ASSUME TypeOK, Shapes, NEW s \in Slot, Writing(s)
    PROVE  \/ Primaries' \subseteq Primaries
           \/ /\ req[s].promote /\ req[s].at = "ready"
              /\ Primaries' \subseteq (Primaries \ req[s].others) \cup {req[s].on}
<1>1. CASE CommitCreate(s)
    <2>1. req[s].promote /\ req[s].at = "ready"
        BY <1>1 DEF CommitCreate, Ready, Shapes, Shape
    <2>2. integration' = integration => Primaries' = Primaries
        BY DEF Primaries, Live
    <2> QED
        BY <1>1, <2>1, <2>2, CreateWrites
<1>2. CASE CommitUpdate(s)
    <2>1. req[s].at = "ready"
        BY <1>2 DEF CommitUpdate, Ready
    <2>2. integration' = integration => Primaries' = Primaries
        BY DEF Primaries, Live
    <2>3. integration' # integration =>
              Primaries' \subseteq IF req[s].promote THEN (Primaries \ req[s].others) \cup {req[s].on}
                                   ELSE Primaries
        BY <1>2, UpdateWrites
    <2> QED
        BY <2>1, <2>2, <2>3
<1>3. ASSUME NEW ok \in BOOLEAN, FinishVerify(s, ok) PROVE Primaries' \subseteq Primaries
    BY <1>3, VerifyWrites
<1>4. CASE PutKey(s) \/ DropKey(s) \/ KeyAccepted(s) \/ KeyRefused(s) \/ CommitPatch(s)
    <2>1. integration' = integration
        BY <1>4 DEF PutKey, DropKey, KeyAccepted, KeyRefused, CommitPatch, Fail, tables
    <2> QED
        BY <2>1 DEF Primaries, Live
<1> QED
    BY <1>1, <1>2, <1>3, <1>4 DEF Writing, Verdicts

LEMMA NextPrimaries ==
    TypeOK /\ Shapes /\ Contention /\ Displacing /\ TwoPrimariesNeedOverlap /\ [Next]_vars
        => Displacing' /\ TwoPrimariesNeedOverlap'
<1> SUFFICES ASSUME TypeOK, Shapes, Contention, Displacing, TwoPrimariesNeedOverlap, [Next]_vars
             PROVE  Displacing' /\ TwoPrimariesNeedOverlap'
    OBVIOUS
<1>1. CASE (\E i \in Integration : DeleteIntegration(i)) \/ UNCHANGED vars
    <2>1. Primaries' \subseteq Primaries /\ UNCHANGED <<req, crossed>>
        BY <1>1 DEF DeleteIntegration, vars, tables, history, Primaries, Live, TypeOK
    <2> QED
        BY <2>1 DEF Displacing, TwoPrimariesNeedOverlap
<1>2. ASSUME NEW s \in Slot, Beginning(s) PROVE Displacing' /\ TwoPrimariesNeedOverlap'
    <2>1. /\ Primaries' = Primaries /\ crossed \subseteq crossed'
          /\ \A t \in Slot \ {s} : req'[t] = req[t]
        BY <1>2, BeginningCrosses DEF tables, Primaries, Live
    <2>2. req'[s].promote /\ req'[s].at = "ready" => req'[s].others = Primaries
        <3>1. ASSUME NEW i \in Integration, NEW c \in Secret, BeginCreate(s, i, c)
              PROVE  req'[s].others = Primaries
            BY <3>1 DEF BeginCreate, Begin, Asks, TypeOK
        <3>2. ASSUME NEW i \in Integration, NEW c \in Secret \cup {None}, NEW b \in BOOLEAN,
                     BeginUpdate(s, i, c, b)
              PROVE  ~(req'[s].promote /\ req'[s].at = "ready")
            BY <3>2 DEF BeginUpdate, Begin, Asks, TypeOK
        <3>0. ASSUME NEW r, Begin(s, r), r.promote = FALSE PROVE ~req'[s].promote
            <4>1. req'[s] = r
                BY <3>0 DEF Begin, TypeOK
            <4> QED
                BY <3>0, <4>1
        <3>3. ASSUME NEW i, BeginVerify(s, i) PROVE ~req'[s].promote
            <4>1. PICK r : r = [Asks("verify", i) EXCEPT !.seen = integration[i]]
                OBVIOUS
            <4>2. r.promote = FALSE
                BY <4>1 DEF Asks
            <4>3. Begin(s, r)
                BY <3>3, <4>1 DEF BeginVerify
            <4> QED
                BY <3>0, <4>2, <4>3
        <3>4. ASSUME NEW p, NEW k, BeginPutKey(s, p, k) PROVE ~req'[s].promote
            <4>1. PICK r : r = [Asks("putKey", p) EXCEPT !.new = k, !.at = "read", !.seen = key[p]]
                OBVIOUS
            <4>2. r.promote = FALSE
                BY <4>1 DEF Asks
            <4>3. Begin(s, r)
                BY <3>4, <4>1 DEF BeginPutKey
            <4> QED
                BY <3>0, <4>2, <4>3
        <3>5. ASSUME NEW p, BeginVerifyKey(s, p) PROVE ~req'[s].promote
            <4>1. PICK r : r = [Asks("verifyKey", p) EXCEPT !.seen = key[p]]
                OBVIOUS
            <4>2. r.promote = FALSE
                BY <4>1 DEF Asks
            <4>3. Begin(s, r)
                BY <3>5, <4>1 DEF BeginVerifyKey
            <4> QED
                BY <3>0, <4>2, <4>3
        <3>6. ASSUME NEW p, BeginDropKey(s, p) PROVE ~req'[s].promote
            <4>1. Asks("dropKey", p).promote = FALSE
                BY DEF Asks
            <4>2. Begin(s, Asks("dropKey", p))
                BY <3>6 DEF BeginDropKey
            <4> QED
                BY <3>0, <4>1, <4>2
        <3>7. ASSUME BeginGet(s) PROVE ~req'[s].promote
            <4>1. PICK r : r = [Asks("get", DefaultProvider) EXCEPT !.at = "seed"]
                OBVIOUS
            <4>2. r.promote = FALSE
                BY <4>1 DEF Asks
            <4>3. Begin(s, r)
                BY <3>7, <4>1 DEF BeginGet
            <4> QED
                BY <3>0, <4>2, <4>3
        <3>8. ASSUME NEW x, NEW m, BeginPatch(s, x, m) PROVE ~req'[s].promote
            <4>1. PICK r : r = [Asks("patch", x) EXCEPT !.new = m, !.at = IF config = None THEN "seed" ELSE "read"]
                OBVIOUS
            <4>2. r.promote = FALSE
                BY <4>1 DEF Asks
            <4>3. Begin(s, r)
                BY <3>8, <4>1 DEF BeginPatch
            <4> QED
                BY <3>0, <4>2, <4>3
        <3> QED
            BY <1>2, <3>1, <3>2, <3>3, <3>4, <3>5, <3>6, <3>7, <3>8 DEF Beginning
    <2>3. Displacing'
        BY <2>1, <2>2 DEF Displacing
    <2> QED
        BY <2>1, <2>3 DEF TwoPrimariesNeedOverlap
<1>3. ASSUME NEW s \in Slot, Reading(s) PROVE Displacing' /\ TwoPrimariesNeedOverlap'
    <2>1. Primaries' = Primaries /\ crossed' = crossed
        BY <1>3 DEF Reading, ReadPrimaries, ReadConfig, LoadConfig, Seed, Fail, tables, history,
           Primaries, Live
    <2>2. GoesOn(s)
        BY <1>3, ReadersTypes DEF Reading
    <2>3. \A t \in Slot \ {s} : req'[t] = req[t]
        BY <2>2 DEF GoesOn, TypeOK
    <2>4. CASE ReadPrimaries(s)
        <3>1. req'[s].others = Primaries \ {req[s].on} /\ req'[s].on = req[s].on
            <4>1. req[s] \in Request \ {Idle}
                BY <2>4 DEF ReadPrimaries, Ready, TypeOK
            <4> QED
                BY <2>4, <4>1 DEF ReadPrimaries, TypeOK, Request
        <3> QED
            BY <2>1, <2>3, <3>1 DEF Displacing, TwoPrimariesNeedOverlap
    <2>5. CASE ReadConfig(s) \/ LoadConfig(s) \/ Seed(s)
        <3>1. ~req[s].promote /\ req[s] # Idle
            BY <2>5 DEF ReadConfig, LoadConfig, Seed, Ready, Shapes, Shape
        <3>2. req'[s] = Idle \/ ~req'[s].promote
            BY <2>2, <3>1 DEF GoesOn, TypeOK
        <3> QED
            BY <2>1, <2>3, <3>2 DEF Displacing, TwoPrimariesNeedOverlap
    <2> QED
        BY <1>3, <2>4, <2>5 DEF Reading
<1>4. ASSUME NEW s \in Slot, Writing(s) PROVE Displacing' /\ TwoPrimariesNeedOverlap'
    <2>1. /\ req'[s] = Idle /\ crossed' = crossed /\ req[s] # Idle
          /\ \A t \in Slot \ {s} : req'[t] = req[t]
        BY <1>4, WritersTypes DEF Writing, Ends, TypeOK
    <2>2. CASE Primaries' \subseteq Primaries
        BY <2>1, <2>2 DEF Displacing, TwoPrimariesNeedOverlap
    <2>3. CASE /\ req[s].promote /\ req[s].at = "ready"
               /\ Primaries' \subseteq (Primaries \ req[s].others) \cup {req[s].on}
        <3>1. \A j \in Primaries' : j # req[s].on => j \in Primaries /\ {req[s].on, j} \in crossed
            BY <2>1, <2>3 DEF Displacing
        <3>2. \A x, y : {x, y} = {y, x}
            OBVIOUS
        <3>3. TwoPrimariesNeedOverlap'
            <4> SUFFICES ASSUME NEW i \in Primaries', NEW j \in Primaries', i # j
                         PROVE  {i, j} \in crossed
                BY <2>1 DEF TwoPrimariesNeedOverlap
            <4>1. CASE i = req[s].on
                BY <3>1, <4>1
            <4>2. CASE j = req[s].on
                BY <3>1, <3>2, <4>2
            <4>3. CASE i # req[s].on /\ j # req[s].on
                BY <3>1, <4>3 DEF TwoPrimariesNeedOverlap
            <4> QED
                BY <4>1, <4>2, <4>3
        <3>4. ASSUME NEW t \in Slot, t # s, req[t] # Idle, req[t].promote
              PROVE  {req[t].on, req[s].on} \in crossed
            BY <2>1, <2>3, <3>4 DEF Contention
        <3>5. Displacing'
            <4> SUFFICES ASSUME NEW t \in Slot, req'[t] # Idle, req'[t].promote, req'[t].at = "ready",
                                NEW j \in Primaries'
                         PROVE  j \in req'[t].others \/ j = req'[t].on \/ {req'[t].on, j} \in crossed
                BY <2>1 DEF Displacing
            <4>1. t # s /\ req'[t] = req[t]
                BY <2>1
            <4>2. CASE j = req[s].on
                BY <3>4, <4>1, <4>2
            <4>3. CASE j # req[s].on
                BY <3>1, <4>1, <4>3 DEF Displacing
            <4> QED
                BY <4>2, <4>3
        <3> QED
            BY <3>3, <3>5
    <2> QED
        BY <1>4, <2>2, <2>3, WritingPrimaries
<1> QED
    BY <1>1, <1>2, <1>3, <1>4, NextCases

\* However many requests promote, demote, verify and delete the integrations of a
\* domain, two are primary only if both were made so by requests under way at the
\* same time (settings_service.py, create_integration and update_integration).
THEOREM PrimariesCollideOnlyByOverlap == Spec => []TwoPrimariesNeedOverlap
<1>1. Init => Contention /\ Displacing /\ TwoPrimariesNeedOverlap
    BY DEF Init, Contention, Displacing, TwoPrimariesNeedOverlap, Primaries, Live
<1> QED
    BY <1>1, InitTypes, NextTypes, NextContention, NextPrimaries, PTL DEF Spec

---------------------------------------------------------------------------
(* Verified configurations and keys *)

\* The row an update or a verification has read is still as it was read, unless
\* another request about it was under way at the same time.
RowAsSeen ==
    \A s \in Slot, i \in Integration :
        req[s] # Idle /\ req[s].op \in {"update", "verify"} /\ req[s].on = i /\ Live(i) =>
            \/ {i} \in crossed
            \/ integration[i].secret = req[s].seen.secret /\ integration[i].status = req[s].seen.status

IntegrationsChecked ==
    \A i \in Integration : Live(i) /\ integration[i].status = "active" =>
        <<i, integration[i].secret>> \in checked \/ {i} \in crossed

\* A request of any kind leaves every integration but its own as it is or demoted.
LEMMA WritingKeeps ==
    ASSUME TypeOK, Shapes, NEW s \in Slot, Writing(s)
    PROVE  /\ \A j \in Integration : j # req[s].on => KeptRow(j)
           /\ checked \subseteq checked'
           /\ req'[s] = Idle /\ req[s] # Idle /\ crossed' = crossed
           /\ \A t \in Slot \ {s} : req'[t] = req[t]
<1>1. ASSUME CommitCreate(s) \/ CommitUpdate(s)
      PROVE  (\A j \in Integration : j # req[s].on => KeptRow(j)) /\ checked \subseteq checked'
    BY <1>1, CreateWrites, UpdateWrites DEF history
<1>2. ASSUME NEW ok \in BOOLEAN, FinishVerify(s, ok)
      PROVE  (\A j \in Integration : j # req[s].on => KeptRow(j)) /\ checked \subseteq checked'
    BY <1>2, VerifyWrites
<1>3. ASSUME PutKey(s) \/ DropKey(s) \/ KeyAccepted(s) \/ KeyRefused(s) \/ CommitPatch(s)
      PROVE  (\A j \in Integration : j # req[s].on => KeptRow(j)) /\ checked \subseteq checked'
    <2>1. integration' = integration /\ checked \subseteq checked'
        BY <1>3 DEF PutKey, DropKey, KeyAccepted, KeyRefused, CommitPatch, Fail, tables, history
    <2> QED
        BY <2>1 DEF KeptRow, Live
<1>4. /\ req'[s] = Idle /\ req[s] # Idle /\ crossed' = crossed
      /\ \A t \in Slot \ {s} : req'[t] = req[t]
    BY WritersTypes DEF Writing, Ends, TypeOK
<1> QED
    BY <1>1, <1>2, <1>3, <1>4 DEF Writing, Verdicts

\* The written row itself.
LEMMA WritingChecks ==
    ASSUME TypeOK, Shapes, RowAsSeen, IntegrationsChecked, NEW s \in Slot, Writing(s),
           NEW i \in Integration, i = req[s].on, Live(i)', integration'[i].status = "active"
    PROVE  <<i, integration'[i].secret>> \in checked' \/ {i} \in crossed
<1>0. req[s] # Idle
    BY WritingKeeps
<1>1. CASE integration' = integration
    <2>1. checked \subseteq checked'
        BY WritingKeeps
    <2> QED
        BY <1>1, <2>1 DEF IntegrationsChecked, Live
<1>2. CASE integration' # integration
    <2>1. ~CommitCreate(s)
        BY <1>2, CreateWrites
    <2>2. CASE CommitUpdate(s)
        <3>1. /\ Live(i) /\ checked' = checked
              /\ integration'[i].secret = IF req[s].new = None THEN integration[i].secret ELSE req[s].new
              /\ integration'[i].status = IF req[s].new # None /\ req[s].seen.status # "pending"
                                          THEN "pending" ELSE integration[i].status
            BY <1>2, <2>2, UpdateWrites DEF history, Live
        <3>2. integration[i].status = "active" /\ (req[s].new # None => req[s].seen.status = "pending")
            BY <3>1
        <3>3. CASE req[s].new = None
            BY <3>1, <3>2, <3>3 DEF IntegrationsChecked
        <3>4. CASE req[s].new # None
            <4>1. req[s].op = "update"
                BY <2>2 DEF CommitUpdate, Ready
            <4> QED
                BY <1>0, <3>1, <3>2, <3>4, <4>1 DEF RowAsSeen
        <3> QED
            BY <3>3, <3>4
    <2>3. ASSUME NEW ok \in BOOLEAN, FinishVerify(s, ok)
          PROVE  <<i, integration'[i].secret>> \in checked' \/ {i} \in crossed
        <3>1. /\ Live(i) /\ integration'[i].secret = integration[i].secret
              /\ checked' = IF ok THEN checked \cup {<<i, req[s].seen.secret>>} ELSE checked
              /\ integration'[i].status = IF ok /\ req[s].seen.status # "active" THEN "active"
                                          ELSE IF ~ok /\ req[s].seen.status # "failed" THEN "failed"
                                          ELSE integration[i].status
            BY <2>3, VerifyWrites DEF Live
        <3>2. req[s].op = "verify"
            BY <2>3 DEF FinishVerify, Ready
        <3>3. CASE integration[i].status = "active"
            BY <3>1, <3>3 DEF IntegrationsChecked
        <3>4. CASE integration[i].status # "active"
            <4>1. ok
                BY <3>1, <3>4
            <4>2. <<i, req[s].seen.secret>> \in checked'
                BY <3>1, <4>1
            <4> QED
                BY <1>0, <3>1, <3>2, <4>2 DEF RowAsSeen
        <3> QED
            BY <3>3, <3>4
    <2>4. integration' = integration \/ CommitCreate(s) \/ CommitUpdate(s)
          \/ \E ok \in BOOLEAN : FinishVerify(s, ok)
        BY DEF Writing, Verdicts, PutKey, DropKey, KeyAccepted, KeyRefused, CommitPatch, Fail, tables
    <2> QED
        BY <1>2, <2>1, <2>2, <2>3, <2>4
<1> QED
    BY <1>1, <1>2

LEMMA NextIntegrationsChecked ==
    TypeOK /\ Shapes /\ Contention /\ RowAsSeen /\ IntegrationsChecked /\ [Next]_vars
        => RowAsSeen' /\ IntegrationsChecked'
<1> SUFFICES ASSUME TypeOK, Shapes, Contention, RowAsSeen, IntegrationsChecked, [Next]_vars
             PROVE  RowAsSeen' /\ IntegrationsChecked'
    OBVIOUS
<1>1. ASSUME NEW i \in Integration, DeleteIntegration(i) PROVE RowAsSeen' /\ IntegrationsChecked'
    <2>1. (\A j \in Integration : KeptRow(j)) /\ UNCHANGED <<req, crossed, checked>>
        BY <1>1, DeletionTypes DEF DeleteIntegration, history
    <2> QED
        BY <2>1 DEF KeptRow, RowAsSeen, IntegrationsChecked
<1>2. CASE UNCHANGED vars
    BY <1>2 DEF vars, tables, history, RowAsSeen, IntegrationsChecked, Live
<1>3. ASSUME NEW s \in Slot, Beginning(s) PROVE RowAsSeen' /\ IntegrationsChecked'
    <2>1. /\ integration' = integration /\ checked' = checked /\ crossed \subseteq crossed'
          /\ \A t \in Slot \ {s} : req'[t] = req[t]
        BY <1>3, BeginningCrosses DEF tables
    <2>2. req'[s].op \in {"update", "verify"} => req'[s].seen = integration[req'[s].on]
        <3>1. ASSUME NEW i \in Integration, NEW c \in Secret \cup {None}, NEW b \in BOOLEAN,
                     BeginUpdate(s, i, c, b)
              PROVE  req'[s].seen = integration[req'[s].on]
            BY <3>1 DEF BeginUpdate, Begin, Asks, TypeOK
        <3>2. ASSUME NEW i \in Integration, BeginVerify(s, i)
              PROVE  req'[s].seen = integration[req'[s].on]
            BY <3>2 DEF BeginVerify, Begin, Asks, TypeOK
        <3>3. ASSUME NEW i, NEW c, BeginCreate(s, i, c) PROVE req'[s].op = "create"
            BY <3>3 DEF BeginCreate, Begin, Asks, TypeOK
        <3>4. ASSUME NEW p, NEW k, BeginPutKey(s, p, k) PROVE req'[s].op = "putKey"
            BY <3>4 DEF BeginPutKey, Begin, Asks, TypeOK
        <3>5. ASSUME NEW p, BeginVerifyKey(s, p) PROVE req'[s].op = "verifyKey"
            BY <3>5 DEF BeginVerifyKey, Begin, Asks, TypeOK
        <3>6. ASSUME NEW x, NEW m, BeginPatch(s, x, m) PROVE req'[s].op = "patch"
            BY <3>6 DEF BeginPatch, Begin, Asks, TypeOK
        <3>7. ASSUME NEW p, BeginDropKey(s, p) PROVE req'[s].op = "dropKey"
            BY <3>7 DEF BeginDropKey, Begin, Asks, TypeOK
        <3>8. ASSUME BeginGet(s) PROVE req'[s].op = "get"
            BY <3>8 DEF BeginGet, Begin, Asks, TypeOK
        <3> QED
            BY <1>3, <3>1, <3>2, <3>3, <3>4, <3>5, <3>6, <3>7, <3>8 DEF Beginning
    <2>3. RowAsSeen'
        BY <2>1, <2>2 DEF RowAsSeen, Live
    <2> QED
        BY <2>1, <2>3 DEF IntegrationsChecked, Live
<1>4. ASSUME NEW s \in Slot, Reading(s) PROVE RowAsSeen' /\ IntegrationsChecked'
    <2>1. integration' = integration /\ checked' = checked /\ crossed' = crossed
        BY <1>4 DEF Reading, ReadPrimaries, ReadConfig, LoadConfig, Seed, Fail, tables, history
    <2>2. \A t \in Slot : req'[t] # Idle => /\ req[t] # Idle /\ req'[t].op = req[t].op
                                            /\ req'[t].on = req[t].on /\ req'[t].seen = req[t].seen
        BY <1>4, ReadersTypes DEF Reading, GoesOn, TypeOK
    <2> QED
        BY <2>1, <2>2 DEF RowAsSeen, IntegrationsChecked, Live
<1>5. ASSUME NEW s \in Slot, Writing(s) PROVE RowAsSeen' /\ IntegrationsChecked'
    <2>1. /\ \A j \in Integration : j # req[s].on => KeptRow(j)
          /\ checked \subseteq checked'
          /\ req'[s] = Idle /\ req[s] # Idle /\ crossed' = crossed
          /\ \A t \in Slot \ {s} : req'[t] = req[t]
        BY <1>5, WritingKeeps
    <2>2. ASSUME NEW t \in Slot \ {s}, req[t] # Idle, req[t].on = req[s].on
          PROVE  {req[s].on} \in crossed
        <3>1. {req[s].on, req[s].on} = {req[s].on}
            OBVIOUS
        <3> QED
            BY <2>1, <2>2, <3>1 DEF Contention
    <2>3. RowAsSeen'
        <3> SUFFICES ASSUME NEW t \in Slot, NEW i \in Integration, req'[t] # Idle,
                            req'[t].op \in {"update", "verify"}, req'[t].on = i, Live(i)'
                     PROVE  \/ {i} \in crossed
                            \/ /\ integration'[i].secret = req'[t].seen.secret
                               /\ integration'[i].status = req'[t].seen.status
            BY <2>1 DEF RowAsSeen
        <3>1. t \in Slot \ {s} /\ req'[t] = req[t]
            BY <2>1
        <3>2. CASE i = req[s].on
            BY <2>2, <3>1, <3>2
        <3>3. CASE i # req[s].on
            BY <2>1, <3>1, <3>3 DEF RowAsSeen, KeptRow
        <3> QED
            BY <3>2, <3>3
    <2>4. ASSUME NEW i \in Integration, Live(i)', integration'[i].status = "active"
          PROVE  <<i, integration'[i].secret>> \in checked' \/ {i} \in crossed'
        <3>1. CASE i = req[s].on
            BY <1>5, <2>1, <2>4, <3>1, WritingChecks
        <3>2. CASE i # req[s].on
            BY <2>1, <2>4, <3>2 DEF KeptRow, IntegrationsChecked
        <3> QED
            BY <3>1, <3>2
    <2> QED
        BY <2>3, <2>4 DEF IntegrationsChecked
<1> QED
    BY <1>1, <1>2, <1>3, <1>4, <1>5, NextCases

\* The same for keys: as long as the row is the one that was read.
KeyAsSeen ==
    \A s \in Slot, p \in Provider :
        /\ req[s] # Idle /\ req[s].op \in {"putKey", "verifyKey"} /\ req[s].on = p
        /\ req[s].seen # None /\ key[p] # None /\ key[p].id = req[s].seen.id
        => \/ {p} \in crossed
           \/ key[p].secret = req[s].seen.secret /\ key[p].verified = req[s].seen.verified

KeysChecked ==
    \A p \in Provider : key[p] # None /\ key[p].verified =>
        <<p, key[p].secret>> \in checked \/ {p} \in crossed

LEMMA WritingKeys ==
    ASSUME TypeOK, Shapes, KeyAsSeen, KeysChecked, NEW s \in Slot, Writing(s)
    PROVE  /\ \A q \in Provider : q # req[s].on => key'[q] = key[q]
           /\ \A p \in Provider : p = req[s].on /\ key'[p] # None /\ key'[p].verified =>
                  <<p, key'[p].secret>> \in checked' \/ {p} \in crossed
<1>0. req[s] # Idle /\ checked \subseteq checked'
    BY WritingKeeps
<1>1. ASSUME CommitCreate(s) \/ CommitUpdate(s) \/ KeyRefused(s) \/ CommitPatch(s)
             \/ \E ok \in Verdicts : FinishVerify(s, ok)
      PROVE  key' = key
    BY <1>1 DEF CommitCreate, CommitUpdate, KeyRefused, CommitPatch, FinishVerify, Fail, tables
<1>2. CASE key' = key
    BY <1>0, <1>2 DEF KeysChecked
<1>3. CASE DropKey(s)
    BY <1>3 DEF DropKey, TypeOK
<1>4. CASE PutKey(s) /\ key' # key
    <2>1. PICK p \in Provider : p = req[s].on
        BY <1>4, PutKeyWrites
    <2>2. /\ \A q \in Provider \ {p} : key'[q] = key[q]
          /\ key'[p] \in KeyRow
          /\ IF req[s].seen = None THEN key'[p].verified = FALSE
             ELSE /\ key[p] # None /\ key[p].id = req[s].seen.id
                  /\ key'[p].verified = TRUE => key[p].verified = TRUE /\ req[s].seen.verified = FALSE
        BY <1>4, <2>1, PutKeyWrites
    <2>3. key'[p].verified \in BOOLEAN
        BY <2>2 DEF KeyRow
    <2>4. req[s].op = "putKey"
        BY <1>4 DEF PutKey, Ready
    <2>5. key'[p].verified = TRUE => {p} \in crossed
        BY <1>0, <2>1, <2>2, <2>4 DEF KeyAsSeen
    <2> QED
        BY <2>1, <2>2, <2>3, <2>5
<1>5. CASE KeyAccepted(s) /\ key' # key
    <2>1. PICK p \in Provider : p = req[s].on
        BY <1>5, KeyAcceptedWrites
    <2>2. /\ \A q \in Provider \ {p} : key'[q] = key[q]
          /\ key[p] # None /\ key[p].id = req[s].seen.id
          /\ key'[p].secret = key[p].secret /\ req[s].seen \in KeyRow
          /\ checked' = checked \cup {<<p, req[s].seen.secret>>}
        BY <1>5, <2>1, KeyAcceptedWrites
    <2>3. req[s].op = "verifyKey"
        BY <1>5 DEF KeyAccepted, Ready
    <2>4. {p} \in crossed \/ key[p].secret = req[s].seen.secret
        BY <1>0, <2>1, <2>2, <2>3, RowsAssumption DEF KeyAsSeen
    <2> QED
        BY <2>1, <2>2, <2>4
<1> QED
    BY <1>1, <1>2, <1>3, <1>4, <1>5 DEF Writing

LEMMA NextKeysChecked ==
    TypeOK /\ Shapes /\ Contention /\ KeyAsSeen /\ KeysChecked /\ [Next]_vars
        => KeyAsSeen' /\ KeysChecked'
<1> SUFFICES ASSUME TypeOK, Shapes, Contention, KeyAsSeen, KeysChecked, [Next]_vars
             PROVE  KeyAsSeen' /\ KeysChecked'
    OBVIOUS
<1>1. CASE (\E i \in Integration : DeleteIntegration(i)) \/ UNCHANGED vars
    BY <1>1 DEF DeleteIntegration, vars, tables, history, KeyAsSeen, KeysChecked
<1>2. ASSUME NEW s \in Slot, Beginning(s) PROVE KeyAsSeen' /\ KeysChecked'
    <2>1. /\ key' = key /\ checked' = checked /\ crossed \subseteq crossed'
          /\ \A t \in Slot \ {s} : req'[t] = req[t]
        BY <1>2, BeginningCrosses DEF tables
    <2>2. req'[s].op \in {"putKey", "verifyKey"} => req'[s].seen = key[req'[s].on]
        <3>1. ASSUME NEW p, NEW k, BeginPutKey(s, p, k) PROVE req'[s].seen = key[req'[s].on]
            BY <3>1 DEF BeginPutKey, Begin, Asks, TypeOK
        <3>2. ASSUME NEW p, BeginVerifyKey(s, p) PROVE req'[s].seen = key[req'[s].on]
            BY <3>2 DEF BeginVerifyKey, Begin, Asks, TypeOK
        <3>3. ASSUME NEW i, NEW c, BeginCreate(s, i, c) PROVE req'[s].op = "create"
            BY <3>3 DEF BeginCreate, Begin, Asks, TypeOK
        <3>4. ASSUME NEW i, NEW c, NEW b, BeginUpdate(s, i, c, b) PROVE req'[s].op = "update"
            BY <3>4 DEF BeginUpdate, Begin, Asks, TypeOK
        <3>5. ASSUME NEW i, BeginVerify(s, i) PROVE req'[s].op = "verify"
            BY <3>5 DEF BeginVerify, Begin, Asks, TypeOK
        <3>6. ASSUME NEW x, NEW m, BeginPatch(s, x, m) PROVE req'[s].op = "patch"
            BY <3>6 DEF BeginPatch, Begin, Asks, TypeOK
        <3>7. ASSUME NEW p, BeginDropKey(s, p) PROVE req'[s].op = "dropKey"
            BY <3>7 DEF BeginDropKey, Begin, Asks, TypeOK
        <3>8. ASSUME BeginGet(s) PROVE req'[s].op = "get"
            BY <3>8 DEF BeginGet, Begin, Asks, TypeOK
        <3> QED
            BY <1>2, <3>1, <3>2, <3>3, <3>4, <3>5, <3>6, <3>7, <3>8 DEF Beginning
    <2>3. KeyAsSeen'
        BY <2>1, <2>2 DEF KeyAsSeen
    <2> QED
        BY <2>1, <2>3 DEF KeysChecked
<1>3. ASSUME NEW s \in Slot, Reading(s) PROVE KeyAsSeen' /\ KeysChecked'
    <2>1. key' = key /\ checked' = checked /\ crossed' = crossed
        BY <1>3 DEF Reading, ReadPrimaries, ReadConfig, LoadConfig, Seed, Fail, tables, history
    <2>2. \A t \in Slot : req'[t] # Idle => /\ req[t] # Idle /\ req'[t].op = req[t].op
                                            /\ req'[t].on = req[t].on /\ req'[t].seen = req[t].seen
        BY <1>3, ReadersTypes DEF Reading, GoesOn, TypeOK
    <2> QED
        BY <2>1, <2>2 DEF KeyAsSeen, KeysChecked
<1>4. ASSUME NEW s \in Slot, Writing(s) PROVE KeyAsSeen' /\ KeysChecked'
    <2>1. /\ checked \subseteq checked'
          /\ req'[s] = Idle /\ req[s] # Idle /\ crossed' = crossed
          /\ \A t \in Slot \ {s} : req'[t] = req[t]
        BY <1>4, WritingKeeps
    <2>2. ASSUME NEW t \in Slot \ {s}, req[t] # Idle, req[t].on = req[s].on
          PROVE  {req[s].on} \in crossed
        <3>1. {req[s].on, req[s].on} = {req[s].on}
            OBVIOUS
        <3> QED
            BY <2>1, <2>2, <3>1 DEF Contention
    <2>3. /\ \A q \in Provider : q # req[s].on => key'[q] = key[q]
          /\ \A p \in Provider : p = req[s].on /\ key'[p] # None /\ key'[p].verified =>
                 <<p, key'[p].secret>> \in checked' \/ {p} \in crossed
        BY <1>4, WritingKeys
    <2>4. KeyAsSeen'
        <3> SUFFICES ASSUME NEW t \in Slot, NEW p \in Provider, req'[t] # Idle,
                            req'[t].op \in {"putKey", "verifyKey"}, req'[t].on = p,
                            req'[t].seen # None, key'[p] # None, key'[p].id = req'[t].seen.id
                     PROVE  \/ {p} \in crossed
                            \/ /\ key'[p].secret = req'[t].seen.secret
                               /\ key'[p].verified = req'[t].seen.verified
            BY <2>1 DEF KeyAsSeen
        <3>1. t \in Slot \ {s} /\ req'[t] = req[t]
            BY <2>1
        <3>2. CASE p = req[s].on
            BY <2>2, <3>1, <3>2
        <3>3. CASE p # req[s].on
            BY <2>3, <3>1, <3>3 DEF KeyAsSeen
        <3> QED
            BY <3>2, <3>3
    <2>5. KeysChecked'
        BY <2>1, <2>3 DEF KeysChecked
    <2> QED
        BY <2>4, <2>5
<1> QED
    BY <1>1, <1>2, <1>3, <1>4, NextCases

\* What is shown as active or verified holds exactly what a verifier accepted,
\* whatever was edited, promoted, deleted or verified meanwhile, unless two requests
\* about it overlapped (settings_service.py, verify_integration; provider_service.py,
\* verify_provider_key).
THEOREM VerifiedIsChecked == Spec => []VerifiedMeansChecked
<1>1. Init => Contention /\ RowAsSeen /\ IntegrationsChecked /\ KeyAsSeen /\ KeysChecked
    BY DEF Init, Contention, RowAsSeen, IntegrationsChecked, KeyAsSeen, KeysChecked, Live
<1>2. IntegrationsChecked /\ KeysChecked => VerifiedMeansChecked
    BY DEF IntegrationsChecked, KeysChecked, VerifiedMeansChecked
<1> QED
    BY <1>1, <1>2, InitTypes, NextTypes, NextContention, NextIntegrationsChecked, NextKeysChecked,
       PTL DEF Spec

---------------------------------------------------------------------------
(* The active provider's key *)

\* A request that is about to delete a key passed the check that its provider is not
\* the active one; what made the provider active since is recorded.
DropsOthers ==
    \A s \in Slot, p \in Provider :
        req[s] # Idle /\ req[s].op = "dropKey" /\ req[s].on = p /\ config # None
            /\ config.provider = p => p \in chosen \/ {p} \in crossed

LEMMA NextKeyKept ==
    TypeOK /\ Shapes /\ Contention /\ DropsOthers /\ ActiveKeyKept /\ [Next]_vars
        => DropsOthers' /\ ActiveKeyKept'
<1> SUFFICES ASSUME TypeOK, Shapes, Contention, DropsOthers, ActiveKeyKept, [Next]_vars
             PROVE  DropsOthers' /\ ActiveKeyKept'
    OBVIOUS
<1>1. CASE (\E i \in Integration : DeleteIntegration(i)) \/ UNCHANGED vars
    BY <1>1 DEF DeleteIntegration, vars, tables, history, DropsOthers, ActiveKeyKept, KeyForRun
<1>2. ASSUME NEW s \in Slot, Beginning(s) PROVE DropsOthers' /\ ActiveKeyKept'
    <2>1. /\ UNCHANGED <<key, config, chosen>> /\ crossed \subseteq crossed'
          /\ \A t \in Slot \ {s} : req'[t] = req[t]
        BY <1>2, BeginningCrosses DEF tables
    <2>2. req'[s].op = "dropKey" => (config # None => config.provider # req'[s].on)
        <3>1. ASSUME NEW p, BeginDropKey(s, p) PROVE config # None => config.provider # req'[s].on
            BY <3>1 DEF BeginDropKey, Begin, Asks, TypeOK
        <3>2. ASSUME NEW p, NEW k, BeginPutKey(s, p, k) PROVE req'[s].op = "putKey"
            BY <3>2 DEF BeginPutKey, Begin, Asks, TypeOK
        <3>3. ASSUME NEW p, BeginVerifyKey(s, p) PROVE req'[s].op = "verifyKey"
            BY <3>3 DEF BeginVerifyKey, Begin, Asks, TypeOK
        <3>4. ASSUME NEW i, NEW c, BeginCreate(s, i, c) PROVE req'[s].op = "create"
            BY <3>4 DEF BeginCreate, Begin, Asks, TypeOK
        <3>5. ASSUME NEW i, NEW c, NEW b, BeginUpdate(s, i, c, b) PROVE req'[s].op = "update"
            BY <3>5 DEF BeginUpdate, Begin, Asks, TypeOK
        <3>6. ASSUME NEW i, BeginVerify(s, i) PROVE req'[s].op = "verify"
            BY <3>6 DEF BeginVerify, Begin, Asks, TypeOK
        <3>7. ASSUME NEW x, NEW m, BeginPatch(s, x, m) PROVE req'[s].op = "patch"
            BY <3>7 DEF BeginPatch, Begin, Asks, TypeOK
        <3>8. ASSUME BeginGet(s) PROVE req'[s].op = "get"
            BY <3>8 DEF BeginGet, Begin, Asks, TypeOK
        <3> QED
            BY <1>2, <3>1, <3>2, <3>3, <3>4, <3>5, <3>6, <3>7, <3>8 DEF Beginning
    <2>3. DropsOthers'
        BY <2>1, <2>2 DEF DropsOthers
    <2> QED
        BY <2>1, <2>3 DEF ActiveKeyKept, KeyForRun
<1>3. ASSUME NEW s \in Slot, GoesOn(s),
             /\ config' = config \/ (config' # None /\ config'.provider \in chosen')
                \/ (config # None /\ config' # None /\ config'.provider = config.provider)
             /\ chosen \subseteq chosen' /\ key' = key
      PROVE  DropsOthers' /\ ActiveKeyKept'
    <2>1. /\ \A t \in Slot : req'[t] # Idle => req[t] # Idle /\ req'[t].op = req[t].op /\ req'[t].on = req[t].on
          /\ crossed' = crossed
        BY <1>3 DEF GoesOn, TypeOK
    <2> QED
        BY <1>3, <2>1 DEF DropsOthers, ActiveKeyKept, KeyForRun
<1>4. ASSUME NEW s \in Slot, Reading(s) PROVE DropsOthers' /\ ActiveKeyKept'
    <2>1. /\ config' = config \/ (config' # None /\ config'.provider \in chosen')
          /\ chosen \subseteq chosen' /\ key' = key
        <3>1. CASE ReadPrimaries(s) \/ ReadConfig(s) \/ LoadConfig(s)
            BY <3>1 DEF ReadPrimaries, ReadConfig, LoadConfig, tables, history
        <3>2. CASE Seed(s)
            <4>1. PICK row : row = [provider |-> DefaultProvider, custom |-> None]
                OBVIOUS
            <4>2. row \in ConfigRow /\ row # None /\ row.provider = DefaultProvider
                BY <4>1, SettingsAssumption, RowsAssumption DEF ConfigRow
            <4> QED
                BY <3>2, <4>1, <4>2 DEF Seed, Fail, tables, history
        <3> QED
            BY <1>4, <3>1, <3>2 DEF Reading
    <2>2. GoesOn(s)
        BY <1>4, ReadersTypes DEF Reading
    <2> QED
        BY <1>3, <2>1, <2>2
<1>5. ASSUME NEW s \in Slot, Writing(s) PROVE DropsOthers' /\ ActiveKeyKept'
    <2>0. GoesOn(s)
        BY <1>5, WritersTypes DEF Writing
    <2>a. /\ req'[s] = Idle /\ req[s] # Idle /\ crossed' = crossed
          /\ \A t \in Slot \ {s} : req'[t] = req[t]
        BY <1>5, WritingKeeps
    <2>1. CASE CommitCreate(s) \/ CommitUpdate(s) \/ KeyRefused(s) \/ \E ok \in Verdicts : FinishVerify(s, ok)
        <3>1. UNCHANGED <<key, config, chosen>>
            BY <2>1 DEF CommitCreate, CommitUpdate, KeyRefused, FinishVerify, Fail, tables, history
        <3> QED
            BY <1>3, <2>0, <3>1
    <2>2. CASE KeyAccepted(s)
        <3>1. UNCHANGED <<config, chosen>>
            BY <2>2 DEF KeyAccepted
        <3>2. \A q \in Provider : key'[q] = None => key[q] = None
            BY <2>2, KeyAcceptedWrites, RowsAssumption
        <3>3. config # None => config.provider \in Provider
            BY DEF TypeOK, ConfigRow
        <3> QED
            BY <2>a, <3>1, <3>2, <3>3 DEF DropsOthers, ActiveKeyKept, KeyForRun
    <2>3. CASE CommitPatch(s)
        <3>1. /\ key' = key /\ chosen \subseteq chosen' /\ config # None /\ config' # None
              /\ config'.provider \in chosen' \/ config'.provider = config.provider
            BY <2>3, CommitPatchWrites, RowsAssumption
        <3> QED
            BY <1>3, <2>0, <3>1
    <2>4. CASE DropKey(s)
        <3>1. PICK p : p = req[s].on
            OBVIOUS
        <3>2. /\ key' = [key EXCEPT ![p] = None] /\ UNCHANGED <<config, chosen>>
              /\ req[s].op = "dropKey"
            BY <2>4, <3>1 DEF DropKey, Ready, history
        <3>3. config # None => config.provider \in Provider
            BY DEF TypeOK, ConfigRow
        <3>4. config # None /\ config.provider = p => p \in chosen \/ {p} \in crossed
            BY <2>a, <3>1, <3>2, <3>3 DEF DropsOthers
        <3> QED
            BY <2>a, <3>2, <3>3, <3>4 DEF DropsOthers, ActiveKeyKept, KeyForRun, TypeOK
    <2>5. CASE PutKey(s) /\ UNCHANGED <<key, config, chosen>>
        BY <1>3, <2>0, <2>5
    <2>6. CASE PutKey(s) /\ ~UNCHANGED <<key, config, chosen>>
        <3>1. PICK p \in Provider : p = req[s].on
            BY <2>6, PutKeyWrites
        <3>2. /\ \A q \in Provider \ {p} : key'[q] = key[q]
              /\ key'[p] # None /\ config' \in ConfigRow /\ config' # None
              /\ config'.provider = p \/ (config # None /\ config'.provider = config.provider)
              /\ chosen' = chosen \ {p}
            BY <2>6, <3>1, PutKeyWrites, RowsAssumption
        <3>3. config'.provider \in Provider
            BY <3>2 DEF ConfigRow
        <3>4. ASSUME NEW t \in Slot \ {s}, req[t] # Idle, req[t].on = p
              PROVE  {p} \in crossed
            <4>1. {p, p} = {p}
                OBVIOUS
            <4> QED
                BY <2>a, <3>1, <3>4, <4>1 DEF Contention
        <3>5. DropsOthers'
            <4> SUFFICES ASSUME NEW t \in Slot, NEW q \in Provider, req'[t] # Idle,
                                req'[t].op = "dropKey", req'[t].on = q,
                                config' # None, config'.provider = q
                         PROVE  q \in chosen' \/ {q} \in crossed'
                BY DEF DropsOthers
            <4>1. t # s /\ req'[t] = req[t] /\ crossed' = crossed
                BY <2>a
            <4>2. CASE q = p
                BY <3>4, <4>1, <4>2
            <4>3. CASE q # p
                <5>1. config # None /\ config.provider = q /\ chosen' = chosen \ {p}
                    BY <3>2, <4>3
                <5> QED
                    BY <4>1, <4>3, <5>1 DEF DropsOthers
            <4> QED
                BY <4>2, <4>3
        <3>6. ActiveKeyKept'
            BY <2>a, <3>2, <3>3 DEF ActiveKeyKept, KeyForRun
        <3> QED
            BY <3>5, <3>6
    <2> QED
        BY <1>5, <2>1, <2>2, <2>3, <2>4, <2>5, <2>6 DEF Writing
<1> QED
    BY <1>1, <1>2, <1>4, <1>5, NextCases

\* The active provider keeps its key, whatever keys are stored and deleted: it is left
\* without one only if it was chosen without a key, or became active while its key
\* was being deleted (provider_service.py, delete_provider_key).
THEOREM ActiveProviderKeepsKey == Spec => []ActiveKeyKept
<1>1. Init => Contention /\ DropsOthers /\ ActiveKeyKept
    BY DEF Init, Contention, DropsOthers, ActiveKeyKept
<1> QED
    BY <1>1, InitTypes, NextTypes, NextContention, NextKeyKept, PTL DEF Spec
=============================================================================
