------------------------- MODULE Workspaces_proofs -------------------------
(***************************************************************************)
(* Proofs about Workspaces, for any workspaces, users, requests and grace  *)
(* period: what the cleanup job may delete, which files and rows stay, and *)
(* that a workspace keeps its one owner.                                   *)
(***************************************************************************)
EXTENDS Workspaces, FiniteSetTheorems, TLAPS

---------------------------------------------------------------------------
(* Types *)

\* What a request names is what its route was given.
Asked ==
    \A s \in Slot :
        /\ req[s].op \in {"invite", "patch"} => req[s].on \in User /\ req[s].new \in {"operator", "admin"}
        /\ req[s].op = "remove" => req[s].on \in User

\* Which of its lists the job is at.
Lists ==
    /\ job \in {"workspaces", "deleting"} => todo \subseteq Workspace
    /\ job = "deleting" => current \in todo
    /\ job = "users" => todo \subseteq User

LEMMA InitTypes == Init => TypeOK /\ Asked /\ Lists
BY WorkspacesAssumption DEF Init, TypeOK, Asked, Lists, Time, Request, Filing, Idle

\* Loading a request gives a request.
LEMMA LoadedTypes ==
    ASSUME TypeOK, NEW op \in Op, NEW u \in User, NEW w \in Workspace, NEW t \in Target(op),
           op \notin AccountOps => RoleOf(w, u) \in MinRole(op)
    PROVE  /\ Loaded(op, u, w, t) \in Request
           /\ Loaded(op, u, w, t).op = op /\ Loaded(op, u, w, t).by = u
           /\ Loaded(op, u, w, t).ws = w
           /\ op \in {"invite", "patch"} => /\ Loaded(op, u, w, t).on \in User
                                            /\ Loaded(op, u, w, t).new \in {"operator", "admin"}
           /\ op = "remove" => Loaded(op, u, w, t).on \in User
<1>1. /\ op \in {"invite", "patch"} => t[1] \in User /\ t[2] \in {"operator", "admin"}
      /\ op = "remove" => t[1] \in User
      /\ t[1] \in User \cup {None} /\ t[2] \in {"operator", "admin", None}
    BY DEF Target
<1>2. op = "patch" => RoleOf(w, u) \in Role
    BY DEF MinRole, Role, AccountOps, AdminOps, OwnerOps
<1>3. PICK seen : seen = [x \in Workspace |->
                  IF op \in {"cancel", "leave", "restore"} THEN scheduled[x] ELSE None]
    OBVIOUS
<1>4. seen \in [Workspace -> Time \cup {None, Unborn, Gone}]
    BY <1>3 DEF TypeOK
<1>5. PICK role : role = IF op = "patch" THEN RoleOf(w, u) ELSE None
    OBVIOUS
<1>6. role \in Role \cup {None}
    BY <1>2, <1>5
<1>7. Loaded(op, u, w, t) = [op |-> op, by |-> u, ws |-> w, on |-> t[1], new |-> t[2],
                             role |-> role, seen |-> seen]
    BY <1>3, <1>5 DEF Loaded
<1> QED
    BY <1>1, <1>4, <1>6, <1>7 DEF Request

\* The request that begins.
LEMMA BeginTypes ==
    ASSUME TypeOK, Asked, Lists, NEW s \in Slot, NEW op \in Op, NEW u \in User, NEW w \in Workspace,
           NEW t \in Target(op), Begin(s, op, u, w, t)
    PROVE  TypeOK' /\ Asked' /\ Lists'
<1>1. PICK q : q = Loaded(op, u, w, t)
    OBVIOUS
<1>2. /\ q \in Request /\ q.op = op
      /\ op \in {"invite", "patch"} => q.on \in User /\ q.new \in {"operator", "admin"}
      /\ op = "remove" => q.on \in User
    BY <1>1, LoadedTypes DEF Begin
<1>3. req' = [req EXCEPT ![s] = q] /\ begun' \in 0..MaxRequests
    BY <1>1, WorkspacesAssumption DEF Begin, TypeOK
<1>4. req' \in [Slot -> Request]
    BY <1>2, <1>3 DEF TypeOK
<1>5. crossed' \subseteq Workspace
    <2>1. \A z \in Slot : req[z].op \in Op => req[z].ws \in Workspace
        BY DEF TypeOK, Request, Idle, Op, AdminOps, OwnerOps, AccountOps
    <2>2. {"leave"} \subseteq Op
        BY DEF Op, AccountOps
    <2>3. PICK other : /\ \A z \in other : z \in Slot /\ req[z].op \in Op
                       /\ crossed' = crossed \cup (IF other = {} THEN {}
                             ELSE OwnedBy(u) \cup {w} \cup {req[z].ws : z \in other})
        BY <2>2 DEF Begin, CrossedBy, BusyFor
    <2> QED
        BY <2>1, <2>3 DEF OwnedBy, TypeOK
<1> QED
    BY <1>2, <1>3, <1>4, <1>5 DEF Begin, TypeOK, Asked, Lists, rows, jobVars
\* A request that ends.
LEMMA EndTypes ==
    ASSUME TypeOK, Asked, NEW s \in Slot, End(s)
    PROVE  req' \in [Slot -> Request] /\ begun' \in 0..MaxRequests /\ Asked'
BY DEF End, TypeOK, Asked, Request, Idle

\* What a request under way holds.
LEMMA Held ==
    ASSUME TypeOK, NEW s \in Slot, req[s].op \in Op
    PROVE  /\ req[s] \in Request /\ req[s].by \in User /\ req[s].ws \in Workspace
           /\ req[s].seen \in [Workspace -> Time \cup {None, Unborn, Gone}]
BY DEF TypeOK, Request, Idle, Op, AdminOps, OwnerOps, AccountOps

LEMMA Ops == /\ {"invite", "patch", "remove", "schedule", "cancel"} \subseteq Op
             /\ {"create", "leave", "restore"} \subseteq Op
             /\ "idle" \notin Op
BY DEF Op, AdminOps, OwnerOps, AccountOps

\* Clearing deletion times leaves times.
LEMMA RestoredTypes ==
    ASSUME TypeOK, NEW q, NEW W, W \subseteq Workspace
    PROVE  Restored(q, W) \in [Workspace \cup User -> Time \cup {None, Unborn, Gone}]
BY DEF Restored, TypeOK

LEMMA WriteTypes ==
    ASSUME TypeOK, Asked, Lists, NEW s \in Slot, Write(s)
    PROVE  TypeOK' /\ Asked' /\ Lists'
<1> USE DEF rows, files, jobVars, history
<1>0. ASSUME Refuse(s) PROVE TypeOK' /\ Asked' /\ Lists'
    BY <1>0, EndTypes DEF Refuse, TypeOK, Lists
<1>1. ASSUME CreateWorkspace(s) PROVE TypeOK' /\ Asked' /\ Lists'
    <2>1. CASE Refuse(s)
        BY <1>0, <2>1
    <2>2. CASE ~Refuse(s)
        <3>1. PICK w, u : w = req[s].ws /\ u = req[s].by
            OBVIOUS
        <3>2. w \in Workspace /\ u \in User
            BY <1>1, <3>1, Held, Ops DEF CreateWorkspace
        <3>3. /\ scheduled' = [scheduled EXCEPT ![w] = None]
              /\ member' = [member EXCEPT ![<<w, u>>] = Founder]
              /\ End(s) /\ UNCHANGED <<files, now, jobVars, history>>
            BY <1>1, <2>2, <3>1 DEF CreateWorkspace
        <3>4. Founder \in Membership
            BY DEF Founder, Membership, Role
        <3> QED
            BY <3>2, <3>3, <3>4, EndTypes DEF TypeOK, Lists
    <2> QED
        BY <2>1, <2>2
<1>2. ASSUME InviteMember(s) PROVE TypeOK' /\ Asked' /\ Lists'
    <2>1. CASE Refuse(s)
        BY <1>0, <2>1
    <2>2. CASE ~Refuse(s)
        <3>1. PICK w, u, v, new : w = req[s].ws /\ u = req[s].by /\ v = req[s].on /\ new = req[s].new
            OBVIOUS
        <3>2. w \in Workspace /\ u \in User /\ v \in User /\ new \in Role
            BY <1>2, <3>1, Held, Ops DEF InviteMember, Asked, Role
        <3>3. PICK row : row = [role |-> new, status |-> "pending", by |-> u]
            OBVIOUS
        <3>4. /\ scheduled' = [scheduled EXCEPT ![v] = IF @ = Unborn THEN None ELSE @]
              /\ member' = [member EXCEPT ![<<w, v>>] = row]
              /\ End(s) /\ UNCHANGED <<files, now, jobVars, history>>
            BY <1>2, <2>2, <3>1, <3>3 DEF InviteMember
        <3>5. row \in Membership
            BY <3>2, <3>3 DEF Membership
        <3> QED
            BY <3>2, <3>4, <3>5, EndTypes DEF TypeOK, Lists
    <2> QED
        BY <2>1, <2>2
<1>3. ASSUME UpdateMemberRole(s) PROVE TypeOK' /\ Asked' /\ Lists'
    <2>1. CASE Refuse(s)
        BY <1>0, <2>1
    <2>2. CASE ~Refuse(s)
        <3>1. PICK w, v, new : w = req[s].ws /\ v = req[s].on /\ new = req[s].new
            OBVIOUS
        <3>2. w \in Workspace /\ v \in User /\ new \in Role
            BY <1>3, <3>1, Held, Ops DEF UpdateMemberRole, Asked, Role
        <3>3. /\ member[<<w, v>>] # None
              /\ member' = [member EXCEPT ![<<w, v>>].role = new]
              /\ End(s) /\ UNCHANGED <<scheduled, files, now, jobVars, history>>
            BY <1>3, <2>2, <3>1 DEF UpdateMemberRole
        <3>4. PICK row : row = [member[<<w, v>>] EXCEPT !.role = new]
            OBVIOUS
        <3>5. row \in Membership
            BY <3>2, <3>3, <3>4 DEF Membership, TypeOK
        <3>6. member' = [member EXCEPT ![<<w, v>>] = row]
            BY <3>3, <3>4
        <3> QED
            BY <3>2, <3>3, <3>5, <3>6, EndTypes DEF TypeOK, Lists
    <2> QED
        BY <2>1, <2>2
<1>4. ASSUME RemoveMember(s) PROVE TypeOK' /\ Asked' /\ Lists'
    <2>1. CASE Refuse(s)
        BY <1>0, <2>1
    <2>2. CASE ~Refuse(s)
        <3>1. PICK w, v : w = req[s].ws /\ v = req[s].on
            OBVIOUS
        <3>2. w \in Workspace /\ v \in User
            BY <1>4, <3>1, Held, Ops DEF RemoveMember, Asked
        <3>3. /\ member' = [member EXCEPT ![<<w, v>>] = None]
              /\ End(s) /\ UNCHANGED <<scheduled, files, now, jobVars, history>>
            BY <1>4, <2>2, <3>1 DEF RemoveMember
        <3> QED
            BY <3>2, <3>3, EndTypes DEF TypeOK, Lists
    <2> QED
        BY <2>1, <2>2
<1>6. ASSUME ScheduleWorkspace(s) PROVE TypeOK' /\ Asked' /\ Lists'
    <2>1. CASE Refuse(s)
        BY <1>0, <2>1
    <2>2. CASE ~Refuse(s)
        <3>1. req[s].ws \in Workspace
            BY <1>6, Held, Ops DEF ScheduleWorkspace
        <3> QED
            BY <1>6, <2>2, <3>1, EndTypes DEF ScheduleWorkspace, TypeOK, Lists
    <2> QED
        BY <2>1, <2>2
<1>7. ASSUME CancelWorkspace(s) PROVE TypeOK' /\ Asked' /\ Lists'
    <2>1. req[s].ws \in Workspace
        BY <1>7, Held, Ops DEF CancelWorkspace
    <2>2. scheduled' \in [Workspace \cup User -> Time \cup {None, Unborn, Gone}]
        BY <1>7, <2>1, RestoredTypes DEF CancelWorkspace
    <2>3. kept' \subseteq Workspace
        BY <1>7, <2>1 DEF CancelWorkspace, KeptAfter, TypeOK
    <2> QED
        BY <1>7, <2>2, <2>3, EndTypes DEF CancelWorkspace, TypeOK, Lists
<1>8. ASSUME ScheduleAccount(s) PROVE TypeOK' /\ Asked' /\ Lists'
    <2>1. CASE Refuse(s)
        BY <1>0, <2>1
    <2>2. CASE ~Refuse(s)
        <3>1. req[s].by \in User
            BY <1>8, Held, Ops DEF ScheduleAccount
        <3>2. PICK W : /\ scheduled' = [x \in DOMAIN scheduled |->
                                           IF x \in W \cup {req[s].by} THEN now ELSE scheduled[x]]
                       /\ kept' = kept \ W
            BY <1>8, <2>2 DEF ScheduleAccount
        <3>3. /\ End(s)
              /\ UNCHANGED <<member, files, now, jobVars, crossed, stray, faulted>>
            BY <1>8, <2>2 DEF ScheduleAccount
        <3>4. scheduled' \in [Workspace \cup User -> Time \cup {None, Unborn, Gone}]
            BY <3>1, <3>2 DEF TypeOK
        <3> QED
            BY <3>2, <3>3, <3>4, EndTypes DEF TypeOK, Lists
    <2> QED
        BY <2>1, <2>2
<1>9. ASSUME RestoreAccount(s) PROVE TypeOK' /\ Asked' /\ Lists'
    <2>1. OwnedBy(req[s].by) \subseteq Workspace
        BY DEF OwnedBy
    <2>2. scheduled' \in [Workspace \cup User -> Time \cup {None, Unborn, Gone}]
        BY <1>9, <2>1, RestoredTypes DEF RestoreAccount
    <2>3. kept' \subseteq Workspace
        BY <1>9, <2>1 DEF RestoreAccount, KeptAfter, TypeOK
    <2> QED
        BY <1>9, <2>2, <2>3, EndTypes DEF RestoreAccount, TypeOK, Lists
<1> QED
    BY <1>1, <1>2, <1>3, <1>4, <1>6, <1>7, <1>8, <1>9 DEF Write

LEMMA FileTypes ==
    ASSUME TypeOK, Asked, Lists, NEW s \in Slot, File(s)
    PROVE  TypeOK' /\ Asked' /\ Lists'
<1> USE WorkspacesAssumption DEF jobVars, history
<1>1. ASSUME NEW op \in {"upload", "drop"}, NEW d \in Workspace \X User, StartFiling(s, op, d)
      PROVE  filing' \in [Slot -> Filing] /\ begun' \in 0..MaxRequests
    <2>1. [op |-> op, doc |-> d] \in Filing
        BY DEF Filing
    <2> QED
        BY <1>1, <2>1 DEF StartFiling, TypeOK
<1>2. EndFiling(s) => filing' \in [Slot -> Filing]
    BY DEF EndFiling, TypeOK, Filing
<1>3. filing[s].op \in {"upload", "drop", "unlink"} => filing[s].doc \in Workspace \X User
    BY DEF TypeOK, Filing, Idle
<1>4. ASSUME NEW d \in Workspace \X User, BeginUpload(s, d) PROVE TypeOK' /\ Asked' /\ Lists'
    <2>1. filing' \in [Slot -> Filing] /\ begun' \in 0..MaxRequests
        BY <1>1, <1>4 DEF BeginUpload
    <2> QED
        BY <1>4, <2>1 DEF BeginUpload, TypeOK, Asked, Lists
<1>5. CASE CommitUpload(s)
    <2>1. document' \subseteq Workspace \X User
        BY <1>3, <1>5 DEF CommitUpload, TypeOK
    <2> QED
        BY <1>2, <1>5, <2>1 DEF CommitUpload, TypeOK, Asked, Lists
<1>6. ASSUME NEW d \in Workspace \X User, BeginDrop(s, d) PROVE TypeOK' /\ Asked' /\ Lists'
    <2>1. filing' \in [Slot -> Filing] /\ begun' \in 0..MaxRequests
        BY <1>1, <1>6 DEF BeginDrop
    <2> QED
        BY <1>6, <2>1 DEF BeginDrop, TypeOK, Asked, Lists
<1>7. CASE DropRow(s)
    <2>1. [filing[s] EXCEPT !.op = "unlink"] \in Filing
        BY <1>7 DEF DropRow, TypeOK, Filing, Idle
    <2> QED
        BY <1>7, <2>1 DEF DropRow, TypeOK, Asked, Lists
<1>8. CASE Unlink(s)
    BY <1>2, <1>8 DEF Unlink, TypeOK, Asked, Lists
<1>9. CASE FailFiling(s)
    <2>1. stray' \subseteq Workspace \X User
        BY <1>3, <1>9 DEF FailFiling, TypeOK, Filing
    <2> QED
        BY <1>2, <1>9, <2>1 DEF FailFiling, TypeOK, Asked, Lists
<1> QED
    BY <1>4, <1>5, <1>6, <1>7, <1>8, <1>9 DEF File

LEMMA CleanupTypes ==
    ASSUME TypeOK, Asked, Lists,
           \/ Cleanup \/ FailWorkspace \/ Tick
           \/ \E w \in Workspace : \E stay \in SUBSET file : RemoveFiles(w, stay)
    PROVE  TypeOK' /\ Asked' /\ Lists'
<1> USE WorkspacesAssumption DEF rows, files, jobVars, history
<1>1. ASSUME StartCleanup PROVE TypeOK' /\ Asked' /\ Lists'
    BY <1>1 DEF StartCleanup, TypeOK, Asked, Lists, Time
<1>2. ASSUME NEW w \in Workspace, NEW stay, RemoveFiles(w, stay) PROVE TypeOK' /\ Asked' /\ Lists'
    <2>1. stray' \subseteq Workspace \X User /\ file' \subseteq Workspace \X User
        BY <1>2 DEF RemoveFiles, TypeOK, Uploads, Filing, Idle
    <2> QED
        BY <1>2, <2>1 DEF RemoveFiles, TypeOK, Asked, Lists
<1>3. ASSUME CommitWorkspace PROVE TypeOK' /\ Asked' /\ Lists'
    BY <1>3 DEF CommitWorkspace, TypeOK, Asked, Lists
<1>4. ASSUME FailWorkspace PROVE TypeOK' /\ Asked' /\ Lists'
    BY <1>4 DEF FailWorkspace, TypeOK, Asked, Lists
<1>5. ASSUME ListUsers PROVE TypeOK' /\ Asked' /\ Lists'
    BY <1>5 DEF ListUsers, TypeOK, Asked, Lists
<1>6. ASSUME NEW u \in User, DeleteUser(u) PROVE TypeOK' /\ Asked' /\ Lists'
    <2>1. stray' \subseteq Workspace \X User
        BY <1>6 DEF DeleteUser, TypeOK, Uploads, Filing, Idle
    <2> QED
        BY <1>6, <2>1 DEF DeleteUser, TypeOK, Asked, Lists
<1>7. ASSUME EndCleanup PROVE TypeOK' /\ Asked' /\ Lists'
    BY <1>7 DEF EndCleanup, TypeOK, Asked, Lists
<1>8. ASSUME Tick PROVE TypeOK' /\ Asked' /\ Lists'
    BY <1>8 DEF Tick, TypeOK, Asked, Lists, Time
<1> QED
    BY <1>1, <1>2, <1>3, <1>4, <1>5, <1>6, <1>7, <1>8 DEF Cleanup

LEMMA NextTypes == TypeOK /\ Asked /\ Lists /\ [Next]_vars => TypeOK' /\ Asked' /\ Lists'
<1> SUFFICES ASSUME TypeOK, Asked, Lists, [Next]_vars PROVE TypeOK' /\ Asked' /\ Lists'
    OBVIOUS
<1>1. CASE UNCHANGED vars
    BY <1>1 DEF vars, rows, jobVars, history, TypeOK, Asked, Lists
<1> QED
    BY <1>1, BeginTypes, WriteTypes, FileTypes, CleanupTypes DEF Next

\* Every variable keeps its type, and the request in a slot is one of a user and a
\* workspace (the dependencies of the routers).
THEOREM TypeCorrect == Spec => []TypeOK
<1> QED
    BY InitTypes, NextTypes, PTL DEF Spec
---------------------------------------------------------------------------
(* What exists, and its rows and files *)

\* No request deletes a workspace or a user, or brings a deleted one back.
LEMMA WriteKeeps ==
    ASSUME TypeOK, NEW s \in Slot, Write(s), NEW x \in Workspace \cup User
    PROVE  (Exists(x) => scheduled'[x] \notin {Unborn, Gone}) /\ (scheduled[x] = Gone => scheduled'[x] = Gone)
<1> USE WorkspacesAssumption
<1>0. now # Unborn /\ now # Gone
    <2>1. now \in Int
        BY DEF TypeOK, Time
    <2> QED
        BY <2>1
<1>1. CASE Refuse(s)
    BY <1>1 DEF Refuse, rows, Exists
<1>2. CASE CreateWorkspace(s) /\ ~Refuse(s)
    BY <1>2 DEF CreateWorkspace, Exists, TypeOK
<1>3. CASE InviteMember(s) /\ ~Refuse(s)
    BY <1>3 DEF InviteMember, Exists, TypeOK
<1>4. CASE UNCHANGED scheduled
    BY <1>4 DEF Exists
<1>5. CASE ScheduleWorkspace(s) /\ ~Refuse(s)
    BY <1>0, <1>5 DEF ScheduleWorkspace, Exists, TypeOK
<1>6. CASE CancelWorkspace(s) \/ RestoreAccount(s)
    BY <1>6 DEF CancelWorkspace, RestoreAccount, Restored, Exists, TypeOK
<1>7. CASE ScheduleAccount(s) /\ ~Refuse(s)
    <2>1. PICK W : /\ \A w \in W : Exists(w)
                   /\ scheduled' = [z \in DOMAIN scheduled |->
                                       IF z \in W \cup {req[s].by} THEN now ELSE scheduled[z]]
        BY <1>7 DEF ScheduleAccount
    <2>2. Exists(req[s].by)
        BY <1>7 DEF ScheduleAccount
    <2> QED
        BY <1>0, <2>1, <2>2 DEF Exists, TypeOK
<1>8. UpdateMemberRole(s) \/ RemoveMember(s) => Refuse(s) \/ UNCHANGED scheduled
    BY DEF UpdateMemberRole, RemoveMember
<1> QED
    BY <1>1, <1>2, <1>3, <1>4, <1>5, <1>6, <1>7, <1>8 DEF Write

\* Requests about documents leave everything else alone.
LEMMA FileLeaves ==
    ASSUME NEW s \in Slot, File(s)
    PROVE  UNCHANGED <<scheduled, member, now, req, jobVars, kept, crossed, faulted>>
BY DEF File, BeginUpload, CommitUpload, BeginDrop, DropRow, Unlink, FailFiling, history

\* Who is a member exists, and so does the workspace: both keys cascade.
MembersExist ==
    \A w \in Workspace, u \in User : member[<<w, u>>] # None => Exists(w) /\ Exists(u)

LEMMA NextMembers == TypeOK /\ Asked /\ Lists /\ MembersExist /\ [Next]_vars => MembersExist'
<1> SUFFICES ASSUME TypeOK, Asked, Lists, MembersExist, [Next]_vars PROVE MembersExist'
    OBVIOUS
<1> USE WorkspacesAssumption DEF MembersExist
<1>1. ASSUME \A x \in Workspace \cup User : Exists(x) => scheduled'[x] \notin {Unborn, Gone},
             \A w \in Workspace, u \in User :
                 member'[<<w, u>>] # None => member[<<w, u>>] # None \/ (Exists(w)' /\ Exists(u)')
      PROVE  MembersExist'
    BY <1>1 DEF Exists
<1>2. CASE UNCHANGED <<scheduled, member>>
    BY <1>2 DEF Exists
<1>3. ASSUME NEW s \in Slot, Write(s) PROVE MembersExist'
    <2>1. \A x \in Workspace \cup User : Exists(x) => scheduled'[x] \notin {Unborn, Gone}
        BY <1>3, WriteKeeps
    <2>2. CASE member' = member
        BY <1>1, <2>1, <2>2
    <2>3. CASE CreateWorkspace(s) /\ ~Refuse(s)
        <3>1. PICK w, u : w = req[s].ws /\ u = req[s].by
            OBVIOUS
        <3>2. /\ w \in Workspace /\ u \in User /\ Exists(u)
              /\ scheduled' = [scheduled EXCEPT ![w] = None]
              /\ member' = [member EXCEPT ![<<w, u>>] = Founder]
            BY <2>3, <3>1, Held, Ops DEF CreateWorkspace
        <3>3. Exists(w)' /\ Exists(u)'
            BY <2>1, <3>2 DEF TypeOK, Exists
        <3>4. \A x \in Workspace, v \in User : <<x, v>> # <<w, u>> => member'[<<x, v>>] = member[<<x, v>>]
            BY <3>2 DEF TypeOK
        <3> QED
            BY <1>1, <2>1, <3>3, <3>4
    <2>4. CASE InviteMember(s) /\ ~Refuse(s)
        <3>1. PICK w, v : w = req[s].ws /\ v = req[s].on
            OBVIOUS
        <3>2. PICK row : row = [role |-> req[s].new, status |-> "pending", by |-> req[s].by]
            OBVIOUS
        <3>3. /\ w \in Workspace /\ v \in User /\ Exists(w) /\ scheduled[v] # Gone
              /\ scheduled' = [scheduled EXCEPT ![v] = IF @ = Unborn THEN None ELSE @]
              /\ member' = [member EXCEPT ![<<w, v>>] = row]
            BY <2>4, <3>1, <3>2, Held, Ops DEF InviteMember, Asked
        <3>4. Exists(w)' /\ Exists(v)'
            BY <2>1, <3>3 DEF TypeOK, Exists
        <3>5. \A x \in Workspace, u \in User : <<x, u>> # <<w, v>> => member'[<<x, u>>] = member[<<x, u>>]
            BY <3>3 DEF TypeOK
        <3> QED
            BY <1>1, <2>1, <3>4, <3>5
    <2>5. CASE (UpdateMemberRole(s) \/ RemoveMember(s)) /\ ~Refuse(s)
        <3>1. PICK w, v, new : w = req[s].ws /\ v = req[s].on /\ new = req[s].new
            OBVIOUS
        <3>2. PICK row : row \in {None, [member[<<w, v>>] EXCEPT !.role = new]}
                         /\ member' = [member EXCEPT ![<<w, v>>] = row]
            BY <2>5, <3>1 DEF UpdateMemberRole, RemoveMember
        <3>3. w \in Workspace /\ v \in User /\ member[<<w, v>>] # None
            BY <2>5, <3>1, Held, Ops DEF UpdateMemberRole, RemoveMember, Asked
        <3>4. \A x \in Workspace, u \in User : member'[<<x, u>>] # None => member[<<x, u>>] # None
            BY <3>2, <3>3 DEF TypeOK
        <3> QED
            BY <1>1, <2>1, <3>4
    <2> QED
        BY <1>3, <2>2, <2>3, <2>4, <2>5
        DEF Write, CreateWorkspace, InviteMember, UpdateMemberRole, RemoveMember,
            ScheduleWorkspace, CancelWorkspace, ScheduleAccount, RestoreAccount, Refuse, rows
<1>4. CASE CommitWorkspace
    <2>1. /\ scheduled' = [scheduled EXCEPT ![current] = Gone]
          /\ member' = [p \in DOMAIN member |-> IF p[1] = current THEN None ELSE member[p]]
          /\ current \in Workspace
        BY <1>4 DEF CommitWorkspace, Lists
    <2>2. \A w \in Workspace, u \in User : member'[<<w, u>>] # None => w # current /\ member[<<w, u>>] # None
        BY <2>1 DEF TypeOK
    <2>3. \A x \in Workspace \cup User : x # current => scheduled'[x] = scheduled[x]
        BY <2>1 DEF TypeOK
    <2> QED
        BY <2>1, <2>2, <2>3 DEF Exists
<1>5. ASSUME NEW d \in User, DeleteUser(d) PROVE MembersExist'
    <2>1. CASE Referenced(d)
        BY <1>2, <1>5, <2>1 DEF DeleteUser
    <2>2. CASE ~Referenced(d)
        <3>1. /\ scheduled' = [scheduled EXCEPT ![d] = Gone]
              /\ member' = [p \in DOMAIN member |-> IF p[2] = d THEN None ELSE member[p]]
            BY <1>5, <2>2 DEF DeleteUser
        <3>2. \A w \in Workspace, u \in User : member'[<<w, u>>] # None => u # d /\ member[<<w, u>>] # None
            BY <3>1 DEF TypeOK
        <3>3. \A x \in Workspace \cup User : x # d => scheduled'[x] = scheduled[x]
            BY <3>1 DEF TypeOK
        <3> QED
            BY <3>2, <3>3 DEF Exists
    <2> QED
        BY <2>1, <2>2
<1>6. ASSUME NEW s \in Slot, File(s) PROVE MembersExist'
    BY <1>2, <1>6, FileLeaves
<1>7. CASE UNCHANGED vars \/ StartCleanup \/ ListUsers \/ EndCleanup \/ FailWorkspace \/ Tick
    BY <1>2, <1>7 DEF vars, StartCleanup, ListUsers, EndCleanup, FailWorkspace, Tick, rows
<1>8. ASSUME NEW w \in Workspace, NEW stay, RemoveFiles(w, stay) PROVE MembersExist'
    BY <1>2, <1>8 DEF RemoveFiles
<1>9. ASSUME NEW s \in Slot, NEW op, NEW u, NEW w, NEW t, Begin(s, op, u, w, t) PROVE MembersExist'
    BY <1>2, <1>9 DEF Begin, rows
<1> QED
    BY <1>2, <1>3, <1>4, <1>5, <1>6, <1>7, <1>8, <1>9 DEF Next, Cleanup

\* An upload has written the file of a document that no other request is about; its
\* row can be inserted, or it overlapped a hard deletion.  A file is removed after
\* its row.
Filed ==
    \A s \in Slot :
        /\ filing[s].op = "upload" =>
              /\ filing[s].doc \in file /\ filing[s].doc \notin document
              /\ \A z \in Of(filing[s].doc) : z = s
              /\ filing[s].doc \notin stray => /\ Exists(filing[s].doc[1]) /\ Exists(filing[s].doc[2])
                                               /\ ~(job = "deleting" /\ filing[s].doc[1] = current)
        /\ filing[s].op = "unlink" => filing[s].doc \notin document

\* Of the workspace whose files are removed only such files are left.
DeletedFiles ==
    job = "deleting" =>
        \A d \in file : d[1] = current => d \in stray \/ \E s \in Of(d) : filing[s].op = "unlink"

FilesInv == Filed /\ DeletedFiles /\ FilesFollowRows

\* Steps that leave documents, files and the requests about them alone.
LEMMA QuietFiles ==
    ASSUME TypeOK, FilesInv, UNCHANGED <<document, file, filing, stray>>, faulted \subseteq faulted',
           \A x \in Workspace \cup User : Exists(x) => scheduled'[x] \notin {Unborn, Gone},
           job' = "deleting" => job = "deleting" /\ current' = current,
           job = "deleting" /\ job' # "deleting" => current \in faulted'
    PROVE  FilesInv'
<1>1. \A s \in Slot : filing[s].op = "upload" => filing[s].doc \in Workspace \X User
    BY DEF TypeOK, Filing, Idle
<1>2. \A d : Of(d)' = Of(d)
    BY DEF Of
<1>3. Filed'
    BY <1>1, <1>2 DEF FilesInv, Filed, Exists
<1>4. DeletedFiles'
    BY <1>2 DEF FilesInv, DeletedFiles
<1>5. FilesFollowRows'
    <2>1. \A d \in document : Exists(d[1])' /\ Exists(d[2])'
        BY DEF FilesInv, FilesFollowRows, TypeOK, Exists
    <2>2. \A d \in document : d \in file \/ d[1] \in faulted' \/ (job' = "deleting" /\ current' = d[1])
        BY DEF FilesInv, FilesFollowRows
    <2>3. \A d \in file : d \in document \cup stray \/ \E s \in Of(d)' : filing'[s].op # "drop"
        BY <1>2 DEF FilesInv, FilesFollowRows
    <2> QED
        BY <2>1, <2>2, <2>3 DEF FilesFollowRows
<1> QED
    BY <1>3, <1>4, <1>5 DEF FilesInv

\* Uploads and deletions of documents.
LEMMA FileKeeps ==
    ASSUME TypeOK, MembersExist, FilesInv, NEW s \in Slot, File(s)
    PROVE  FilesInv'
<1> USE DEF FilesInv
<1>0. /\ \A z \in Slot : filing[z].op \in {"upload", "drop", "unlink"} =>
                             filing[z] # Idle /\ filing[z].doc \in Workspace \X User
      /\ Idle.op = "idle"
      /\ \A z \in Slot : filing[z] # Idle => filing[z].op \in {"upload", "drop", "unlink"}
    BY DEF TypeOK, Filing, Idle
<1>1. ASSUME NEW d \in Workspace \X User, BeginUpload(s, d) PROVE FilesInv'
    <2>1. PICK new : new = [op |-> "upload", doc |-> d]
        OBVIOUS
    <2>2. /\ filing[s] = Idle /\ filing' = [filing EXCEPT ![s] = new]
          /\ d \notin file /\ d \notin document /\ Of(d) = {} /\ file' = file \cup {d} /\ member[d] # None
          /\ stray' = IF job = "deleting" /\ current = d[1] THEN stray \cup {d} ELSE stray \ {d}
          /\ UNCHANGED <<scheduled, document, job, current, faulted>>
        BY <1>1, <2>1 DEF BeginUpload, StartFiling, jobVars
    <2>3. /\ filing'[s] = new /\ new # Idle /\ new.op = "upload" /\ new.doc = d
          /\ \A z \in Slot \ {s} : filing'[z] = filing[z]
        BY <2>1, <2>2 DEF TypeOK, Idle
    <2>4. Of(d)' = {s}
        BY <2>2, <2>3 DEF Of
    <2>5. \A c : c # d => Of(c)' = Of(c)
        BY <2>2, <2>3 DEF Of
    <2>6. \A z \in Slot : filing[z] # Idle => filing[z].doc # d
        BY <2>2 DEF Of
    <2>7. \A c : c # d => (c \in stray' <=> c \in stray)
        BY <2>2
    <2>8. Exists(d[1]) /\ Exists(d[2])
        BY <2>2 DEF MembersExist
    <2>9. Filed'
        <3> SUFFICES ASSUME NEW z \in Slot, NEW c, c = filing'[z].doc
                     PROVE  /\ filing'[z].op = "upload" =>
                               /\ c \in file' /\ c \notin document'
                               /\ \A y \in Of(c)' : y = z
                               /\ c \notin stray' => /\ Exists(c[1])' /\ Exists(c[2])'
                                                     /\ ~(job' = "deleting" /\ c[1] = current')
                            /\ filing'[z].op = "unlink" => c \notin document'
            BY DEF Filed, Of, Exists
        <3>1. CASE z = s
            BY <2>2, <2>3, <2>4, <2>8, <3>1 DEF Exists
        <3>2. CASE z # s
            <4>1. filing'[z] = filing[z]
                BY <2>3, <3>2
            <4>2. filing[z].op \in {"upload", "unlink"} => filing[z].doc # d
                BY <1>0, <2>6
            <4> QED
                BY <2>2, <2>5, <2>7, <4>1, <4>2 DEF Filed, Exists
        <3> QED
            BY <3>1, <3>2
    <2>10. \A z \in Slot : filing[z] # Idle => filing'[z] = filing[z]
        BY <2>2, <2>3
    <2>11. DeletedFiles'
        BY <2>2, <2>5, <2>7, <2>10 DEF DeletedFiles, Of
    <2>12. FilesFollowRows'
        <3>1. \A c \in file : c # d => c \in document \cup stray' \/ \E z \in Of(c)' : filing'[z].op # "drop"
            BY <2>5, <2>7, <2>10 DEF FilesFollowRows, Of
        <3>2. \E z \in Of(d)' : filing'[z].op # "drop"
            BY <2>3, <2>4
        <3> QED
            BY <2>2, <3>1, <3>2 DEF FilesFollowRows, Exists
    <2> QED
        BY <2>9, <2>11, <2>12
<1>2. ASSUME CommitUpload(s) PROVE FilesInv'
    <2>1. PICK d : d = filing[s].doc
        OBVIOUS
    <2>2. /\ filing[s].op = "upload" /\ d \in Workspace \X User /\ filing' = [filing EXCEPT ![s] = Idle]
          /\ document' = document \cup (IF Exists(d[1]) /\ Exists(d[2]) THEN {d} ELSE {})
          /\ UNCHANGED <<scheduled, file, job, current, stray, faulted>>
        BY <1>0, <1>2, <2>1 DEF CommitUpload, EndFiling, jobVars, history
    <2>3. filing'[s] = Idle /\ \A z \in Slot \ {s} : filing'[z] = filing[z]
        BY <2>2 DEF TypeOK
    <2>4. /\ d \in file /\ d \notin document /\ Of(d) \subseteq {s}
          /\ d \notin stray => Exists(d[1]) /\ Exists(d[2]) /\ ~(job = "deleting" /\ d[1] = current)
        BY <2>1, <2>2 DEF Filed
    <2>5. \A z \in Slot \ {s} : filing[z] # Idle => filing[z].doc # d
        BY <2>4 DEF Of
    <2>6. \A c : c # d => Of(c)' = Of(c)
        BY <2>1, <2>3 DEF Of
    <2>7. \A c : Of(c)' \subseteq Of(c) \ {s}
        BY <2>3 DEF Of
    <2>8. Filed'
        <3>1. \A z \in Slot : filing'[z].op \in {"upload", "unlink"} =>
                  filing'[z] = filing[z] /\ (filing[z].doc \in document' <=> filing[z].doc \in document)
            BY <1>0, <2>2, <2>3, <2>5
        <3> QED
            BY <1>0, <2>2, <2>3, <2>7, <3>1 DEF Filed, Exists
    <2>9. \A c \in file : c # d => \A z \in Of(c) : z \in Of(c)' /\ filing'[z] = filing[z]
        BY <2>1, <2>3 DEF Of
    <2>10. DeletedFiles'
        <3>1. job = "deleting" /\ d[1] = current => d \in stray
            BY <2>4
        <3> QED
            BY <2>2, <2>9, <3>1 DEF DeletedFiles
    <2>11. FilesFollowRows'
        <3>1. d \in document' \cup stray
            BY <2>2, <2>4
        <3> QED
            BY <2>2, <2>4, <2>9, <3>1 DEF FilesFollowRows, Exists
    <2> QED
        BY <2>8, <2>10, <2>11
<1>3. ASSUME NEW d \in Workspace \X User, BeginDrop(s, d) PROVE FilesInv'
    <2>1. PICK new : new = [op |-> "drop", doc |-> d]
        OBVIOUS
    <2>2. /\ filing[s] = Idle /\ filing' = [filing EXCEPT ![s] = new] /\ d \in document
          /\ UNCHANGED <<scheduled, document, file, job, current, stray, faulted>>
        BY <1>3, <2>1 DEF BeginDrop, StartFiling, jobVars, history
    <2>3. /\ filing'[s] = new /\ new # Idle /\ new.op = "drop" /\ new.doc = d
          /\ \A z \in Slot \ {s} : filing'[z] = filing[z]
        BY <2>1, <2>2 DEF TypeOK, Idle
    <2>4. \A c : c # d => Of(c)' = Of(c)
        BY <2>2, <2>3 DEF Of
    <2>5. \A c, z : z \in Of(c) => z \in Of(c)' /\ filing'[z] = filing[z]
        BY <2>2, <2>3 DEF Of
    <2>6. Filed'
        <3>1. \A z \in Slot : filing'[z].op \in {"upload", "unlink"} =>
                  filing'[z] = filing[z] /\ filing[z].doc # d
            BY <1>0, <2>2, <2>3 DEF Filed
        <3> QED
            BY <2>2, <2>4, <3>1 DEF Filed, Exists
    <2>7. DeletedFiles'
        BY <2>2, <2>5 DEF DeletedFiles
    <2>8. FilesFollowRows'
        BY <2>2, <2>5 DEF FilesFollowRows, Exists
    <2> QED
        BY <2>6, <2>7, <2>8
<1>4. ASSUME DropRow(s) PROVE FilesInv'
    <2>1. PICK d, new : d = filing[s].doc /\ new = [filing[s] EXCEPT !.op = "unlink"]
        OBVIOUS
    <2>2. /\ filing[s].op = "drop" /\ filing[s] # Idle /\ d \in Workspace \X User
          /\ filing' = [filing EXCEPT ![s] = new] /\ document' = document \ {d}
          /\ UNCHANGED <<scheduled, file, job, current, stray, faulted>>
        BY <1>0, <1>4, <2>1 DEF DropRow, jobVars, history
    <2>3. /\ filing'[s] = new /\ new.op = "unlink" /\ new.doc = d /\ new # Idle
          /\ \A z \in Slot \ {s} : filing'[z] = filing[z]
        BY <2>1, <2>2 DEF TypeOK, Filing, Idle
    <2>4. \A c : Of(c)' = Of(c)
        BY <2>1, <2>2, <2>3 DEF Of
    <2>5. s \in Of(d)
        BY <2>1, <2>2 DEF Of
    <2>6. Filed'
        <3>1. \A z \in Slot \ {s} : filing'[z].op \in {"upload", "unlink"} =>
                  filing'[z] = filing[z] /\ (filing[z].doc \in document' => filing[z].doc \in document)
            BY <2>2, <2>3
        <3> QED
            BY <2>2, <2>3, <2>4, <3>1 DEF Filed, Exists
    <2>7. DeletedFiles'
        BY <2>2, <2>3, <2>4, <2>5 DEF DeletedFiles, Of
    <2>8. FilesFollowRows'
        <3>1. \A c \in file : \A z \in Of(c) : filing[z].op # "drop" => filing'[z].op # "drop"
            BY <2>2, <2>3 DEF Of
        <3>2. \E z \in Of(d)' : filing'[z].op # "drop"
            BY <2>3, <2>4, <2>5
        <3> QED
            BY <2>2, <2>4, <3>1, <3>2 DEF FilesFollowRows, Exists
    <2> QED
        BY <2>6, <2>7, <2>8
<1>5. ASSUME Unlink(s) PROVE FilesInv'
    <2>1. PICK d : d = filing[s].doc
        OBVIOUS
    <2>2. /\ filing[s].op = "unlink" /\ filing[s] # Idle /\ d \in Workspace \X User
          /\ filing' = [filing EXCEPT ![s] = Idle] /\ file' = file \ {d}
          /\ UNCHANGED <<scheduled, document, job, current, stray, faulted>>
        BY <1>0, <1>5, <2>1 DEF Unlink, EndFiling, jobVars, history
    <2>3. filing'[s] = Idle /\ \A z \in Slot \ {s} : filing'[z] = filing[z]
        BY <2>2 DEF TypeOK
    <2>4. s \in Of(d) /\ d \notin document
        BY <2>1, <2>2 DEF Of, Filed
    <2>5. \A c : Of(c)' \subseteq Of(c)
        BY <2>3 DEF Of
    <2>6. \A c \in file' : \A z \in Of(c) : z \in Of(c)' /\ filing'[z] = filing[z]
        BY <2>1, <2>2, <2>3 DEF Of
    <2>7. Filed'
        <3>1. \A z \in Slot : filing'[z].op \in {"upload", "unlink"} => z # s /\ filing'[z] = filing[z]
            BY <1>0, <2>3
        <3>2. \A z \in Slot \ {s} : filing[z].op = "upload" => filing[z].doc # d
            BY <2>4 DEF Filed
        <3> QED
            BY <2>2, <2>5, <3>1, <3>2 DEF Filed, Exists
    <2>8. DeletedFiles'
        BY <2>2, <2>6 DEF DeletedFiles
    <2>9. FilesFollowRows'
        BY <2>2, <2>4, <2>6 DEF FilesFollowRows, Exists
    <2> QED
        BY <2>7, <2>8, <2>9
<1>6. ASSUME FailFiling(s) PROVE FilesInv'
    <2>1. PICK d : d = filing[s].doc
        OBVIOUS
    <2>2. /\ filing[s] # Idle /\ filing' = [filing EXCEPT ![s] = Idle]
          /\ stray' = stray \cup (IF filing[s].op = "drop" THEN {} ELSE {d})
          /\ UNCHANGED <<scheduled, document, file, job, current, faulted>>
        BY <1>6, <2>1 DEF FailFiling, EndFiling, jobVars
    <2>3. filing'[s] = Idle /\ \A z \in Slot \ {s} : filing'[z] = filing[z]
        BY <2>2 DEF TypeOK
    <2>4. \A c : Of(c)' \subseteq Of(c)
        BY <2>3 DEF Of
    <2>5. \A c : c \in stray' \/ \A z \in Of(c) : filing[z].op # "drop" => z \in Of(c)' /\ filing'[z] = filing[z]
        BY <2>1, <2>2, <2>3 DEF Of
    <2>6. Filed'
        <3>1. \A z \in Slot : filing'[z].op \in {"upload", "unlink"} => z # s /\ filing'[z] = filing[z]
            BY <1>0, <2>3
        <3> QED
            BY <2>2, <2>4, <3>1 DEF Filed, Exists
    <2>7. DeletedFiles'
        BY <2>2, <2>5 DEF DeletedFiles
    <2>8. FilesFollowRows'
        <3>1. \A c \in file : c \in document \cup stray' \/ \E z \in Of(c)' : filing'[z].op # "drop"
            BY <2>2, <2>5 DEF FilesFollowRows
        <3> QED
            BY <2>2, <3>1 DEF FilesFollowRows, Exists
    <2> QED
        BY <2>6, <2>7, <2>8
<1> QED
    BY <1>1, <1>2, <1>3, <1>4, <1>5, <1>6 DEF File

\* The hard deletion removes files, then rows.
LEMMA DeletionKeeps ==
    ASSUME TypeOK, Lists, FilesInv,
           \/ \E w \in Workspace : \E stay \in SUBSET file : RemoveFiles(w, stay)
           \/ CommitWorkspace
           \/ \E u \in User : DeleteUser(u)
    PROVE  FilesInv'
<1> USE DEF FilesInv
<1>0. /\ \A d : filing' = filing => Of(d)' = Of(d)
      /\ \A d \in Uploads : d \in Workspace \X User
      /\ \A z \in Slot : filing[z].op = "upload" => filing[z].doc \in Uploads
      /\ \A d \in document \cup file : d \in Workspace \X User
    BY DEF Of, Uploads, TypeOK, Filing, Idle
<1>1. ASSUME NEW w \in Workspace, NEW stay, RemoveFiles(w, stay) PROVE FilesInv'
    <2>1. /\ file' = file \ ({d \in document : d[1] = w} \ stay)
          /\ stray' = stray \cup stay \cup {d \in Uploads : d[1] = w}
          /\ stay \subseteq file
          /\ job' = "deleting" /\ current' = w /\ UNCHANGED <<scheduled, document, filing, faulted>>
          /\ job # "deleting"
        BY <1>1 DEF RemoveFiles
    <2>2. Filed'
        <3>1. \A z \in Slot : filing[z].op = "upload" =>
                  filing[z].doc \in file' /\ (filing[z].doc[1] = w => filing[z].doc \in stray')
            BY <1>0, <2>1 DEF Filed
        <3> QED
            BY <1>0, <2>1, <3>1 DEF Filed, Exists
    <2>3. \A d \in file' : d[1] = w =>
              d \in stray' \/ \E s \in Of(d) : filing[s].op = "unlink"
        <3> SUFFICES ASSUME NEW d \in file', d[1] = w, d \notin stray', NEW s \in Of(d), filing[s].op # "drop"
                     PROVE  filing[s].op = "unlink"
            BY <2>1 DEF FilesFollowRows
        <3>1. d \notin Uploads /\ s \in Slot /\ filing[s] # Idle /\ filing[s].doc = d
            BY <2>1 DEF Of
        <3> QED
            BY <1>0, <3>1 DEF TypeOK, Filing
    <2>4. DeletedFiles'
        BY <1>0, <2>1, <2>3 DEF DeletedFiles
    <2>5. FilesFollowRows'
        BY <1>0, <2>1 DEF FilesFollowRows, Exists
    <2> QED
        BY <2>2, <2>4, <2>5
<1>2. ASSUME CommitWorkspace PROVE FilesInv'
    <2>1. /\ current \in Workspace /\ job = "deleting" /\ job' = "workspaces"
          /\ scheduled' = [scheduled EXCEPT ![current] = Gone]
          /\ document' = {d \in document : d[1] # current}
          /\ UNCHANGED <<file, filing, stray, faulted>>
        BY <1>2 DEF CommitWorkspace, Lists, history
    <2>2. \A x \in Workspace \cup User : x # current => scheduled'[x] = scheduled[x]
        BY <2>1 DEF TypeOK
    <2>3. \A d \in Workspace \X User : d[2] # current /\ d[1] \in Workspace /\ d[2] \in User
        BY <2>1, WorkspacesAssumption
    <2>4. Filed'
        <3>1. \A z \in Slot : filing[z].op = "upload" /\ filing[z].doc \notin stray =>
                  Exists(filing[z].doc[1])' /\ Exists(filing[z].doc[2])'
            BY <1>0, <2>1, <2>2, <2>3 DEF Filed, Exists
        <3> QED
            BY <1>0, <2>1, <3>1 DEF Filed
    <2>5. FilesFollowRows'
        <3>1. \A d \in document' : Exists(d[1])' /\ Exists(d[2])'
            BY <1>0, <2>1, <2>2, <2>3 DEF FilesFollowRows, Exists
        <3>2. \A d \in file : d \in document' \cup stray \/ \E s \in Of(d) : filing[s].op # "drop"
            BY <2>1 DEF FilesFollowRows, DeletedFiles
        <3> QED
            BY <1>0, <2>1, <3>1, <3>2 DEF FilesFollowRows
    <2> QED
        BY <2>1, <2>4, <2>5 DEF DeletedFiles
<1>3. ASSUME NEW u \in User, DeleteUser(u) PROVE FilesInv'
    <2>1. CASE Referenced(u)
        <3>1. /\ UNCHANGED <<document, file, filing, stray, scheduled, faulted>>
              /\ job = "users" /\ job' # "deleting"
            BY <1>3, <2>1 DEF DeleteUser, files
        <3> QED
            BY <3>1, QuietFiles DEF Exists
    <2>2. CASE ~Referenced(u)
        <3>1. /\ scheduled' = [scheduled EXCEPT ![u] = Gone]
              /\ stray' = stray \cup {d \in Uploads : d[2] = u}
              /\ UNCHANGED <<document, file, filing, faulted, job>> /\ job = "users"
            BY <1>3, <2>2 DEF DeleteUser, files
        <3>2. \A x \in Workspace \cup User : x # u => scheduled'[x] = scheduled[x]
            BY <3>1 DEF TypeOK
        <3>3. \A d \in Workspace \X User : d[1] # u /\ d[1] \in Workspace /\ d[2] \in User
            BY WorkspacesAssumption
        <3>4. \A d \in document : d[2] # u
            BY <2>2 DEF Referenced
        <3>5. Filed'
            <4>1. \A z \in Slot : filing[z].op = "upload" /\ filing[z].doc \notin stray' =>
                      Exists(filing[z].doc[1])' /\ Exists(filing[z].doc[2])'
                BY <1>0, <3>1, <3>2, <3>3 DEF Filed, Exists
            <4> QED
                BY <1>0, <3>1, <4>1 DEF Filed
        <3>6. FilesFollowRows'
            <4>1. \A d \in document : Exists(d[1])' /\ Exists(d[2])'
                BY <1>0, <3>2, <3>3, <3>4 DEF FilesFollowRows, Exists
            <4> QED
                BY <1>0, <3>1, <4>1 DEF FilesFollowRows
        <3> QED
            BY <3>1, <3>5, <3>6 DEF DeletedFiles
    <2> QED
        BY <2>1, <2>2
<1> QED
    BY <1>1, <1>2, <1>3

LEMMA NextFiles ==
    TypeOK /\ Lists /\ MembersExist /\ FilesInv /\ [Next]_vars => FilesInv'
<1> SUFFICES ASSUME TypeOK, Lists, MembersExist, FilesInv, [Next]_vars PROVE FilesInv'
    OBVIOUS
<1>1. CASE UNCHANGED vars
    BY <1>1, QuietFiles DEF vars, rows, jobVars, history, Exists
<1>2. ASSUME NEW s \in Slot, NEW op, NEW u, NEW w, NEW t, Begin(s, op, u, w, t) PROVE FilesInv'
    BY <1>2, QuietFiles DEF Begin, rows, jobVars, Exists
<1>3. ASSUME NEW s \in Slot, Write(s) PROVE FilesInv'
    <2>1. \A x \in Workspace \cup User : Exists(x) => scheduled'[x] \notin {Unborn, Gone}
        BY <1>3, WriteKeeps
    <2>2. UNCHANGED <<document, file, filing, stray, faulted, job, current>>
        BY <1>3
        DEF Write, CreateWorkspace, InviteMember, UpdateMemberRole, RemoveMember, ScheduleWorkspace,
            CancelWorkspace, ScheduleAccount, RestoreAccount, Refuse, rows, files, jobVars, history
    <2> QED
        BY <2>1, <2>2, QuietFiles
<1>4. CASE FailWorkspace
    BY <1>4, QuietFiles DEF FailWorkspace, rows, Exists
<1>5. CASE StartCleanup \/ ListUsers \/ EndCleanup
    <2>1. UNCHANGED <<scheduled, document, file, filing, stray, faulted>>
        BY <1>5 DEF StartCleanup, ListUsers, EndCleanup, rows, history
    <2>2. job # "deleting" /\ job' # "deleting"
        BY <1>5 DEF StartCleanup, ListUsers, EndCleanup
    <2> QED
        BY <2>1, <2>2, QuietFiles DEF Exists
<1>6. CASE Tick
    BY <1>6, QuietFiles DEF Tick, rows, jobVars, history, Exists
<1> QED
    BY <1>1, <1>2, <1>3, <1>4, <1>5, <1>6, FileKeeps, DeletionKeeps DEF Next, Cleanup

\* Rows and files go together, whatever overlaps: a row has its workspace, its uploader
\* and its file, but for what a failed hard deletion has left; a file has its row, but
\* for requests under way, uploads during a hard deletion and failed steps
\* (knowledge.py:86-105,123-129; scheduler.py, _hard_delete_workspace).
THEOREM FilesGoWithRows == Spec => []FilesFollowRows
<1>1. Init => MembersExist /\ FilesInv
    BY DEF Init, MembersExist, FilesInv, Filed, DeletedFiles, FilesFollowRows, Idle
<1>2. FilesInv => FilesFollowRows
    BY DEF FilesInv
<1> QED
    BY <1>1, <1>2, InitTypes, NextTypes, NextMembers, NextFiles, PTL DEF Spec

---------------------------------------------------------------------------
(* Cancelled deletions *)

\* A workspace that is kept is not scheduled, nor listed by a run.
KeptAside ==
    \A w \in kept : scheduled[w] = None /\ (job \in {"workspaces", "deleting"} => w \notin todo)

LEMMA NextKept == TypeOK /\ Lists /\ KeptAside /\ [Next]_vars => KeptAside'
<1> SUFFICES ASSUME TypeOK, Lists, KeptAside, [Next]_vars PROVE KeptAside'
    OBVIOUS
<1> USE WorkspacesAssumption DEF KeptAside
<1>0. kept \subseteq Workspace
    BY DEF TypeOK
<1>1. ASSUME UNCHANGED <<kept, jobVars>>, \A w \in Workspace : scheduled[w] = None => scheduled'[w] = None
      PROVE  KeptAside'
    BY <1>0, <1>1 DEF jobVars
<1>2. CASE UNCHANGED vars
    BY <1>1, <1>2 DEF vars, rows, history
<1>3. ASSUME NEW s \in Slot, NEW op, NEW u, NEW w, NEW t, Begin(s, op, u, w, t)
      PROVE  KeptAside'
    BY <1>1, <1>3 DEF Begin, rows
<1>4. ASSUME NEW s \in Slot, Write(s) PROVE KeptAside'
    <2>1. CASE Refuse(s)
        BY <1>1, <2>1 DEF Refuse, rows, history
    <2>2. CASE CreateWorkspace(s) /\ ~Refuse(s)
        BY <1>1, <2>2 DEF CreateWorkspace, TypeOK, history
    <2>3. CASE InviteMember(s) /\ ~Refuse(s)
        BY <1>1, <2>3 DEF InviteMember, TypeOK, history
    <2>4. CASE UNCHANGED <<kept, jobVars, scheduled>>
        BY <1>1, <2>4
    <2>5. CASE ScheduleWorkspace(s) /\ ~Refuse(s)
        BY <1>0, <2>5 DEF ScheduleWorkspace, TypeOK, jobVars
    <2>6. ASSUME NEW q, NEW W, W \subseteq Workspace, scheduled' = Restored(q, W), KeptAfter(q, W),
                 UNCHANGED jobVars
          PROVE  KeptAside'
        <3>1. \A w \in Workspace : scheduled[w] = None => scheduled'[w] = None
            BY <2>6 DEF Restored, TypeOK
        <3>2. \A w \in W : Exists(w) /\ q.seen[w] # None => scheduled'[w] = None
            BY <2>6 DEF Restored, TypeOK
        <3> QED
            BY <1>0, <2>6, <3>1, <3>2 DEF KeptAfter, jobVars
    <2>7. CASE CancelWorkspace(s)
        <3>1. req[s].ws \in Workspace
            BY <2>7, Held, Ops DEF CancelWorkspace
        <3>2. {req[s].ws} \subseteq Workspace
            BY <3>1
        <3> QED
            BY <2>6, <2>7, <3>2 DEF CancelWorkspace
    <2>8. CASE RestoreAccount(s)
        <3>1. OwnedBy(req[s].by) \subseteq Workspace
            BY DEF OwnedBy
        <3> QED
            BY <2>6, <2>8, <3>1 DEF RestoreAccount
    <2>9. CASE ScheduleAccount(s) /\ ~Refuse(s)
        <3>1. PICK W : /\ kept' = kept \ W
                       /\ scheduled' = [z \in DOMAIN scheduled |->
                                           IF z \in W \cup {req[s].by} THEN now ELSE scheduled[z]]
            BY <2>9 DEF ScheduleAccount
        <3>2. req[s].by \in User /\ UNCHANGED jobVars
            BY <2>9, Held, Ops DEF ScheduleAccount
        <3> QED
            BY <1>0, <3>1, <3>2 DEF TypeOK, jobVars
    <2>10. UpdateMemberRole(s) \/ RemoveMember(s)
               => Refuse(s) \/ UNCHANGED <<kept, jobVars, scheduled>>
        BY DEF UpdateMemberRole, RemoveMember, history
    <2> QED
        BY <1>4, <2>1, <2>2, <2>3, <2>4, <2>5, <2>7, <2>8, <2>9, <2>10 DEF Write
<1>5. ASSUME NEW w \in Workspace, NEW stay, RemoveFiles(w, stay) PROVE KeptAside'
    BY <1>5 DEF RemoveFiles
<1>6. CASE CommitWorkspace
    <2>1. current \in Workspace /\ current \notin kept
        BY <1>6 DEF CommitWorkspace, Lists
    <2> QED
        BY <1>0, <1>6, <2>1 DEF CommitWorkspace, TypeOK, history
<1>7. CASE StartCleanup
    BY <1>0, <1>7 DEF StartCleanup, Due, rows, history
<1>8. CASE FailWorkspace \/ ListUsers \/ EndCleanup \/ Tick
    BY <1>8 DEF FailWorkspace, ListUsers, EndCleanup, Tick, rows, history, jobVars
<1>9. ASSUME NEW u \in User, DeleteUser(u) PROVE KeptAside'
    <2>1. \A x \in Workspace : scheduled'[x] = scheduled[x]
        BY <1>9 DEF DeleteUser, TypeOK
    <2>2. job = "users" /\ job' \in {"users", "aborted"} /\ kept' = kept
        BY <1>9 DEF DeleteUser, history
    <2> QED
        BY <1>0, <2>1, <2>2
<1>10. ASSUME NEW s \in Slot, File(s) PROVE KeptAside'
    BY <1>1, <1>10, FileLeaves
<1> QED
    BY <1>2, <1>3, <1>4, <1>5, <1>6, <1>7, <1>8, <1>9, <1>10 DEF Next, Cleanup

\* A workspace whose deletion was cancelled while the job was at rest stays,
\* whatever the later runs delete (workspace_service.py:119-126).
THEOREM CancelledStays == Spec => []CancelledIsKept
<1>1. Init => KeptAside
    BY DEF Init, KeptAside
<1>2. KeptAside => CancelledIsKept
    BY WorkspacesAssumption DEF KeptAside, CancelledIsKept
<1> QED
    BY <1>1, <1>2, InitTypes, NextTypes, NextKept, PTL DEF Spec
---------------------------------------------------------------------------
(* Owners *)

Owns(u, w) == RoleOf(w, u) = "owner"

\* The workspaces that the theorem speaks of.
Safe == {w \in Workspace \ crossed : Exists(w)}

\* Owners become owners by creating a workspace, and there is one of them.
NoMembersYet == \A w \in Workspace, u \in User : scheduled[w] = Unborn => member[<<w, u>>] = None
ActiveOwners == \A w \in Workspace, u \in User : Owns(u, w) => member[<<w, u>>].status = "active"
SoleOwner == \A w \in Safe : \E u \in User : \A v \in User : Owns(v, w) <=> v = u

\* Two requests of a user, one of them the deletion of the account.
Overlap ==
    \A u \in User, s, z \in Slot :
        s # z /\ req[s].op = "leave" /\ req[s].by = u /\ req[z] # Idle /\ req[z].by = u
            => OwnedBy(u) \cup {req[s].ws, req[z].ws} \subseteq crossed

\* A request of a user that is scheduled for deletion, or deleted, overlapped that.
Stale ==
    \A u \in User, s \in Slot :
        req[s] # Idle /\ req[s].by = u /\ scheduled[u] # None
            => OwnedBy(u) \cup {req[s].ws} \subseteq crossed

\* Whoever deletes a workspace, or cancels that, owns it still.
OwnerRequests ==
    \A u \in User, w \in Workspace, s \in Slot :
        req[s].op \in OwnerOps /\ req[s].by = u /\ req[s].ws = w
            => scheduled[w] # Unborn /\ (w \in Safe => Owns(u, w))

\* What the deletion of an account has loaded as scheduled still is ...
Leaves ==
    \A u \in User, w \in Safe, s \in Slot :
        req[s].op = "leave" /\ req[s].by = u /\ Owns(u, w) /\ req[s].seen[w] # None
            => scheduled[w] \in Int

\* ... so that a workspace goes before its owner.
OwnersGo ==
    \A u \in User, w \in Safe :
        scheduled[u] \in Int /\ Owns(u, w) => scheduled[w] \in Int /\ scheduled[w] <= scheduled[u]

\* The job lists all that is due at its cutoff, and users only when no workspace is.
Past == \A x \in Workspace \cup User : scheduled[x] \in Int => scheduled[x] <= now
Listed ==
    job \in {"workspaces", "deleting"} =>
        cutoff + Grace <= now /\ \A w \in Workspace : Due(w, cutoff) => w \in todo
ListedUsers ==
    job = "users" => \A u \in todo : scheduled[u] \in Int /\ \A w \in Safe : ~Owns(u, w)

Ownership == NoMembersYet /\ ActiveOwners /\ SoleOwner
Presence  == Overlap /\ Stale /\ OwnerRequests /\ Leaves /\ OwnersGo
Schedule  == Past /\ Listed /\ ListedUsers
OwnersStay == Ownership /\ Presence /\ Schedule

LEMMA RequestsOf ==
    ASSUME TypeOK, NEW s \in Slot, req[s] # Idle
    PROVE  /\ req[s].op \in Op /\ req[s].by \in User /\ req[s].ws \in Workspace
           /\ req[s].seen \in [Workspace -> Time \cup {None, Unborn, Gone}]
BY DEF TypeOK, Request

\* A request begins: its user is not scheduled, and an overlap is noted.
LEMMA BeginOwners ==
    ASSUME TypeOK, Ownership, Presence, NEW s \in Slot, NEW op \in Op, NEW u \in User,
           NEW w \in Workspace, NEW t \in Target(op), Begin(s, op, u, w, t)
    PROVE  Ownership' /\ Presence'
<1>1. PICK q : q = Loaded(op, u, w, t)
    OBVIOUS
<1>2. /\ q.op = op /\ q.by = u /\ q.ws = w /\ q # Idle
      /\ op = "leave" => q.seen = [x \in Workspace |-> scheduled[x]]
    BY <1>1, Ops DEF Loaded, Idle
<1>3. req' = [req EXCEPT ![s] = q] /\ scheduled' = scheduled /\ member' = member /\ req[s] = Idle
    BY <1>1 DEF Begin, rows
<1>4. /\ req'[s] = q
      /\ \A z \in Slot \ {s} : req'[z] = req[z]
    BY <1>3 DEF TypeOK
<1>5. crossed \subseteq crossed'
    BY DEF Begin, CrossedBy
<1>6. ASSUME NEW z \in Slot, req[z] # Idle, req[z].by = u, op = "leave" \/ req[z].op = "leave"
      PROVE  OwnedBy(u) \cup {w, req[z].ws} \subseteq crossed'
    <2>1. z \in BusyFor(u, IF op = "leave" THEN Op ELSE {"leave"})
        BY <1>6, RequestsOf DEF BusyFor
    <2> QED
        BY <2>1 DEF Begin, CrossedBy
<1>7. Safe' \subseteq Safe
    BY <1>3, <1>5 DEF Safe, Exists
<1>8. \A v \in User, x \in Workspace : Owns(v, x)' <=> Owns(v, x)
    BY <1>3 DEF Owns, RoleOf
<1>9. \A v \in User : OwnedBy(v)' = OwnedBy(v)
    BY <1>3 DEF OwnedBy, RoleOf
<1>10. Ownership'
    BY <1>3, <1>7, <1>8 DEF Ownership, NoMembersYet, ActiveOwners, SoleOwner, Safe
<1>11. Overlap'
    <2> SUFFICES ASSUME NEW v \in User, NEW y \in Slot, NEW z \in Slot, y # z, req'[y].op = "leave",
                        req'[y].by = v, req'[z] # Idle, req'[z].by = v
                 PROVE  OwnedBy(v)' \cup {req'[y].ws, req'[z].ws} \subseteq crossed'
        BY DEF Overlap
    <2>1. req'[y] # Idle
        BY DEF Idle
    <2>2. CASE y # s /\ z # s
        <3>1. req'[y] = req[y] /\ req'[z] = req[z]
            BY <1>4, <2>2
        <3>2. OwnedBy(v) \cup {req[y].ws, req[z].ws} \subseteq crossed
            BY <3>1 DEF Presence, Overlap
        <3> QED
            BY <1>5, <1>9, <3>1, <3>2
    <2>3. CASE y = s
        <3>1. req'[z] = req[z] /\ req'[y] = q
            BY <1>4, <2>3
        <3> QED
            BY <1>2, <1>6, <1>9, <3>1
    <2>4. CASE z = s
        <3>1. req'[y] = req[y] /\ req'[z] = q
            BY <1>4, <2>4
        <3> QED
            BY <1>2, <1>6, <1>9, <2>1, <3>1
    <2> QED
        BY <2>2, <2>3, <2>4
<1>12. Stale'
    <2> SUFFICES ASSUME NEW v \in User, NEW z \in Slot, req'[z] # Idle, req'[z].by = v, scheduled[v] # None
                 PROVE  OwnedBy(v)' \cup {req'[z].ws} \subseteq crossed'
        BY <1>3 DEF Stale
    <2>1. z # s
        BY <1>2, <1>4 DEF Begin, Live
    <2>2. req'[z] = req[z]
        BY <1>4, <2>1
    <2>3. OwnedBy(v) \cup {req[z].ws} \subseteq crossed
        BY <2>2 DEF Presence, Stale
    <2> QED
        BY <1>5, <1>9, <2>2, <2>3
<1>13. OwnerRequests'
    <2>1. op \in OwnerOps => Owns(u, w) /\ scheduled[w] # Unborn
        BY DEF Begin, OwnerOps, AccountOps, MinRole, Owns, Exists
    <2> QED
        BY <1>2, <1>3, <1>4, <1>7, <1>8, <2>1 DEF Presence, OwnerRequests
<1>14. Leaves'
    <2>1. \A x \in Safe : scheduled[x] # None => scheduled[x] \in Int
        BY DEF Safe, Exists, TypeOK, Time
    <2> QED
        BY <1>2, <1>3, <1>4, <1>7, <1>8, <2>1 DEF Presence, Leaves, Safe
<1>15. OwnersGo'
    BY <1>3, <1>7, <1>8 DEF Presence, OwnersGo, Safe
<1> QED
    BY <1>10, <1>11, <1>12, <1>13, <1>14, <1>15 DEF Presence

\* A workspace is created: no one has been a member.
LEMMA CreateOwners ==
    ASSUME TypeOK, Ownership, Presence, NEW s \in Slot, CreateWorkspace(s), ~Refuse(s)
    PROVE  Ownership' /\ Presence'
<1>1. PICK w, u : w = req[s].ws /\ u = req[s].by
    OBVIOUS
<1>2. w \in Workspace /\ u \in User /\ req[s] # Idle /\ w # u /\ w \notin User
    BY <1>1, Held, Ops, WorkspacesAssumption DEF CreateWorkspace, Idle
<1>3. /\ scheduled' = [scheduled EXCEPT ![w] = None] /\ scheduled[w] = Unborn /\ Exists(u)
      /\ member' = [member EXCEPT ![<<w, u>>] = Founder] /\ crossed' = crossed
      /\ req' = [req EXCEPT ![s] = Idle]
    BY <1>1 DEF CreateWorkspace, End, history
<1>4. Founder # None /\ Founder.role = "owner" /\ Founder.status = "active"
    BY RowsAssumption DEF Founder, Membership, Role
<1>5. \A v \in User : member[<<w, v>>] = None
    BY <1>2, <1>3 DEF Ownership, NoMembersYet
<1>6. /\ \A v \in User, x \in Workspace \ {w} : member'[<<x, v>>] = member[<<x, v>>]
      /\ \A v \in User \ {u} : member'[<<w, v>>] = None
      /\ member'[<<w, u>>] = Founder
    BY <1>2, <1>3, <1>5 DEF TypeOK
<1>7. /\ \A v \in User, x \in Workspace \ {w} : Owns(v, x)' <=> Owns(v, x)
      /\ \A v \in User : Owns(v, w)' <=> v = u
    BY <1>2, <1>4, <1>6 DEF Owns, RoleOf
<1>8. \A v \in User : OwnedBy(v)' \subseteq OwnedBy(v) \cup (IF v = u THEN {w} ELSE {})
    BY <1>7 DEF OwnedBy, Owns
<1>9. /\ \A x \in (Workspace \cup User) \ {w} : scheduled'[x] = scheduled[x]
      /\ scheduled'[w] = None
    BY <1>2, <1>3 DEF TypeOK
<1>10. Safe' \subseteq Safe \cup {w} /\ w \notin Safe
    BY <1>2, <1>3, <1>9 DEF Safe, Exists
<1>11. NoMembersYet'
    BY <1>6, <1>9, WorkspacesAssumption DEF Ownership, NoMembersYet
<1>12. ActiveOwners'
    BY <1>4, <1>6, <1>7 DEF Ownership, ActiveOwners
<1>13. SoleOwner'
    <2>1. ASSUME NEW x \in Safe', x # w PROVE \E b \in User : \A v \in User : Owns(v, x)' <=> v = b
        BY <1>7, <1>10, <2>1 DEF Ownership, SoleOwner, Safe
    <2> QED
        BY <1>2, <1>7, <2>1 DEF SoleOwner
<1>14. \A z \in Slot : req'[z] # Idle => z # s /\ req'[z] = req[z]
    BY <1>3 DEF TypeOK
<1>15. Overlap'
    <2> SUFFICES ASSUME NEW v \in User, NEW y \in Slot, NEW z \in Slot, y # z, req'[y].op = "leave",
                        req'[y].by = v, req'[z] # Idle, req'[z].by = v
                 PROVE  OwnedBy(v)' \cup {req'[y].ws, req'[z].ws} \subseteq crossed'
        BY DEF Overlap
    <2>1. req'[y] # Idle
        BY DEF Idle
    <2>2. y # s /\ z # s /\ req'[y] = req[y] /\ req'[z] = req[z]
        BY <1>14, <2>1
    <2>3. OwnedBy(v) \cup {req[y].ws, req[z].ws} \subseteq crossed
        BY <2>2 DEF Presence, Overlap
    <2>4. v = u => w \in crossed
        BY <1>1, <1>2, <2>2 DEF Presence, Overlap
    <2> QED
        BY <1>3, <1>8, <2>2, <2>3, <2>4
<1>16. Stale'
    <2> SUFFICES ASSUME NEW v \in User, NEW z \in Slot, req'[z] # Idle, req'[z].by = v, scheduled'[v] # None
                 PROVE  OwnedBy(v)' \cup {req'[z].ws} \subseteq crossed'
        BY DEF Stale
    <2>1. req'[z] = req[z] /\ scheduled'[v] = scheduled[v]
        BY <1>2, <1>9, <1>14
    <2>2. OwnedBy(v) \cup {req[z].ws} \subseteq crossed
        BY <2>1 DEF Presence, Stale
    <2>3. v = u => w \in crossed
        BY <1>1, <1>2, <2>1 DEF Presence, Stale
    <2> QED
        BY <1>3, <1>8, <2>1, <2>2, <2>3
<1>17. OwnerRequests'
    <2> SUFFICES ASSUME NEW v \in User, NEW x \in Workspace, NEW z \in Slot, req'[z].op \in OwnerOps,
                        req'[z].by = v, req'[z].ws = x
                 PROVE  scheduled'[x] # Unborn /\ (x \in Safe' => Owns(v, x)')
        BY DEF OwnerRequests
    <2>1. req'[z] = req[z]
        BY <1>14 DEF Idle, OwnerOps
    <2>2. scheduled[x] # Unborn /\ (x \in Safe => Owns(v, x))
        BY <2>1 DEF Presence, OwnerRequests
    <2> QED
        BY <1>3, <1>7, <1>9, <1>10, <2>2
<1>18. Leaves'
    <2> SUFFICES ASSUME NEW v \in User, NEW x \in Safe', NEW z \in Slot, req'[z].op = "leave",
                        req'[z].by = v, Owns(v, x)', req'[z].seen[x] # None
                 PROVE  scheduled'[x] \in Int
        BY DEF Leaves
    <2>1. z # s /\ req'[z] = req[z]
        BY <1>14 DEF Idle
    <2>2. CASE x = w
        <3>1. v = u
            BY <1>7, <2>2
        <3>2. w \in crossed
            BY <1>1, <1>2, <2>1, <3>1 DEF Presence, Overlap
        <3> QED
            BY <1>3, <2>2, <3>2 DEF Safe
    <2>3. CASE x # w
        BY <1>7, <1>9, <1>10, <2>1, <2>3 DEF Presence, Leaves, Safe
    <2> QED
        BY <2>2, <2>3
<1>19. OwnersGo'
    <2> SUFFICES ASSUME NEW v \in User, NEW x \in Safe', scheduled'[v] \in Int, Owns(v, x)'
                 PROVE  scheduled'[x] \in Int /\ scheduled'[x] <= scheduled'[v]
        BY DEF OwnersGo
    <2>1. scheduled'[v] = scheduled[v] /\ scheduled[v] # None
        BY <1>2, <1>9, WorkspacesAssumption
    <2>2. CASE x = w
        <3>1. v = u
            BY <1>7, <2>2
        <3>2. w \in crossed
            BY <1>1, <1>2, <2>1, <3>1 DEF Presence, Stale
        <3> QED
            BY <1>3, <2>2, <3>2 DEF Safe
    <2>3. CASE x # w
        BY <1>7, <1>9, <1>10, <2>1, <2>3 DEF Presence, OwnersGo, Safe
    <2> QED
        BY <2>2, <2>3
<1> QED
    BY <1>11, <1>12, <1>13, <1>15, <1>16, <1>17, <1>18, <1>19 DEF Presence, Ownership
\* A request ends that has changed the time of what its user owns, or of its user.
EndsFor(u, s) == req[s] # Idle /\ req[s].by = u /\ req'[s] = Idle

\* A step after which nobody owns more, and who owns what is safe owns it still; it
\* sets the time of a safe workspace for its owner only.
KeepsOwners ==
    /\ crossed' = crossed
    /\ \A s \in Slot : req'[s] \in {req[s], Idle}
    /\ Safe' \subseteq Safe
    /\ \A w \in Workspace : scheduled'[w] = Unborn => scheduled[w] = Unborn
    /\ \A w \in Workspace, u \in User :
          /\ scheduled[w] = Unborn /\ member[<<w, u>>] = None => member'[<<w, u>>] = None
          /\ Owns(u, w)' => Owns(u, w) /\ member'[<<w, u>>] = member[<<w, u>>]
          /\ w \in Safe' /\ Owns(u, w) => Owns(u, w)'
    /\ \A w \in Safe' : scheduled'[w] = scheduled[w]
                           \/ \E s \in Slot, u \in User : EndsFor(u, s) /\ Owns(u, w)
    /\ \A u \in User : scheduled'[u] # None =>
          scheduled[u] # None \/ \E s \in Slot : EndsFor(u, s) /\ req[s].op = "leave"
    /\ \A u \in User : scheduled'[u] \in Int =>
          \/ scheduled'[u] = scheduled[u]
          \/ \A w \in Safe' : Owns(u, w) => scheduled'[w] \in Int /\ scheduled'[w] <= scheduled'[u]

LEMMA KeptOwners ==
    ASSUME TypeOK, Ownership, Presence, KeepsOwners PROVE Ownership' /\ Presence'
<1>1. \A u \in User : OwnedBy(u)' \subseteq OwnedBy(u)
    BY DEF KeepsOwners, OwnedBy, Owns
<1>2. \A w \in Safe, u, v \in User : Owns(u, w) /\ Owns(v, w) => u = v
    BY DEF Ownership, SoleOwner
<1>3. \A s \in Slot : req'[s] # Idle => req'[s] = req[s]
    BY DEF KeepsOwners
<1>4. \A w \in Workspace, u \in User : Owns(u, w) => w \in OwnedBy(u)
    BY DEF Owns, OwnedBy
<1>5. Ownership'
    <2>1. NoMembersYet' /\ ActiveOwners'
        BY DEF KeepsOwners, Ownership, NoMembersYet, ActiveOwners
    <2>2. SoleOwner'
        BY DEF KeepsOwners, Ownership, SoleOwner, Safe
    <2> QED
        BY <2>1, <2>2 DEF Ownership
<1>6. Overlap'
    <2> SUFFICES ASSUME NEW u \in User, NEW s \in Slot, NEW z \in Slot, s # z, req'[s].op = "leave",
                        req'[s].by = u, req'[z] # Idle, req'[z].by = u
                 PROVE  OwnedBy(u)' \cup {req'[s].ws, req'[z].ws} \subseteq crossed'
        BY DEF Overlap
    <2>1. req'[s] = req[s] /\ req'[z] = req[z]
        BY <1>3 DEF Idle
    <2>2. OwnedBy(u) \cup {req[s].ws, req[z].ws} \subseteq crossed
        BY <2>1 DEF Presence, Overlap
    <2> QED
        BY <1>1, <2>1, <2>2 DEF KeepsOwners
<1>7. Stale'
    <2> SUFFICES ASSUME NEW u \in User, NEW z \in Slot, req'[z] # Idle, req'[z].by = u, scheduled'[u] # None
                 PROVE  OwnedBy(u)' \cup {req'[z].ws} \subseteq crossed'
        BY DEF Stale
    <2>1. req'[z] = req[z]
        BY <1>3
    <2>2. OwnedBy(u) \cup {req[z].ws} \subseteq crossed
        <3>1. CASE scheduled[u] # None
            BY <2>1, <3>1 DEF Presence, Stale
        <3>2. CASE \E s \in Slot : EndsFor(u, s) /\ req[s].op = "leave"
            BY <2>1, <3>2 DEF Presence, Overlap, EndsFor
        <3> QED
            BY <3>1, <3>2 DEF KeepsOwners
    <2> QED
        BY <1>1, <2>1, <2>2 DEF KeepsOwners
<1>8. OwnerRequests'
    <2> SUFFICES ASSUME NEW u \in User, NEW w \in Workspace, NEW z \in Slot, req'[z].op \in OwnerOps,
                        req'[z].by = u, req'[z].ws = w
                 PROVE  scheduled'[w] # Unborn /\ (w \in Safe' => Owns(u, w)')
        BY DEF OwnerRequests
    <2>1. req'[z] = req[z]
        BY <1>3 DEF Idle, OwnerOps
    <2>2. scheduled[w] # Unborn /\ (w \in Safe => Owns(u, w))
        BY <2>1 DEF Presence, OwnerRequests
    <2> QED
        BY <2>2 DEF KeepsOwners
<1>9. Safe' \subseteq Safe /\ Safe' \subseteq Workspace \ crossed
    BY DEF KeepsOwners, Safe
<1>10. Leaves'
    <2> SUFFICES ASSUME NEW u \in User, NEW w \in Safe', NEW z \in Slot, req'[z].op = "leave",
                        req'[z].by = u, Owns(u, w)', req'[z].seen[w] # None
                 PROVE  scheduled'[w] \in Int
        BY DEF Leaves
    <2>1. req'[z] = req[z] /\ req'[z] # Idle
        BY <1>3 DEF Idle
    <2>2. Owns(u, w) /\ w \in Safe /\ w \in Workspace \ crossed
        BY <1>9 DEF KeepsOwners
    <2>3. CASE scheduled'[w] = scheduled[w]
        BY <2>1, <2>2, <2>3 DEF Presence, Leaves
    <2>4. CASE \E s \in Slot, v \in User : EndsFor(v, s) /\ Owns(v, w)
        <3>1. PICK s \in Slot : EndsFor(u, s)
            BY <1>2, <2>2, <2>4
        <3>2. s # z /\ req[s] # Idle /\ req[s].by = u
            BY <2>1, <3>1 DEF EndsFor
        <3>3. OwnedBy(u) \subseteq crossed
            BY <2>1, <3>2 DEF Presence, Overlap
        <3> QED
            BY <1>4, <2>2, <3>3
    <2> QED
        BY <2>3, <2>4 DEF KeepsOwners
<1>11. OwnersGo'
    <2> SUFFICES ASSUME NEW u \in User, NEW w \in Safe', scheduled'[u] \in Int, Owns(u, w)'
                 PROVE  scheduled'[w] \in Int /\ scheduled'[w] <= scheduled'[u]
        BY DEF OwnersGo
    <2>1. Owns(u, w) /\ w \in Safe /\ w \in Workspace \ crossed
        BY <1>9 DEF KeepsOwners
    <2>2. CASE scheduled'[u] = scheduled[u] /\ scheduled'[w] = scheduled[w]
        BY <2>1, <2>2 DEF Presence, OwnersGo
    <2>3. CASE scheduled'[u] = scheduled[u] /\ \E s \in Slot, v \in User : EndsFor(v, s) /\ Owns(v, w)
        <3>1. PICK s \in Slot : EndsFor(u, s)
            BY <1>2, <2>1, <2>3
        <3>2. scheduled[u] # None
            BY <2>3, WorkspacesAssumption
        <3>3. OwnedBy(u) \subseteq crossed
            BY <3>1, <3>2 DEF Presence, Stale, EndsFor
        <3> QED
            BY <1>4, <2>1, <3>3
    <2> QED
        BY <2>1, <2>2, <2>3 DEF KeepsOwners
<1> QED
    BY <1>5, <1>6, <1>7, <1>8, <1>10, <1>11 DEF Presence

\* A step that leaves times and members alone, whatever request ends.
LEMMA SameKeeps ==
    ASSUME UNCHANGED <<scheduled, member, crossed>>, \A s \in Slot : req'[s] \in {req[s], Idle}
    PROVE  KeepsOwners
<1>1. Safe' = Safe
    BY DEF Safe, Exists
<1>2. \A u \in User, w \in Workspace : Owns(u, w)' <=> Owns(u, w)
    BY DEF Owns, RoleOf
<1> QED
    BY <1>1, <1>2 DEF KeepsOwners, Safe

\* So the last owner cannot lose the role.
LEMMA OwnersOf == ASSUME TypeOK, Ownership, NEW w \in Safe PROVE Cardinality(Owners(w)) = 1
<1>1. PICK u \in User : \A v \in User : Owns(v, w) <=> v = u
    BY DEF Ownership, SoleOwner
<1>2. Owners(w) = {u}
    BY <1>1 DEF Owners, Owns, Ownership, ActiveOwners, Safe
<1> QED
    BY <1>2, FS_Singleton
\* Invitations, role changes and removals leave owners alone.
LEMMA MembersWrite ==
    ASSUME TypeOK, Asked, Ownership, NEW s \in Slot, ~Refuse(s),
           InviteMember(s) \/ UpdateMemberRole(s) \/ RemoveMember(s)
    PROVE  KeepsOwners
<1>1. PICK w, v, b : w = req[s].ws /\ v = req[s].on /\ b = req[s].by
    OBVIOUS
<1>2. w \in Workspace /\ v \in User /\ b \in User /\ w # v
    BY <1>1, Held, Ops, WorkspacesAssumption DEF InviteMember, UpdateMemberRole, RemoveMember, Asked
<1>3. PICK row \in Membership \cup {None} :
          /\ member' = [member EXCEPT ![<<w, v>>] = row]
          /\ w \in Safe => ~Owns(v, w)
          /\ row # None => row.role # "owner"
          /\ scheduled[w] # Unborn
    <2>1. CASE InviteMember(s)
        <3>1. PICK row : row = [role |-> req[s].new, status |-> "pending", by |-> b]
            OBVIOUS
        <3>2. req[s].new \in {"operator", "admin"} /\ row \in Membership /\ row.role # "owner"
            BY <1>2, <2>1, <3>1 DEF InviteMember, Asked, Membership, Role
        <3>3. member[<<w, v>>] = None /\ Exists(w)
            BY <1>1, <2>1 DEF InviteMember
        <3> QED
            BY <1>1, <2>1, <3>1, <3>2, <3>3 DEF InviteMember, Owns, RoleOf, Exists
    <2>2. ASSUME OwnerRemains(req[s]) PROVE w \in Safe => ~Owns(v, w)
        BY <1>1, <2>2, OwnersOf DEF OwnerRemains, Owns
    <2>3. member[<<w, v>>] # None => scheduled[w] # Unborn
        BY <1>2 DEF Ownership, NoMembersYet
    <2>4. CASE UpdateMemberRole(s)
        <3>1. PICK row : row = [member[<<w, v>>] EXCEPT !.role = req[s].new]
            OBVIOUS
        <3>2. member[<<w, v>>] # None /\ OwnerRemains(req[s])
            BY <1>1, <2>4 DEF UpdateMemberRole
        <3>3. req[s].new \in {"operator", "admin"} /\ row \in Membership /\ row.role # "owner"
            BY <1>2, <2>4, <3>1, <3>2, SMTT(60) DEF UpdateMemberRole, Asked, Membership, Role, TypeOK
        <3>4. member' = [member EXCEPT ![<<w, v>>] = row]
            BY <1>1, <2>4, <3>1 DEF UpdateMemberRole
        <3> QED
            BY <2>2, <2>3, <3>2, <3>3, <3>4
    <2>5. CASE RemoveMember(s)
        BY <1>1, <2>2, <2>3, <2>5 DEF RemoveMember
    <2> QED
        BY <2>1, <2>4, <2>5
<1>4. /\ \A x \in Workspace : scheduled'[x] = scheduled[x]
      /\ \A u \in User : scheduled'[u] = scheduled[u] \/ (scheduled[u] = Unborn /\ scheduled'[u] = None)
    <2>1. CASE InviteMember(s)
        <3>1. scheduled' = [scheduled EXCEPT ![v] = IF @ = Unborn THEN None ELSE @]
            BY <1>1, <2>1 DEF InviteMember
        <3> QED
            BY <1>2, <3>1, WorkspacesAssumption DEF TypeOK
    <2>2. CASE UpdateMemberRole(s) \/ RemoveMember(s)
        BY <2>2 DEF UpdateMemberRole, RemoveMember
    <2> QED
        BY <2>1, <2>2
<1>5. crossed' = crossed /\ req' = [req EXCEPT ![s] = Idle]
    BY DEF InviteMember, UpdateMemberRole, RemoveMember, End, history
<1>6. Safe' = Safe
    BY <1>4, <1>5 DEF Safe, Exists
<1>7. /\ \A x \in Workspace, u \in User : <<x, u>> # <<w, v>> => member'[<<x, u>>] = member[<<x, u>>]
      /\ member'[<<w, v>>] = row
    BY <1>2, <1>3 DEF TypeOK
<1>8. /\ \A x \in Workspace, u \in User : <<x, u>> # <<w, v>> => (Owns(u, x)' <=> Owns(u, x))
      /\ ~Owns(v, w)'
    BY <1>3, <1>7 DEF Owns, RoleOf
<1>9. \A x \in Workspace, u \in User :
          /\ scheduled[x] = Unborn => member'[<<x, u>>] = member[<<x, u>>]
          /\ Owns(u, x)' => Owns(u, x) /\ member'[<<x, u>>] = member[<<x, u>>]
          /\ x \in Safe' /\ Owns(u, x) => Owns(u, x)'
    BY <1>3, <1>6, <1>7, <1>8
<1>10. \A u \in User : scheduled'[u] # None => scheduled[u] # None
    BY <1>4, WorkspacesAssumption
<1>11. \A u \in User : scheduled'[u] \in Int => scheduled'[u] = scheduled[u]
    BY <1>4, WorkspacesAssumption
<1>12. \A z \in Slot : req'[z] \in {req[z], Idle}
    BY <1>5 DEF TypeOK
<1>13. Safe \subseteq Workspace
    BY DEF Safe
<1> QED
    BY <1>4, <1>5, <1>6, <1>9, <1>10, <1>11, <1>12, <1>13 DEF KeepsOwners

\* Deletions are scheduled and cancelled by the owner of the workspace.
LEMMA TimesWrite ==
    ASSUME TypeOK, Presence, NEW s \in Slot, Write(s), UNCHANGED <<member, crossed>>,
           req' = [req EXCEPT ![s] = Idle], req[s] # Idle,
           NEW b \in User, b = req[s].by,
           \A u \in User : scheduled'[u] = scheduled[u],
           \A w \in Workspace : scheduled'[w] # scheduled[w] => w \notin Safe \/ Owns(b, w),
           \A w \in Workspace : scheduled'[w] # scheduled[w] => Exists(w)
    PROVE  KeepsOwners
<1>1. \A w \in Workspace : Exists(w) => scheduled'[w] \notin {Unborn, Gone}
    BY WriteKeeps
<1>2. Safe' = Safe
    BY <1>1 DEF Safe, Exists
<1>3. \A w \in Workspace, u \in User : Owns(u, w)' <=> Owns(u, w)
    BY DEF Owns, RoleOf
<1>4. \A z \in Slot : req'[z] \in {req[z], Idle}
    BY DEF TypeOK
<1>5. EndsFor(b, s)
    BY DEF EndsFor, TypeOK
<1>6. \A w \in Safe : scheduled'[w] = scheduled[w] \/ Owns(b, w)
    BY DEF Safe
<1>7. \A w \in Workspace : scheduled'[w] = Unborn => scheduled[w] = Unborn
    BY <1>1
<1> QED
    BY <1>2, <1>3, <1>4, <1>5, <1>6, <1>7 DEF KeepsOwners

LEMMA OwnerWrites ==
    ASSUME TypeOK, Presence, NEW s \in Slot, ~Refuse(s),
           ScheduleWorkspace(s) \/ CancelWorkspace(s) \/ RestoreAccount(s)
    PROVE  KeepsOwners
<1>1. PICK w, b : w = req[s].ws /\ b = req[s].by
    OBVIOUS
<1>2. w \in Workspace /\ b \in User /\ req[s] # Idle /\ w \notin User
    BY <1>1, Held, Ops, WorkspacesAssumption DEF ScheduleWorkspace, CancelWorkspace, RestoreAccount, Idle
<1>3. Write(s) /\ UNCHANGED <<member, crossed>> /\ req' = [req EXCEPT ![s] = Idle]
    BY DEF Write, ScheduleWorkspace, CancelWorkspace, RestoreAccount, End
<1>4. req[s].op \in OwnerOps /\ w \in Safe => Owns(b, w)
    BY <1>1, <1>2 DEF Presence, OwnerRequests
<1>5. CASE ScheduleWorkspace(s)
    <2>1. scheduled' = [scheduled EXCEPT ![w] = now] /\ req[s].op \in OwnerOps /\ Exists(w)
        BY <1>1, <1>5 DEF ScheduleWorkspace, OwnerOps
    <2>2. \A x \in Workspace \cup User : x # w => scheduled'[x] = scheduled[x]
        BY <2>1 DEF TypeOK
    <2> QED
        BY <1>1, <1>2, <1>3, <1>4, <2>1, <2>2, TimesWrite
<1>6. CASE CancelWorkspace(s)
    <2>1. scheduled' = Restored(req[s], {w}) /\ req[s].op \in OwnerOps
        BY <1>1, <1>6 DEF CancelWorkspace, OwnerOps
    <2>2. \A x \in Workspace \cup User : scheduled'[x] # scheduled[x] => x = w /\ Exists(x)
        BY <2>1 DEF Restored, TypeOK
    <2>3. \A u \in User : scheduled'[u] = scheduled[u]
        BY <1>2, <2>2
    <2>4. \A x \in Workspace : scheduled'[x] # scheduled[x] => x \notin Safe \/ Owns(b, x)
        BY <1>4, <2>1, <2>2
    <2> QED
        BY <1>1, <1>2, <1>3, <2>2, <2>3, <2>4, TimesWrite
<1>7. CASE RestoreAccount(s)
    <2>1. scheduled' = Restored(req[s], OwnedBy(b))
        BY <1>1, <1>7 DEF RestoreAccount
    <2>2. \A x \in Workspace \cup User : scheduled'[x] # scheduled[x] => x \in OwnedBy(b) /\ Exists(x)
        BY <2>1 DEF Restored, TypeOK
    <2>3. \A x \in OwnedBy(b) : x \in Workspace /\ Owns(b, x)
        BY DEF OwnedBy, Owns
    <2> QED
        BY <1>1, <1>2, <1>3, <2>2, <2>3, WorkspacesAssumption, TimesWrite
<1> QED
    BY <1>5, <1>6, <1>7

\* The deletion of an account is scheduled: what its user owns is due no later.
LEMMA LeaveWrites ==
    ASSUME TypeOK, Presence, Past, NEW s \in Slot, ~Refuse(s), ScheduleAccount(s)
    PROVE  KeepsOwners
<1>1. PICK b : b = req[s].by
    OBVIOUS
<1>2. b \in User /\ req[s] # Idle /\ req[s].op = "leave" /\ b \notin Workspace
    BY <1>1, Held, Ops, WorkspacesAssumption DEF ScheduleAccount, Idle
<1>3. PICK W : /\ \A w : w \in W <=> w \in OwnedBy(b) /\ Exists(w) /\
                         (req[s].seen[w] = None \/ (req[s].seen[w] = Unborn /\ scheduled[w] = None))
               /\ scheduled' = [x \in DOMAIN scheduled |-> IF x \in W \cup {b} THEN now ELSE scheduled[x]]
    <2>1. PICK q : q = req[s]
        OBVIOUS
    <2>2. PICK W : /\ W = {w \in OwnedBy(q.by) : Exists(w) /\
                             (q.seen[w] = None \/ (q.seen[w] = Unborn /\ scheduled[w] = None))}
        OBVIOUS
    <2>3. scheduled' = [x \in DOMAIN scheduled |-> IF x \in W \cup {q.by} THEN now ELSE scheduled[x]]
        BY <2>1, <2>2 DEF ScheduleAccount
    <2> QED
        BY <1>1, <2>1, <2>2, <2>3
<1>4. UNCHANGED <<member, crossed>> /\ req' = [req EXCEPT ![s] = Idle] /\ now \in Int
    BY DEF ScheduleAccount, End, TypeOK, Time
<1>5. \A w \in W : w \in Workspace /\ Owns(b, w) /\ Exists(w)
    BY <1>3 DEF OwnedBy, Owns
<1>6. /\ \A u \in User \ {b} : scheduled'[u] = scheduled[u]
      /\ scheduled'[b] = now
      /\ \A w \in W : scheduled'[w] = now
      /\ \A w \in Workspace \ W : scheduled'[w] = scheduled[w]
    BY <1>2, <1>3, <1>5, WorkspacesAssumption DEF TypeOK
<1>7. now \notin {None, Unborn, Gone}
    BY <1>4, WorkspacesAssumption
<1>8. Safe' = Safe
    BY <1>4, <1>5, <1>6, <1>7 DEF Safe, Exists
<1>9. \A w \in Workspace, u \in User : Owns(u, w)' <=> Owns(u, w)
    BY <1>4 DEF Owns, RoleOf
<1>10. \A z \in Slot : req'[z] \in {req[z], Idle}
    BY <1>4 DEF TypeOK
<1>11. EndsFor(b, s)
    BY <1>1, <1>2, <1>4 DEF EndsFor, TypeOK
<1>12. \A w \in Safe : Owns(b, w) => scheduled'[w] \in Int /\ scheduled'[w] <= now
    <2> SUFFICES ASSUME NEW w \in Safe, Owns(b, w) PROVE scheduled'[w] \in Int /\ scheduled'[w] <= now
        OBVIOUS
    <2>1. CASE w \in W
        BY <1>4, <1>6, <2>1
    <2>2. CASE w \notin W
        <3>1. w \in OwnedBy(b) /\ Exists(w) /\ w \in Workspace
            BY DEF Safe, OwnedBy, Owns
        <3>2. req[s].seen[w] # None
            BY <1>3, <2>2, <3>1
        <3>3. scheduled[w] \in Int
            BY <1>1, <1>2, <3>2 DEF Presence, Leaves
        <3> QED
            BY <1>6, <2>2, <3>1, <3>3 DEF Past
    <2> QED
        BY <2>1, <2>2
<1>13. \A w \in Safe' : scheduled'[w] = scheduled[w] \/ Owns(b, w)
    BY <1>5, <1>6, <1>8 DEF Safe
<1>14. \A w \in Workspace : scheduled'[w] = Unborn => scheduled[w] = Unborn
    BY <1>6, <1>7
<1>15. \A u \in User : scheduled'[u] # None => scheduled[u] # None \/ EndsFor(u, s)
    BY <1>6, <1>11
<1>16. \A u \in User : scheduled'[u] \in Int =>
          scheduled'[u] = scheduled[u]
          \/ \A w \in Safe' : Owns(u, w) => scheduled'[w] \in Int /\ scheduled'[w] <= scheduled'[u]
    BY <1>6, <1>8, <1>12
<1> QED
    BY <1>2, <1>4, <1>8, <1>9, <1>10, <1>11, <1>13, <1>14, <1>15, <1>16 DEF KeepsOwners
\* The hard deletion of a workspace takes its members along.
LEMMA CommitKeeps == ASSUME TypeOK, Lists, CommitWorkspace PROVE KeepsOwners
<1>1. PICK c : c = current
    OBVIOUS
<1>2. /\ c \in Workspace /\ scheduled' = [scheduled EXCEPT ![c] = Gone]
      /\ member' = [p \in DOMAIN member |-> IF p[1] = c THEN None ELSE member[p]]
      /\ crossed' = crossed /\ req' = req
    BY <1>1 DEF CommitWorkspace, Lists, history
<1>3. /\ \A x \in (Workspace \cup User) \ {c} : scheduled'[x] = scheduled[x]
      /\ scheduled'[c] = Gone
    BY <1>2 DEF TypeOK
<1>4. \A u \in User, w \in Workspace : member'[<<w, u>>] = IF w = c THEN None ELSE member[<<w, u>>]
    BY <1>2 DEF TypeOK
<1>5. Safe' = Safe \ {c}
    BY <1>2, <1>3 DEF Safe, Exists
<1>6. /\ \A u \in User, w \in Workspace : w # c => (Owns(u, w)' <=> Owns(u, w))
      /\ \A u \in User : ~Owns(u, c)'
    BY <1>2, <1>4 DEF Owns, RoleOf
<1>7. \A u \in User : scheduled'[u] = scheduled[u]
    BY <1>2, <1>3, WorkspacesAssumption
<1>8. \A w \in Workspace : scheduled'[w] = Unborn => scheduled[w] = Unborn
    BY <1>3, WorkspacesAssumption
<1>9. \A w \in Workspace, u \in User :
          /\ scheduled[w] = Unborn /\ member[<<w, u>>] = None => member'[<<w, u>>] = None
          /\ Owns(u, w)' => Owns(u, w) /\ member'[<<w, u>>] = member[<<w, u>>]
          /\ w \in Safe' /\ Owns(u, w) => Owns(u, w)'
    BY <1>4, <1>5, <1>6
<1>10. \A w \in Safe' : scheduled'[w] = scheduled[w]
    BY <1>3, <1>5 DEF Safe
<1> QED
    BY <1>2, <1>5, <1>7, <1>8, <1>9, <1>10 DEF KeepsOwners

\* The hard deletion of a user, who owns nothing safe.
LEMMA DeleteKeeps == ASSUME TypeOK, Lists, ListedUsers, NEW d \in User, DeleteUser(d) PROVE KeepsOwners
<1>1. CASE Referenced(d)
    <2>1. UNCHANGED <<scheduled, member, crossed, req>>
        BY <1>1 DEF DeleteUser, history
    <2> QED
        BY <2>1, SameKeeps
<1>2. CASE ~Referenced(d)
    <2>1. /\ scheduled' = [scheduled EXCEPT ![d] = Gone]
          /\ member' = [p \in DOMAIN member |-> IF p[2] = d THEN None ELSE member[p]]
          /\ crossed' = crossed /\ req' = req
          /\ job = "users" /\ d \in todo
        BY <1>2 DEF DeleteUser, history
    <2>2. scheduled[d] \in Int /\ \A w \in Safe : ~Owns(d, w)
        BY <2>1 DEF ListedUsers
    <2>3. /\ \A x \in (Workspace \cup User) \ {d} : scheduled'[x] = scheduled[x]
          /\ scheduled'[d] = Gone
        BY <2>1 DEF TypeOK
    <2>4. \A u \in User, w \in Workspace : member'[<<w, u>>] = IF u = d THEN None ELSE member[<<w, u>>]
        BY <2>1 DEF TypeOK
    <2>5. \A w \in Workspace : scheduled'[w] = scheduled[w]
        BY <2>3, WorkspacesAssumption
    <2>6. Safe' = Safe /\ Safe \subseteq Workspace
        BY <2>1, <2>5 DEF Safe, Exists
    <2>7. /\ \A u \in User \ {d}, w \in Workspace : Owns(u, w)' <=> Owns(u, w)
          /\ \A w \in Workspace : ~Owns(d, w)'
        BY <2>4 DEF Owns, RoleOf
    <2>8. \A w \in Workspace, u \in User :
              /\ scheduled[w] = Unborn /\ member[<<w, u>>] = None => member'[<<w, u>>] = None
              /\ Owns(u, w)' => Owns(u, w) /\ member'[<<w, u>>] = member[<<w, u>>]
              /\ w \in Safe' /\ Owns(u, w) => Owns(u, w)'
        BY <2>2, <2>4, <2>6, <2>7
    <2>9. \A u \in User : scheduled'[u] # None => scheduled[u] # None
        BY <2>2, <2>3, WorkspacesAssumption
    <2>10. \A u \in User : scheduled'[u] \in Int => scheduled'[u] = scheduled[u]
        BY <2>3, WorkspacesAssumption
    <2> QED
        BY <2>1, <2>5, <2>6, <2>8, <2>9, <2>10 DEF KeepsOwners
<1> QED
    BY <1>1, <1>2

\* Only a request that begins, or the creation of a workspace, is another step.
LEMMA NextKeeps ==
    ASSUME TypeOK, Asked, Lists, OwnersStay, [Next]_vars
    PROVE  \/ KeepsOwners
           \/ \E s \in Slot, u \in User, w \in Workspace :
                 \E op \in Op : \E t \in Target(op) : Begin(s, op, u, w, t)
           \/ \E s \in Slot : CreateWorkspace(s) /\ ~Refuse(s)
<1> USE DEF OwnersStay, Schedule
<1>1. CASE UNCHANGED vars
    BY <1>1, SameKeeps DEF vars, rows, history
<1>2. ASSUME NEW s \in Slot, Write(s), ~(CreateWorkspace(s) /\ ~Refuse(s)) PROVE KeepsOwners
    <2>1. CASE Refuse(s)
        <3>1. UNCHANGED <<scheduled, member, crossed>> /\ req' = [req EXCEPT ![s] = Idle]
            BY <2>1 DEF Refuse, End, rows, history
        <3> QED
            BY <3>1, SameKeeps DEF TypeOK
    <2>2. CASE ~Refuse(s)
        BY <1>2, <2>2, MembersWrite, OwnerWrites, LeaveWrites DEF Write
    <2> QED
        BY <2>1, <2>2
<1>3. CASE CommitWorkspace
    BY <1>3, CommitKeeps
<1>4. ASSUME NEW u \in User, DeleteUser(u) PROVE KeepsOwners
    BY <1>4, DeleteKeeps
<1>5. CASE StartCleanup \/ FailWorkspace \/ ListUsers \/ EndCleanup \/ Tick
               \/ \E w \in Workspace, stay \in SUBSET file : RemoveFiles(w, stay)
    <2>1. UNCHANGED <<scheduled, member, crossed, req>>
        BY <1>5 DEF StartCleanup, FailWorkspace, ListUsers, EndCleanup, Tick, RemoveFiles, rows, history
    <2> QED
        BY <2>1, SameKeeps
<1>6. \A w \in Workspace : RemoveFiles(w, {}) => \E stay \in SUBSET file : RemoveFiles(w, stay)
    OBVIOUS
<1>7. ASSUME NEW s \in Slot, File(s) PROVE KeepsOwners
    BY <1>7, FileLeaves, SameKeeps
<1> QED
    BY <1>1, <1>2, <1>3, <1>4, <1>5, <1>6, <1>7 DEF Next, Cleanup

LEMMA NextOwners ==
    ASSUME TypeOK, Asked, Lists, OwnersStay, [Next]_vars PROVE Ownership' /\ Presence'
BY NextKeeps, KeptOwners, BeginOwners, CreateOwners DEF OwnersStay

\* The times that requests set.
LEMMA WriteTimes ==
    ASSUME TypeOK, NEW s \in Slot, Write(s)
    PROVE  /\ \A x \in Workspace \cup User : scheduled'[x] \in {scheduled[x], None, now}
           /\ \A u \in User : scheduled[u] \in Int => scheduled'[u] \in Int
           /\ UNCHANGED <<now, jobVars>>
<1>0. now \in Int
    BY DEF TypeOK, Time
<1>1. CASE Refuse(s)
    BY <1>1 DEF Refuse, rows
<1>2. CASE CreateWorkspace(s) /\ ~Refuse(s)
    <2>1. req[s].ws \in Workspace
        BY <1>2, Held, Ops DEF CreateWorkspace
    <2> QED
        BY <1>2, <2>1, WorkspacesAssumption DEF CreateWorkspace, TypeOK
<1>3. CASE InviteMember(s) /\ ~Refuse(s)
    BY <1>3, WorkspacesAssumption DEF InviteMember, TypeOK
<1>4. CASE (UpdateMemberRole(s) \/ RemoveMember(s)) /\ ~Refuse(s)
    BY <1>4 DEF UpdateMemberRole, RemoveMember
<1>5. CASE ScheduleWorkspace(s) /\ ~Refuse(s)
    BY <1>0, <1>5 DEF ScheduleWorkspace, TypeOK
<1>6. ASSUME NEW q, NEW W, W \subseteq Workspace, scheduled' = Restored(q, W), UNCHANGED <<now, jobVars>>
      PROVE  /\ \A x \in Workspace \cup User : scheduled'[x] \in {scheduled[x], None, now}
             /\ \A u \in User : scheduled[u] \in Int => scheduled'[u] \in Int
    BY <1>6, WorkspacesAssumption DEF Restored, TypeOK
<1>7. CASE CancelWorkspace(s)
    <2>1. {req[s].ws} \subseteq Workspace
        BY <1>7, Held, Ops DEF CancelWorkspace
    <2> QED
        BY <1>6, <1>7, <2>1 DEF CancelWorkspace
<1>8. CASE RestoreAccount(s)
    <2>1. OwnedBy(req[s].by) \subseteq Workspace
        BY DEF OwnedBy
    <2> QED
        BY <1>6, <1>8, <2>1 DEF RestoreAccount
<1>9. CASE ScheduleAccount(s) /\ ~Refuse(s)
    <2>1. PICK W : scheduled' = [x \in DOMAIN scheduled |->
                                    IF x \in W \cup {req[s].by} THEN now ELSE scheduled[x]]
        BY <1>9 DEF ScheduleAccount
    <2> QED
        BY <1>0, <1>9, <2>1 DEF ScheduleAccount, TypeOK
<1> QED
    BY <1>1, <1>2, <1>3, <1>4, <1>5, <1>7, <1>8, <1>9 DEF Write

LEMMA NextSchedule ==
    ASSUME TypeOK, Asked, Lists, OwnersStay, [Next]_vars PROVE Schedule'
<1> USE DEF OwnersStay, Schedule
<1>0. now \in Int /\ cutoff \in Int /\ Grace \in Int /\ Grace > 0
    BY WorkspacesAssumption DEF TypeOK, Time
<1>1. ASSUME UNCHANGED <<scheduled, member, crossed, now, jobVars>> PROVE Schedule'
    <2>1. Safe' = Safe
        BY <1>1 DEF Safe, Exists
    <2>2. \A u \in User, w \in Workspace : Owns(u, w)' <=> Owns(u, w)
        BY <1>1 DEF Owns, RoleOf
    <2> QED
        BY <1>1, <2>1, <2>2 DEF Past, Listed, ListedUsers, Due, jobVars, Safe, Lists
<1>2. ASSUME NEW s \in Slot, NEW op \in Op, NEW u \in User, NEW w \in Workspace, NEW t \in Target(op),
             Begin(s, op, u, w, t)
      PROVE  Schedule'
    <2>1. UNCHANGED <<scheduled, member, now, jobVars>> /\ crossed \subseteq crossed'
        BY <1>2 DEF Begin, CrossedBy, rows
    <2>2. Safe' \subseteq Safe
        BY <2>1 DEF Safe, Exists
    <2>3. \A v \in User, x \in Workspace : Owns(v, x)' <=> Owns(v, x)
        BY <2>1 DEF Owns, RoleOf
    <2> QED
        BY <2>1, <2>2, <2>3 DEF Past, Listed, ListedUsers, Due, jobVars, Safe, Lists
<1>3. ASSUME NEW s \in Slot, Write(s) PROVE Schedule'
    <2>1. /\ \A x \in Workspace \cup User : scheduled'[x] \in {scheduled[x], None, now}
          /\ \A u \in User : scheduled[u] \in Int => scheduled'[u] \in Int
          /\ UNCHANGED <<now, jobVars>>
        BY <1>3, WriteTimes
    <2>2. Past'
        BY <1>0, <2>1, WorkspacesAssumption DEF Past
    <2>3. Listed'
        BY <1>0, <2>1, WorkspacesAssumption DEF Listed, Due, jobVars
    <2>4. ASSUME NEW u \in User, scheduled[u] \in Int, \A w \in Safe : ~Owns(u, w)
          PROVE  \A w \in Safe' : ~Owns(u, w)'
        <3>1. CASE KeepsOwners
            BY <2>4, <3>1 DEF KeepsOwners, Safe
        <3>2. CASE CreateWorkspace(s) /\ ~Refuse(s)
            <4>1. PICK x, b : x = req[s].ws /\ b = req[s].by
                OBVIOUS
            <4>2. x \in Workspace /\ b \in User /\ req[s] # Idle
                BY <3>2, <4>1, Held, Ops DEF CreateWorkspace, Idle
            <4>3. /\ scheduled' = [scheduled EXCEPT ![x] = None] /\ crossed' = crossed
                  /\ member' = [member EXCEPT ![<<x, b>>] = Founder]
                BY <3>2, <4>1 DEF CreateWorkspace, history
            <4>4. u = b => x \in crossed
                BY <2>4, <4>1, <4>2, WorkspacesAssumption DEF Presence, Stale
            <4>5. \A w \in Workspace : <<w, u>> # <<x, b>> => member'[<<w, u>>] = member[<<w, u>>]
                BY <4>2, <4>3 DEF TypeOK
            <4>6. \A w \in Workspace : <<w, u>> # <<x, b>> => (Owns(u, w)' <=> Owns(u, w))
                BY <4>5 DEF Owns, RoleOf
            <4>7. \A w \in Safe' : w \in Workspace \ crossed /\ (w = x \/ w \in Safe)
                BY <4>2, <4>3 DEF Safe, Exists, TypeOK
            <4>8. \A v \in User : member[<<x, v>>] = None
                BY <3>2, <4>1, <4>2 DEF CreateWorkspace, Ownership, NoMembersYet
            <4>9. u # b => ~Owns(u, x)'
                BY <4>2, <4>6, <4>8 DEF Owns, RoleOf
            <4> QED
                BY <2>4, <4>4, <4>6, <4>7, <4>9
        <3>3. KeepsOwners \/ (CreateWorkspace(s) /\ ~Refuse(s))
            <4>1. CASE Refuse(s)
                <5>1. UNCHANGED <<scheduled, member, crossed>> /\ req' = [req EXCEPT ![s] = Idle]
                    BY <4>1 DEF Refuse, End, rows, history
                <5> QED
                    BY <5>1, SameKeeps DEF TypeOK
            <4>2. CASE ~Refuse(s)
                BY <1>3, <4>2, MembersWrite, OwnerWrites, LeaveWrites DEF Write
            <4> QED
                BY <4>1, <4>2
        <3> QED
            BY <3>1, <3>2, <3>3
    <2>5. ListedUsers'
        BY <2>1, <2>4 DEF ListedUsers, Lists, jobVars
    <2> QED
        BY <2>2, <2>3, <2>5
<1>4. CASE CommitWorkspace
    <2>1. PICK c : c = current
        OBVIOUS
    <2>2. /\ c \in Workspace /\ scheduled' = [scheduled EXCEPT ![c] = Gone] /\ todo' = todo \ {c}
          /\ job = "deleting" /\ job' = "workspaces" /\ UNCHANGED <<now, cutoff>>
        BY <1>4, <2>1 DEF CommitWorkspace, Lists
    <2> QED
        BY <2>2, WorkspacesAssumption DEF Past, Listed, ListedUsers, Due, TypeOK
<1>5. ASSUME NEW d \in User, DeleteUser(d) PROVE Schedule'
    <2>1. CASE Referenced(d)
        BY <1>5, <2>1 DEF DeleteUser, Past, Listed, ListedUsers
    <2>2. CASE ~Referenced(d)
        <3>1. /\ scheduled' = [scheduled EXCEPT ![d] = Gone] /\ todo' = todo \ {d}
              /\ job = "users" /\ job' = job /\ UNCHANGED <<now, cutoff>>
            BY <1>5, <2>2 DEF DeleteUser
        <3>2. Past' /\ Listed'
            BY <3>1, WorkspacesAssumption DEF Past, Listed, TypeOK
        <3>3. KeepsOwners
            BY <1>5, DeleteKeeps
        <3>4. todo \subseteq User
            BY <3>1 DEF Lists
        <3>5. \A u \in todo' : u \in User /\ u \in todo /\ scheduled'[u] = scheduled[u]
            BY <3>1, <3>4 DEF TypeOK
        <3> QED
            BY <3>1, <3>2, <3>3, <3>5 DEF ListedUsers, KeepsOwners, Safe
    <2> QED
        BY <2>1, <2>2
<1>6. CASE StartCleanup
    BY <1>0, <1>6 DEF StartCleanup, Past, Listed, ListedUsers, Due, rows
<1>7. ASSUME NEW w \in Workspace, NEW stay, RemoveFiles(w, stay) PROVE Schedule'
    BY <1>7 DEF RemoveFiles, Past, Listed, ListedUsers, Due
<1>8. CASE FailWorkspace \/ EndCleanup
    BY <1>8 DEF FailWorkspace, EndCleanup, Past, Listed, ListedUsers, rows
<1>9. CASE ListUsers
    <2>1. /\ \A w \in Workspace : ~Due(w, cutoff)
          /\ todo' = {u \in User : Due(u, cutoff)} /\ job' = "users"
          /\ UNCHANGED <<scheduled, member, crossed, now>>
        BY <1>9 DEF ListUsers, Listed, rows, history
    <2>2. Safe' = Safe
        BY <2>1 DEF Safe, Exists
    <2>3. \A u \in User, w \in Workspace : Owns(u, w)' <=> Owns(u, w)
        BY <2>1 DEF Owns, RoleOf
    <2>4. \A u \in User, w \in Safe : Due(u, cutoff) => ~Owns(u, w)
        BY <1>0, <2>1 DEF Presence, OwnersGo, Due, Safe
    <2> QED
        BY <2>1, <2>2, <2>3, <2>4 DEF Past, Listed, ListedUsers, Due, Safe
<1>10. CASE Tick
    <2>1. UNCHANGED <<scheduled, member, crossed, jobVars>> /\ now' = now + 1
        BY <1>10 DEF Tick, rows, history
    <2>2. Safe' = Safe
        BY <2>1 DEF Safe, Exists
    <2>3. \A u \in User, w \in Workspace : Owns(u, w)' <=> Owns(u, w)
        BY <2>1 DEF Owns, RoleOf
    <2> QED
        BY <1>0, <2>1, <2>2, <2>3 DEF Past, Listed, ListedUsers, Due, jobVars, Safe, Lists
<1>11. CASE UNCHANGED vars
    BY <1>1, <1>11 DEF vars, rows, history
<1>12. ASSUME NEW s \in Slot, File(s) PROVE Schedule'
    BY <1>1, <1>12, FileLeaves
<1> QED
    BY <1>2, <1>3, <1>4, <1>5, <1>6, <1>7, <1>8, <1>9, <1>10, <1>11, <1>12 DEF Next, Cleanup

\* A workspace has one owner for as long as it exists, whatever is invited, changed,
\* removed and deleted, unless the deletion of the owner's account overlapped another
\* request of that owner (member_service.py:141-149,168-176; scheduler.py).
THEOREM WorkspaceHasOneOwner == Spec => []OneOwner
<1>1. Init => OwnersStay
    <2> SUFFICES ASSUME Init PROVE OwnersStay
        OBVIOUS
    <2>1. Workspace \cap User = {} /\ \A x \in Workspace \cup User : scheduled[x] \in {None, Unborn}
        BY WorkspacesAssumption DEF Init
    <2>2. Safe = {} /\ \A s \in Slot : req[s] = Idle
        BY WorkspacesAssumption DEF Init, Safe, Exists
    <2>3. Ownership
        BY <2>2 DEF Init, Ownership, NoMembersYet, ActiveOwners, SoleOwner, Owns, RoleOf
    <2>4. Presence
        BY <2>1, <2>2, WorkspacesAssumption DEF Presence, Overlap, Stale, OwnerRequests, Leaves, OwnersGo, Idle, OwnerOps
    <2>5. Schedule
        BY <2>1, WorkspacesAssumption DEF Init, Schedule, Past, Listed, ListedUsers
    <2> QED
        BY <2>3, <2>4, <2>5 DEF OwnersStay
<1>2. TypeOK /\ OwnersStay => OneOwner
    BY OwnersOf DEF OwnersStay, OneOwner, Safe
<1>3. TypeOK /\ Asked /\ Lists /\ OwnersStay /\ [Next]_vars => OwnersStay'
    BY NextOwners, NextSchedule DEF OwnersStay
<1> QED
    BY <1>1, <1>2, <1>3, InitTypes, NextTypes, PTL DEF Spec
=============================================================================
