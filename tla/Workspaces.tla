---------------------------- MODULE Workspaces ----------------------------
(***************************************************************************)
(* Workspaces, their members and the hard deletion of workspaces and users *)
(* (backend/services/workspace_service.py, member_service.py,              *)
(* account_service.py, their routers, backend/scheduler.py).               *)
(*                                                                         *)
(* A request loads its user, memberships and their workspaces when it      *)
(* begins (get_current_user) and writes later; SQLAlchemy does not read    *)
(* again what the request's session holds and writes only what changes.    *)
(* Up to one request per slot is under way at a time.  The hourly job      *)
(* lists what was scheduled at or before its cutoff and deletes one item   *)
(* per transaction.                                                        *)
(*                                                                         *)
(* The routes of documents have neither a user nor a membership.  A file   *)
(* is written before its row and removed after it.  A document is named    *)
(* after its workspace and the uploader recorded; as a bound, there is one *)
(* of a name at a time.                                                    *)
(***************************************************************************)
EXTENDS Integers, FiniteSets

CONSTANTS
    Workspace, User,
    Registered,     \* users who have an account at first
    Slot,           \* concurrent requests
    Grace,          \* the 48 hours, in ticks of the clock
    MaxTime,        \* bound on the clock
    MaxRequests,    \* bound on the requests of a behaviour
    None,           \* deletion_scheduled_at IS NULL; no row
    Unborn, Gone    \* the row is not there yet, or no more

ASSUME WorkspacesAssumption ==
    /\ Registered \subseteq User
    /\ Grace \in Nat \ {0}
    /\ MaxTime \in Nat /\ MaxRequests \in Nat
    /\ {None, Unborn, Gone} \cap Int = {}
    /\ None # Unborn /\ None # Gone /\ Unborn # Gone
    /\ Workspace \cap User = {} /\ None \notin Workspace \cup User

Time == 0..MaxTime
Role == {"operator", "admin", "owner"}   \* read-only differs from operator nowhere here

Membership == [role : Role, status : {"active", "pending"}, by : User \cup {None}]

ASSUME RowsAssumption == None \notin Membership

VARIABLES
    scheduled,  \* deletion_scheduled_at of workspaces and users, or no such row
    member,     \* workspace_members
    document,   \* rows of documents: workspace and uploader
    file,       \* files on the disk
    filing,     \* the request about a document in each slot
    now,        \* the clock
    req,        \* the request in each slot
    begun,      \* how many requests there were
    job,        \* where the cleanup job stands
    cutoff,     \* its cutoff time
    todo,       \* the workspaces or users it has listed and not deleted yet
    current,    \* the one it is deleting
    kept,       \* history: workspaces whose deletion was cancelled outside a run
    crossed,    \* history: workspaces whose owner's account deletion overlapped
                \* another request of that owner
    stray,      \* history: documents uploaded during the hard deletion of workspace
                \* or uploader, or whose upload or removal failed
    faulted     \* history: workspaces whose hard deletion failed at least once

files   == <<document, file, filing>>
rows    == <<scheduled, member, document, file, filing>>
jobVars == <<job, cutoff, todo, current>>
history == <<kept, crossed, stray, faulted>>
vars == <<rows, now, req, begun, jobVars, history>>

Exists(x)  == scheduled[x] \notin {Unborn, Gone}
Live(u)    == scheduled[u] = None      \* get_current_user lets this user in
RoleOf(w, u) == IF member[<<w, u>>] = None THEN "none" ELSE member[<<w, u>>].role
Owners(w)  == {u \in User : RoleOf(w, u) = "owner" /\ member[<<w, u>>].status = "active"}

\* The routes for admins and owners, those for owners, those without a workspace.
AdminOps   == {"invite", "patch"}
OwnerOps   == {"remove", "schedule", "cancel"}
AccountOps == {"create", "leave", "restore"}
Op == AdminOps \cup OwnerOps \cup AccountOps

\* _ROLE_HIERARCHY, require_min_role, require_role
MinRole(op) == IF op \in OwnerOps THEN {"owner"}
               ELSE IF op \in AdminOps THEN {"admin", "owner"} ELSE Role

\* What a request names, besides its workspace: a member and a role.
Target(op) ==
    IF op \in {"invite", "patch"} THEN User \X {"operator", "admin"}
    ELSE IF op = "remove" THEN User \X {None}
    ELSE {<<None, None>>}

Idle == [op |-> "idle"]
Request ==
    {Idle} \cup
    [op : Op, by : User, ws : Workspace, role : Role \cup {None},
     on : User \cup {None}, new : {"operator", "admin", None},
     seen : [Workspace -> Time \cup {None, Unborn, Gone}]]

\* Requests about a document: its upload, the deletion of its row and its file.
Filing == {Idle} \cup [op : {"upload", "drop", "unlink"}, doc : Workspace \X User]

TypeOK ==
    /\ scheduled \in [Workspace \cup User -> Time \cup {None, Unborn, Gone}]
    /\ member \in [Workspace \X User -> Membership \cup {None}]
    /\ document \subseteq Workspace \X User
    /\ file \subseteq Workspace \X User
    /\ filing \in [Slot -> Filing]
    /\ now \in Time
    /\ req \in [Slot -> Request]
    /\ begun \in 0..MaxRequests
    /\ job \in {"idle", "workspaces", "deleting", "users", "aborted"}
    /\ cutoff \in -Grace..MaxTime
    /\ todo \subseteq Workspace \cup User
    /\ current \in Workspace \cup User \cup {None}
    /\ kept \cup crossed \cup faulted \subseteq Workspace
    /\ stray \subseteq Workspace \X User

Init ==
    /\ scheduled = [x \in Workspace \cup User |-> IF x \in Registered THEN None ELSE Unborn]
    /\ member = [p \in Workspace \X User |-> None]
    /\ document = {}
    /\ file = {}
    /\ filing = [s \in Slot |-> Idle]
    /\ now = 0
    /\ req = [s \in Slot |-> Idle]
    /\ begun = 0
    /\ job = "idle"
    /\ cutoff = -Grace
    /\ todo = {}
    /\ current = None
    /\ kept = {}
    /\ crossed = {}
    /\ stray = {}
    /\ faulted = {}

---------------------------------------------------------------------------
(* Requests: what they load *)

BusyFor(u, ops) == {s \in Slot : req[s].op \in ops /\ req[s].by = u}

OwnedBy(u) == {w \in Workspace : RoleOf(w, u) = "owner"}

\* When a request of u overlaps the deletion of u's account, that concerns all
\* that u owns and the workspaces that the requests name.
CrossedBy(op, u, w) ==
    LET other == BusyFor(u, IF op = "leave" THEN Op ELSE {"leave"}) IN
    crossed' = crossed \cup (IF other = {} THEN {}
                             ELSE OwnedBy(u) \cup {w} \cup {req[s].ws : s \in other})

\* What the session of a request holds that its writes depend on.
Loaded(op, u, w, t) ==
    [op |-> op, by |-> u, ws |-> w, on |-> t[1], new |-> t[2],
     role |-> IF op = "patch" THEN RoleOf(w, u) ELSE None,
     seen |-> [x \in Workspace |->
                  IF op \in {"cancel", "leave", "restore"} THEN scheduled[x] ELSE None]]

\* get_current_user; get_current_membership and the role check of the routes of
\* a workspace.
Begin(s, op, u, w, t) ==
    /\ req[s] = Idle
    /\ begun < MaxRequests
    /\ begun' = begun + 1
    /\ Live(u)
    /\ op \notin AccountOps => Exists(w) /\ RoleOf(w, u) \in MinRole(op)
    /\ op = "create" => scheduled[w] = Unborn
    /\ req' = [req EXCEPT ![s] = Loaded(op, u, w, t)]
    /\ CrossedBy(op, u, w)
    /\ UNCHANGED <<rows, now, jobVars, kept, stray, faulted>>

---------------------------------------------------------------------------
(* Requests: what they write *)

End(s) == req' = [req EXCEPT ![s] = Idle] /\ UNCHANGED begun
Refuse(s) == End(s) /\ UNCHANGED <<rows, now, jobVars, history>>

\* The creator of a workspace owns it, also of the one that login provides.
Founder == [role |-> "owner", status |-> "active", by |-> None]

\* create_workspace, ensure_default_workspace
CreateWorkspace(s) ==
    LET q == req[s] IN
    /\ q.op = "create"
    /\ IF Exists(q.by) /\ scheduled[q.ws] = Unborn
       THEN /\ scheduled' = [scheduled EXCEPT ![q.ws] = None]
            /\ member' = [member EXCEPT ![<<q.ws, q.by>>] = Founder]
            /\ End(s)
            /\ UNCHANGED <<files, now, jobVars, history>>
       ELSE Refuse(s)

\* invite_member: a placeholder account if there is none; 409 if v is a member
\* already, an error if workspace or inviter are gone.
InviteMember(s) ==
    LET q == req[s] IN
    /\ q.op = "invite"
    /\ IF Exists(q.ws) /\ Exists(q.by) /\ member[<<q.ws, q.on>>] = None /\ scheduled[q.on] # Gone
       THEN /\ member' = [member EXCEPT ![<<q.ws, q.on>>] =
                              [role |-> q.new, status |-> "pending", by |-> q.by]]
            /\ scheduled' = [scheduled EXCEPT ![q.on] = IF @ = Unborn THEN None ELSE @]
            /\ End(s)
            /\ UNCHANGED <<files, now, jobVars, history>>
       ELSE Refuse(s)

\* The last active owner stays one.
OwnerRemains(q) == RoleOf(q.ws, q.on) = "owner" => Cardinality(Owners(q.ws)) > 1

\* Only an owner changes the role of owners and admins.
MayChange(q) == q.role # "owner" => RoleOf(q.ws, q.on) = "operator"

\* update_member_role; the schema lets nobody be made an owner.
UpdateMemberRole(s) ==
    LET q == req[s] IN
    /\ q.op = "patch"
    /\ IF member[<<q.ws, q.on>>] # None /\ MayChange(q) /\ OwnerRemains(q)
       THEN /\ member' = [member EXCEPT ![<<q.ws, q.on>>].role = q.new]
            /\ End(s)
            /\ UNCHANGED <<scheduled, files, now, jobVars, history>>
       ELSE Refuse(s)

\* remove_member
RemoveMember(s) ==
    LET q == req[s] IN
    /\ q.op = "remove"
    /\ IF member[<<q.ws, q.on>>] # None /\ OwnerRemains(q)
       THEN /\ member' = [member EXCEPT ![<<q.ws, q.on>>] = None]
            /\ End(s)
            /\ UNCHANGED <<scheduled, files, now, jobVars, history>>
       ELSE Refuse(s)

\* schedule_workspace_deletion: the time is set anew, whatever it was.
ScheduleWorkspace(s) ==
    LET q == req[s] IN
    /\ q.op = "schedule"
    /\ IF Exists(q.ws)
       THEN /\ scheduled' = [scheduled EXCEPT ![q.ws] = now]
            /\ kept' = kept \ {q.ws}
            /\ End(s)
            /\ UNCHANGED <<member, files, now, jobVars, crossed, stray, faulted>>
       ELSE Refuse(s)

\* Mutant: a workspace past its grace period is not restored.
RestoredInTime(q, W) ==
    [x \in DOMAIN scheduled |->
        IF x \in W /\ Exists(x) /\ q.seen[x] \in Int /\ q.seen[x] > now - Grace
        THEN None ELSE scheduled[x]]

\* What clearing the time of W does: nothing where it was loaded as NULL.
Restored(q, W) ==
    [x \in DOMAIN scheduled |->
        IF x \in W /\ Exists(x) /\ q.seen[x] # None THEN None ELSE scheduled[x]]

KeptAfter(q, W) ==
    kept' = kept \cup {w \in W : Exists(w) /\ q.seen[w] # None /\ job \in {"idle", "aborted"}}

\* cancel_workspace_deletion
CancelWorkspace(s) ==
    LET q == req[s] IN
    /\ q.op = "cancel"
    /\ scheduled' = Restored(q, {q.ws})
    /\ KeptAfter(q, {q.ws})
    /\ End(s)
    /\ UNCHANGED <<member, files, now, jobVars, crossed, stray, faulted>>

\* schedule_account_deletion: the user, and what it owns that it has not seen
\* scheduled.  (Its sessions go too, see Sessions.)
ScheduleAccount(s) ==
    LET q == req[s]
        W == {w \in OwnedBy(q.by) : Exists(w) /\
                 (q.seen[w] = None \/ (q.seen[w] = Unborn /\ scheduled[w] = None))}
    IN
    /\ q.op = "leave"
    /\ IF Exists(q.by)
       THEN /\ scheduled' = [x \in DOMAIN scheduled |->
                                IF x \in W \cup {q.by} THEN now ELSE scheduled[x]]
            /\ kept' = kept \ W
            /\ End(s)
            /\ UNCHANGED <<member, files, now, jobVars, crossed, stray, faulted>>
       ELSE Refuse(s)

\* cancel_account_deletion of a user loaded as not scheduled: only workspaces.
RestoreAccount(s) ==
    LET q == req[s] IN
    /\ q.op = "restore"
    /\ scheduled' = Restored(q, OwnedBy(q.by))
    /\ KeptAfter(q, OwnedBy(q.by))
    /\ End(s)
    /\ UNCHANGED <<member, files, now, jobVars, crossed, stray, faulted>>

Write(s) ==
    \/ CreateWorkspace(s) \/ InviteMember(s) \/ UpdateMemberRole(s) \/ RemoveMember(s)
    \/ ScheduleWorkspace(s) \/ CancelWorkspace(s)
    \/ ScheduleAccount(s) \/ RestoreAccount(s)

---------------------------------------------------------------------------
(* Documents and their files *)

Of(d) == {s \in Slot : filing[s] # Idle /\ filing[s].doc = d}
Uploads == {filing[s].doc : s \in {z \in Slot : filing[z].op = "upload"}}

StartFiling(s, op, d) ==
    /\ filing[s] = Idle
    /\ begun < MaxRequests
    /\ begun' = begun + 1
    /\ filing' = [filing EXCEPT ![s] = [op |-> op, doc |-> d]]

\* upload_document: any member of the workspace is recorded as the uploader, and
\* the file is written.
BeginUpload(s, d) ==
    /\ StartFiling(s, "upload", d)
    /\ member[d] # None
    /\ d \notin file \cup document /\ Of(d) = {}
    /\ file' = file \cup {d}
    /\ stray' = IF job = "deleting" /\ current = d[1] THEN stray \cup {d} ELSE stray \ {d}
    /\ UNCHANGED <<scheduled, member, document, now, req, jobVars, kept, crossed, faulted>>

EndFiling(s) == filing' = [filing EXCEPT ![s] = Idle]

\* ... then the row, which has keys to workspace and uploader; without them the
\* insert fails and the file stays.
CommitUpload(s) ==
    /\ filing[s].op = "upload"
    /\ EndFiling(s)
    /\ document' = document \cup
           {d \in {filing[s].doc} : Exists(d[1]) /\ Exists(d[2])}
    /\ UNCHANGED <<scheduled, member, file, now, req, begun, jobVars, history>>

\* delete_document loads the row,
BeginDrop(s, d) ==
    /\ StartFiling(s, "drop", d)
    /\ d \in document
    /\ UNCHANGED <<scheduled, member, document, file, now, req, jobVars, history>>

\* ... deletes it, also if another has,
DropRow(s) ==
    /\ filing[s].op = "drop"
    /\ document' = document \ {filing[s].doc}
    /\ filing' = [filing EXCEPT ![s].op = "unlink"]
    /\ UNCHANGED <<scheduled, member, file, now, req, begun, jobVars, history>>

\* ... and removes the file, if it is there.
Unlink(s) ==
    /\ filing[s].op = "unlink"
    /\ EndFiling(s)
    /\ file' = file \ {filing[s].doc}
    /\ UNCHANGED <<scheduled, member, document, now, req, begun, jobVars, history>>

\* A statement or os.remove raises, or the process dies.
FailFiling(s) ==
    /\ filing[s] # Idle
    /\ EndFiling(s)
    /\ stray' = stray \cup (IF filing[s].op = "drop" THEN {} ELSE {filing[s].doc})
    /\ UNCHANGED <<scheduled, member, document, file, now, req, begun, jobVars,
                   kept, crossed, faulted>>

File(s) ==
    \/ \E d \in Workspace \X User : BeginUpload(s, d) \/ BeginDrop(s, d)
    \/ CommitUpload(s) \/ DropRow(s) \/ Unlink(s) \/ FailFiling(s)

---------------------------------------------------------------------------
(* The cleanup job: run_deletion_cleanup *)

Due(x, t) == scheduled[x] \in Int /\ scheduled[x] <= t

\* Once an hour, unless the last run is still going; one cutoff for both lists.
StartCleanup ==
    /\ job \in {"idle", "aborted"}
    /\ \E x \in DOMAIN scheduled : Due(x, now - Grace)
    /\ job' = "workspaces"
    /\ cutoff' = now - Grace
    /\ todo' = {w \in Workspace : Due(w, now - Grace)}
    /\ current' = None
    /\ UNCHANGED <<rows, now, req, begun, history>>

\* _hard_delete_workspace: the files go first, those that can be removed.
RemoveFiles(w, stay) ==
    /\ job = "workspaces"
    /\ w \in todo
    /\ stay \subseteq {d \in file \cap document : d[1] = w}
    /\ file' = file \ ({d \in document : d[1] = w} \ stay)
    /\ stray' = stray \cup stay \cup {d \in Uploads : d[1] = w}
    /\ job' = "deleting"
    /\ current' = w
    /\ UNCHANGED <<scheduled, member, document, filing, now, req, begun, cutoff, todo,
                   kept, crossed, faulted>>

\* Mutant: the documents are left to the cascade of a key that is not there.
CommitWithoutDocuments ==
    /\ job = "deleting"
    /\ scheduled' = [scheduled EXCEPT ![current] = Gone]
    /\ member' = [p \in DOMAIN member |-> IF p[1] = current THEN None ELSE member[p]]
    /\ todo' = todo \ {current}
    /\ job' = "workspaces"
    /\ current' = None
    /\ UNCHANGED <<files, now, req, begun, cutoff, history>>

\* Then the rows, the workspace last, and the commit; nobody looks at the time
\* again.
CommitWorkspace ==
    /\ job = "deleting"
    /\ scheduled' = [scheduled EXCEPT ![current] = Gone]
    /\ member' = [p \in DOMAIN member |-> IF p[1] = current THEN None ELSE member[p]]
    /\ document' = {d \in document : d[1] # current}
    /\ todo' = todo \ {current}
    /\ job' = "workspaces"
    /\ current' = None
    /\ UNCHANGED <<file, filing, now, req, begun, cutoff, history>>

\* Mutant: the handler logs the failure and the loop goes on.
FailAndGoOn ==
    /\ job = "deleting"
    /\ faulted' = faulted \cup {current}
    /\ todo' = todo \ {current}
    /\ job' = "workspaces"
    /\ current' = None
    /\ UNCHANGED <<rows, now, req, begun, cutoff, kept, crossed, stray>>

\* A statement raises, or the process dies.  The handler rolls back and then
\* logs ws.id, which the rollback has expired: the run ends here.
FailWorkspace ==
    /\ job = "deleting"
    /\ faulted' = faulted \cup {current}
    /\ job' = "aborted"
    /\ UNCHANGED <<rows, now, req, begun, cutoff, todo, current, kept, crossed, stray>>

\* The users of the second list, once the workspaces are done.
ListUsers ==
    /\ job = "workspaces"
    /\ todo = {}
    /\ job' = "users"
    /\ todo' = {u \in User : Due(u, cutoff)}
    /\ UNCHANGED <<rows, now, req, begun, cutoff, current, history>>

\* Keys without a cascade: uploaded_by_user_id, invited_by_user_id (and
\* resolved_by_user_id of an approval, which works like the first).
Referenced(u) ==
    \/ \E d \in document : d[2] = u
    \/ \E p \in DOMAIN member : p[2] # u /\ member[p] # None /\ member[p].by = u

\* Mutant: the loop over the users does not move on.
DeleteUserAgain(u) ==
    /\ job = "users"
    /\ u \in todo
    /\ IF Referenced(u)
       THEN job' = "aborted" /\ current' = u /\ UNCHANGED <<scheduled, member, stray>>
       ELSE /\ scheduled' = [scheduled EXCEPT ![u] = Gone]
            /\ member' = [p \in DOMAIN member |-> IF p[2] = u THEN None ELSE member[p]]
            /\ stray' = stray \cup {d \in Uploads : d[2] = u}
            /\ UNCHANGED <<job, current>>
    /\ UNCHANGED <<files, now, req, begun, cutoff, todo, kept, crossed, faulted>>

\* Memberships, owned ones too, and the user; or the keys refuse.
DeleteUser(u) ==
    /\ job = "users"
    /\ u \in todo
    /\ IF Referenced(u)
       THEN /\ job' = "aborted"
            /\ current' = u
            /\ UNCHANGED <<scheduled, member, todo, stray>>
       ELSE /\ scheduled' = [scheduled EXCEPT ![u] = Gone]
            /\ member' = [p \in DOMAIN member |-> IF p[2] = u THEN None ELSE member[p]]
            /\ todo' = todo \ {u}
            /\ stray' = stray \cup {d \in Uploads : d[2] = u}
            /\ UNCHANGED <<job, current>>
    /\ UNCHANGED <<files, now, req, begun, cutoff, kept, crossed, faulted>>

EndCleanup ==
    /\ job = "users"
    /\ todo = {}
    /\ job' = "idle"
    /\ cutoff' = -Grace
    /\ UNCHANGED <<rows, now, req, begun, todo, current, history>>

Tick ==
    /\ now < MaxTime
    /\ now' = now + 1
    /\ UNCHANGED <<rows, req, begun, jobVars, history>>

Cleanup ==
    \/ StartCleanup \/ CommitWorkspace \/ ListUsers \/ EndCleanup
    \/ \E w \in Workspace : RemoveFiles(w, {})
    \/ \E u \in User : DeleteUser(u)

---------------------------------------------------------------------------

Next ==
    \/ \E s \in Slot, u \in User, w \in Workspace :
          \E op \in Op : \E t \in Target(op) : Begin(s, op, u, w, t)
    \/ \E s \in Slot : Write(s)
    \/ \E s \in Slot : File(s)
    \/ Cleanup
    \/ \E w \in Workspace : \E stay \in SUBSET file : RemoveFiles(w, stay)
    \/ FailWorkspace
    \/ Tick

Spec == Init /\ [][Next]_vars

\* APScheduler starts the job every hour, and time passes.
FairSpec == Spec /\ WF_vars(Cleanup) /\ WF_vars(Tick)

---------------------------------------------------------------------------
(* Properties *)

\* A workspace has one owner for as long as it exists: invitations, role changes
\* and removals leave it alone (member_service.py:141-149,168-176), and the
\* job deletes the owner's account only after the workspace, even when hard
\* deletions fail, unless the account's deletion overlapped another request of
\* that owner.
OneOwner ==
    \A w \in Workspace \ crossed : Exists(w) => Cardinality(Owners(w)) = 1

\* A workspace whose deletion was cancelled while the job was at rest is not
\* deleted, whatever runs follow (workspace_service.py:119-126).
CancelledIsKept == \A w \in kept : scheduled[w] # Gone

\* Rows and files go together, whatever uploads, deletions of documents, of
\* workspaces and of users overlap: a row has its workspace, its uploader and its
\* file, unless a hard deletion failed after it had removed the file; a file has its
\* row, unless a request about it is under way, or its upload overlapped a hard
\* deletion, or a step on it failed (knowledge.py:86-105,123-129; scheduler.py:31-39).
FilesFollowRows ==
    /\ \A d \in document :
          /\ Exists(d[1]) /\ Exists(d[2])
          /\ d \in file \/ d[1] \in faulted \/ (job = "deleting" /\ current = d[1])
    /\ \A d \in file : d \in document \cup stray \/ \E s \in Of(d) : filing[s].op # "drop"

\* A workspace left scheduled is deleted in the end, whatever the other requests
\* and users of the job's lists, unless a hard deletion fails.
DueIsDeleted ==
    \A w \in Workspace, t \in 0..(MaxTime - Grace) :
        scheduled[w] = t ~> scheduled[w] # t \/ faulted # {}

---------------------------------------------------------------------------
(* What the documents say *)

\* "A failure on one workspace/user does not block others" (Backend
\* Architecture.md:548): a run leaves nothing of its list but what failed.
FailureBlocksNoOther == job = "aborted" => todo \subseteq {current}
===========================================================================
