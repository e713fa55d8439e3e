---------------------------- MODULE AccessControl ----------------------------
(***************************************************************************)
(* Roles, the users that name them, and the default roles every instance   *)
(* seeds: AccessControlService, the writers of UsersService and the        *)
(* registration of AuthService. A user refers to its role by name and the  *)
(* database checks nothing: users.role has no foreign key.                 *)
(*                                                                         *)
(* Each action is the code between two awaits that touch shared state; a   *)
(* request refused before it has written anything is no step, or frees its *)
(* slot. Only updateRole runs in a transaction.                            *)
(***************************************************************************)
EXTENDS Naturals, Sequences, FiniteSets

CONSTANTS
    Instances,   \* server processes, each with its own AccessControlService
    Requests,    \* request slots
    Users,       \* ids of users; the default admin account is not one of them
    Usernames,   \* what they log in with to the admin's pages
    Names,       \* names of roles
    SeedList,    \* the names of DEFAULT_ROLE_SEEDS, in order
    SeedIsAdmin, \* name of a seed -> its is_admin
    SeedPerms,   \* name of a seed -> its permission_keys
    Catalog,     \* ALL_PERMISSION_KEYS
    Legacy,      \* keys of older catalogues, still in table permissions
    Workloads,   \* the mixes of requests considered, one of them in a behaviour
    UserEdits,   \* the UpdateUserDtos (or UpdateUserStatusDtos) sent
    RoleEdits,   \* the UpdateRoleDtos sent
    MaxRoles,    \* bound: rows ever inserted in roles
    MaxFails,    \* bound: calls that fail and instances that restart
    None         \* an absent value

AdminName  == "Admin"
Registered == "Subscriber"
Seeds     == {SeedList[k] : k \in 1 .. Len(SeedList)}
Perms     == Catalog \union Legacy
RoleIds   == 1 .. MaxRoles
NoRole    == 0
AllOps    == {"register", "createUser", "editUser", "removeUser", "createRole",
              "updateRole", "removeRole", "replacePermissions"}

ASSUME AccessAssumption ==
    /\ SeedList \in Seq(Names) /\ Len(SeedList) > 0
    /\ SeedIsAdmin \in [Seeds -> BOOLEAN]
    /\ SeedPerms \in [Seeds -> SUBSET Catalog]
    /\ AdminName \in Seeds => SeedPerms[AdminName] = Catalog
    /\ Registered \in Seeds /\ ~SeedIsAdmin[Registered]
    /\ Catalog \intersect Legacy = {}
    /\ Workloads \subseteq [ops : SUBSET AllOps, requests : SUBSET Requests,
                             instances : SUBSET Instances, perms : SUBSET (SUBSET Perms)]
    /\ MaxRoles \in Nat /\ MaxFails \in Nat
    /\ None \notin Names /\ None \notin BOOLEAN /\ None \notin Users

VARIABLES
    roles,     \* table roles with role_permissions: id -> row
    nextRole,  \* the next id an INSERT gets
    users,     \* table users: id -> row
    memo,      \* per instance: defaultsInitialized, defaultsPromise and syncDefaults
    slot,      \* request slot -> where its handler is, and its local variables
    fails,     \* failures and restarts so far
    raced,     \* history: users about whom two requests were under way at once
    load       \* the workload: which operations arrive, in how many slots, and where

tables == <<roles, nextRole, users>>
vars   == <<roles, nextRole, users, memo, slot, fails, raced, load>>

-----------------------------------------------------------------------------
(* The data. *)

RoleRows == [name : Names, admin : BOOLEAN, system : BOOLEAN, perms : SUBSET Perms]
NoRow    == [name |-> None, admin |-> FALSE, system |-> FALSE, perms |-> {}]

UserRows == [is : {"unused", "stored", "deleted"}, role : Names \union {None},
             username : Usernames \union {None}]
NoUser   == [is |-> "unused", role |-> None, username |-> None]
NewUser(role, username) == [is |-> "stored", role |-> role, username |-> username]

\* A field that is None was not sent, but a username of None is a null that was sent;
\* perms holds the permission_keys sent, if any. A user edit of neither role nor
\* username changes a column that is left out: the status, the e-mail, the names.
ASSUME EditsAssumption ==
    /\ None \notin Usernames /\ "unsent" \notin Usernames \union {None}
    /\ UserEdits \subseteq [role : Names \union {None},
                            username : Usernames \union {None, "unsent"}]
    /\ RoleEdits \subseteq [name : Names \union {None}, admin : BOOLEAN \union {None},
                            perms : {{}} \union {{ps} : ps \in SUBSET Perms}]

OrElse(sent, stored) == IF sent = None THEN stored ELSE sent

Memos  == [pc : {"no", "find", "save", "done"}, k : 1 .. Len(SeedList),
           found : RoleIds \union {NoRole}, copy : RoleRows \union {NoRow}]
NoMemo == [pc |-> "no", k |-> 1, found |-> NoRole, copy |-> NoRow]

Locals == [pc : {"idle", "userInsert", "roleCheck", "userSave", "userWrite", "userDelete",
                 "roleInsert", "cascade", "roleSave", "roleCount", "roleDelete"},
           at : Instances \union {None}, user : Users \union {None}, urow : UserRows,
           cols : SUBSET {"role", "username"}, role : RoleIds \union {NoRole},
           rrow : RoleRows \union {NoRow}, name : Names \union {None}, named : BOOLEAN,
           locked : SUBSET Users]
Idle   == [pc |-> "idle", at |-> None, user |-> None, urow |-> NoUser, cols |-> {},
           role |-> NoRole, rrow |-> NoRow, name |-> None, named |-> FALSE, locked |-> {}]

TypeOK ==
    /\ roles \in [RoleIds -> RoleRows \union {NoRow}]
    /\ nextRole \in 1 .. MaxRoles + 1
    /\ users \in [Users -> UserRows]
    /\ memo \in [Instances -> Memos]
    /\ slot \in [Requests -> Locals]
    /\ fails \in 0 .. MaxFails
    /\ raced \subseteq Users
    /\ load \in Workloads

Init ==
    /\ roles = [d \in RoleIds |-> NoRow]
    /\ nextRole = 1
    /\ users = [u \in Users |-> NoUser]
    /\ memo = [i \in Instances |-> NoMemo]
    /\ slot = [r \in Requests |-> Idle]
    /\ fails = 0
    /\ raced = {}
    /\ load \in Workloads

-----------------------------------------------------------------------------
(* Queries, writes and the moves of a slot. *)

Named(n)    == {d \in RoleIds : roles[d].name = n}
IsRole(d)   == roles[d].name # None
IsUser(u)   == users[u].is = "stored"
Holders(n)  == {u \in Users : IsUser(u) /\ users[u].role = n}
Unlocked(u) == \A r \in Requests : u \notin slot[r].locked

\* The unique index on roles.name.
Allowed(d, row) == Named(row.name) \subseteq {d}

\* save() of a role, one step: SELECT, then UPDATE of the columns that differ, or an
\* INSERT if the row is gone, which leaves the columns of the copy.
PutRole(d, row) ==
    /\ roles' = [roles EXCEPT ![d] = row]
    /\ nextRole' = IF d = nextRole THEN nextRole + 1 ELSE nextRole

Free(r)   == slot[r].pc = "idle"
New(r, o) == Free(r) /\ o \in load.ops
At(r, pc) == slot[r].pc = pc
Move(r, locals) == slot' = [slot EXCEPT ![r] = locals]
Finish(r) == Move(r, Idle)

\* What a handler of instance i does after `await ensureDefaults()`.
Ready(i) == memo[i].pc = "done"

-----------------------------------------------------------------------------
(* ensureDefaults and syncDefaults. The guard of every admin route calls    *)
(* ensureDefaults, and goes on without it when it fails.                    *)

\* The memo after a call of ensureDefaults: a promise is started if there is none.
Called(i) == IF memo[i].pc = "no" THEN [memo EXCEPT ![i].pc = "find"] ELSE memo

EnsureDefaults(i) ==
    /\ memo[i].pc = "no"
    /\ memo' = Called(i)
    /\ UNCHANGED <<tables, slot, fails>>

\* What a seed makes of the role that has its name, if there is one.
Reset(n, perms) == n = AdminName \/ perms = {} \/ perms \intersect Legacy # {}

Seeded(n, d) ==
    [name   |-> n, admin |-> SeedIsAdmin[n], system |-> TRUE,
     perms  |-> IF d = NoRole \/ Reset(n, roles[d].perms)
                THEN SeedPerms[n] ELSE roles[d].perms]

SyncFind(i) ==
    /\ memo[i].pc = "find"
    /\ LET n == SeedList[memo[i].k]
           d == IF Named(n) = {} THEN NoRole ELSE CHOOSE x \in Named(n) : TRUE
       IN  memo' = [memo EXCEPT ![i].pc = "save", ![i].found = d, ![i].copy = Seeded(n, d)]
    /\ UNCHANGED <<tables, slot, fails>>

\* Mutant: the rejected promise is kept, and every later caller gets it.
BugRejected(i) ==
    /\ memo' = [memo EXCEPT ![i].pc = "rejected"]
    /\ slot' = [r \in Requests |-> IF slot[r].at = i /\ At(r, "roleCheck") THEN Idle ELSE slot[r]]

\* Mutant: the promise is not cleared, and the synchronisation stays where it is.
BugRejectedKept(i) == UNCHANGED <<memo, slot>>

\* syncDefaults throws: finally clears the promise, whoever awaited it fails.
Rejected(i) ==
    /\ memo' = [memo EXCEPT ![i] = NoMemo]
    /\ slot' = [r \in Requests |-> IF slot[r].at = i /\ At(r, "roleCheck") THEN Idle ELSE slot[r]]

\* After one seed comes the next; after the last one defaultsInitialized is set.
Advance(i) ==
    memo' = [memo EXCEPT ![i] =
        IF memo[i].k = Len(SeedList) THEN [NoMemo EXCEPT !.pc = "done"]
        ELSE [NoMemo EXCEPT !.pc = "find", !.k = memo[i].k + 1]]

\* Mutant: a role that exists is left as it is.
BugSyncSave(i) ==
    /\ memo[i].pc = "save"
    /\ IF memo[i].found = NoRole
       THEN nextRole <= MaxRoles /\ PutRole(nextRole, memo[i].copy)
       ELSE UNCHANGED <<roles, nextRole>>
    /\ Advance(i)
    /\ UNCHANGED <<users, slot, fails>>

SyncSave(i) ==
    LET d   == IF memo[i].found = NoRole THEN nextRole ELSE memo[i].found
        row == memo[i].copy
    IN  /\ memo[i].pc = "save"
        /\ d <= MaxRoles
        /\ IF Allowed(d, row)
           THEN PutRole(d, row) /\ Advance(i) /\ UNCHANGED slot
           ELSE Rejected(i) /\ UNCHANGED <<roles, nextRole>>
        /\ UNCHANGED <<users, fails>>

-----------------------------------------------------------------------------
(* UsersService. *)

\* A user that is not in the table, nor about to be.
Fresh(u) == users[u].is = "unused" /\ \A q \in Requests : At(q, "userInsert") => slot[q].user # u

\* create: assertRoleExists, the username an admin role requires, then the INSERT
\* (the unique indexes on e-mail and username are left to Fail).
CreateUser(r, i, u, d, username) ==
    /\ New(r, "createUser") /\ Ready(i)
    /\ Fresh(u)
    /\ IsRole(d)
    /\ roles[d].admin => username # None
    /\ Move(r, [Idle EXCEPT !.pc = "userInsert", !.at = i, !.user = u,
                    !.urow = NewUser(roles[d].name, username)])
    /\ UNCHANGED <<tables, memo, fails>>

\* AuthService.register, on a public route: nobody calls ensureDefaults, and nobody
\* looks whether the role exists.
Register(r, i, u) ==
    /\ New(r, "register")
    /\ Fresh(u)
    /\ Move(r, [Idle EXCEPT !.pc = "userInsert", !.at = i, !.user = u,
                    !.urow = NewUser(Registered, None)])
    /\ UNCHANGED <<tables, memo, fails>>

\* A primary key that is taken again is refused.
UserInsert(r) ==
    /\ At(r, "userInsert")
    /\ users' = IF IsUser(slot[r].user) THEN users
                ELSE [users EXCEPT ![slot[r].user] = slot[r].urow]
    /\ Finish(r)
    /\ UNCHANGED <<roles, nextRole, memo, fails>>

\* update and updateStatus read the row and change their copy of it. A dto with
\* a role, or else with a username, has a role to check first; the username they
\* check is dto.username ?? user.username, or dto.username when no role is sent.
EditRead(r, i, u, dto) ==
    LET row   == users[u]
        copy  == [row EXCEPT !.role = OrElse(dto.role, row.role),
                             !.username = IF dto.username = "unsent" THEN row.username
                                          ELSE dto.username]
        check == dto.role # None \/ dto.username # "unsent"
        named == dto.username \in Usernames \/ (dto.role # None /\ row.username # None)
    IN  /\ New(r, "editUser") /\ IsUser(u)
        /\ Move(r, [Idle EXCEPT !.pc = IF check THEN "roleCheck" ELSE "userSave", !.at = i,
                        !.user = u, !.urow = copy, !.name = copy.role, !.named = named])
        /\ memo' = IF check THEN Called(i) ELSE memo
        /\ UNCHANGED <<tables, fails>>

RoleCheck(r) ==
    /\ At(r, "roleCheck") /\ Ready(slot[r].at)
    /\ IF \E d \in Named(slot[r].name) : roles[d].admin => slot[r].named
       THEN Move(r, [slot[r] EXCEPT !.pc = "userSave"])
       ELSE Finish(r)
    /\ UNCHANGED <<tables, memo, fails>>

\* The columns of a copy that differ from the row's.
Differ(copy, row) == {c \in {"role", "username"} : copy[c] # row[c]}

\* Mutant: a column that was NULL is taken for unchanged.
BugUserSelect(r) ==
    /\ At(r, "userSave")
    /\ LET row  == users[slot[r].user]
           cols == {c \in Differ(slot[r].urow, row) : row[c] # None}
       IN  Move(r, IF IsUser(slot[r].user)
                   THEN [slot[r] EXCEPT !.pc = "userWrite", !.cols = cols]
                   ELSE [slot[r] EXCEPT !.pc = "userInsert"])
    /\ UNCHANGED <<tables, memo, fails>>

\* save(user) selects the row again to see what differs: an INSERT if it is gone.
UserSelect(r) ==
    /\ At(r, "userSave")
    /\ LET row == users[slot[r].user]
       IN  Move(r, IF IsUser(slot[r].user)
                   THEN [slot[r] EXCEPT !.pc = "userWrite", !.cols = Differ(slot[r].urow, row)]
                   ELSE [slot[r] EXCEPT !.pc = "userInsert"])
    /\ UNCHANGED <<tables, memo, fails>>

\* The UPDATE of these columns, and of one that is left out here; of no row if it is
\* gone by now.
UserWrite(r) ==
    LET u == slot[r].user
    IN  /\ At(r, "userWrite") /\ Unlocked(u)
        /\ users' = IF ~IsUser(u) THEN users
                    ELSE [users EXCEPT
                            ![u].role = IF "role" \in slot[r].cols THEN slot[r].urow.role ELSE @,
                            ![u].username = IF "username" \in slot[r].cols
                                            THEN slot[r].urow.username ELSE @]
        /\ Finish(r)
        /\ UNCHANGED <<roles, nextRole, memo, fails>>

RemoveUser(r, i, u) ==
    /\ New(r, "removeUser") /\ IsUser(u)
    /\ Move(r, [Idle EXCEPT !.pc = "userDelete", !.at = i, !.user = u])
    /\ UNCHANGED <<tables, memo, fails>>

UserDelete(r) ==
    /\ At(r, "userDelete") /\ Unlocked(slot[r].user)
    /\ users' = [users EXCEPT ![slot[r].user] = [NoUser EXCEPT !.is = "deleted"]]
    /\ Finish(r)
    /\ UNCHANGED <<roles, nextRole, memo, fails>>

-----------------------------------------------------------------------------
(* AccessControlService. *)

CreateRole(r, i, row) ==
    /\ New(r, "createRole") /\ Ready(i)
    /\ nextRole + Len(SeedList) <= MaxRoles
    /\ Named(row.name) = {}
    /\ Move(r, [Idle EXCEPT !.pc = "roleInsert", !.at = i, !.rrow = row])
    /\ UNCHANGED <<tables, memo, fails>>

RoleInsert(r) ==
    /\ At(r, "roleInsert") /\ nextRole <= MaxRoles
    /\ IF Allowed(nextRole, slot[r].rrow)
       THEN PutRole(nextRole, slot[r].rrow)
       ELSE UNCHANGED <<roles, nextRole>>
    /\ Finish(r)
    /\ UNCHANGED <<users, memo, fails>>

\* updateRole: its transaction reads the role and changes its copy.
UpdateRole(r, i, d, dto) ==
    LET row  == roles[d]
        copy == [row EXCEPT !.name = OrElse(dto.name, row.name),
                            !.admin = OrElse(dto.admin, row.admin),
                            !.perms = IF dto.perms = {} THEN row.perms
                                       ELSE UNION dto.perms]
    IN  /\ New(r, "updateRole") /\ Ready(i) /\ IsRole(d)
        /\ Move(r, [Idle EXCEPT !.pc = IF copy.name = row.name THEN "roleSave" ELSE "cascade",
                        !.at = i, !.role = d, !.rrow = copy, !.name = row.name])
        /\ UNCHANGED <<tables, memo, fails>>

\* The name must be free; the UPDATE of the users of the old name waits for rows
\* another transaction has locked and locks them until COMMIT.
RoleCascade(r) ==
    /\ At(r, "cascade")
    /\ \A u \in Holders(slot[r].name) : Unlocked(u)
    /\ IF Named(slot[r].rrow.name) = {}
       THEN Move(r, [slot[r] EXCEPT !.pc = "roleSave", !.locked = Holders(slot[r].name)])
       ELSE Finish(r)
    /\ UNCHANGED <<tables, memo, fails>>

\* Mutant: the users keep the old name.
BugRoleSave(r) ==
    /\ At(r, "roleSave")
    /\ IF Allowed(slot[r].role, slot[r].rrow)
       THEN PutRole(slot[r].role, slot[r].rrow)
       ELSE UNCHANGED <<roles, nextRole>>
    /\ Finish(r)
    /\ UNCHANGED <<users, memo, fails>>

\* The save of the role, and for updateRole the COMMIT.
RoleSave(r) ==
    /\ At(r, "roleSave")
    /\ IF Allowed(slot[r].role, slot[r].rrow)
       THEN /\ PutRole(slot[r].role, slot[r].rrow)
            /\ users' = [u \in Users |-> IF u \in slot[r].locked
                                         THEN [users[u] EXCEPT !.role = slot[r].rrow.name]
                                         ELSE users[u]]
       ELSE UNCHANGED tables
    /\ Finish(r)
    /\ UNCHANGED <<memo, fails>>

ReplacePermissions(r, i, d, perms) ==
    /\ New(r, "replacePermissions") /\ Ready(i) /\ IsRole(d)
    /\ Move(r, [Idle EXCEPT !.pc = "roleSave", !.at = i, !.role = d,
                    !.rrow = [roles[d] EXCEPT !.perms = perms]])
    /\ UNCHANGED <<tables, memo, fails>>

\* removeRole: read the role, count its users, delete it.
RemoveRole(r, i, d) ==
    /\ New(r, "removeRole") /\ Ready(i) /\ IsRole(d)
    /\ ~roles[d].system
    /\ Move(r, [Idle EXCEPT !.pc = "roleCount", !.at = i, !.role = d, !.name = roles[d].name])
    /\ UNCHANGED <<tables, memo, fails>>

RoleCount(r) ==
    /\ At(r, "roleCount")
    /\ IF Holders(slot[r].name) = {}
       THEN Move(r, [slot[r] EXCEPT !.pc = "roleDelete"])
       ELSE Finish(r)
    /\ UNCHANGED <<tables, memo, fails>>

RoleDelete(r) ==
    /\ At(r, "roleDelete")
    /\ roles' = [roles EXCEPT ![slot[r].role] = NoRow]
    /\ Finish(r)
    /\ UNCHANGED <<nextRole, users, memo, fails>>

-----------------------------------------------------------------------------
(* Failures. *)

\* An awaited call of a handler throws; a transaction is rolled back.
Fail(r) ==
    /\ ~Free(r) /\ fails < MaxFails
    /\ fails' = fails + 1
    /\ Finish(r)
    /\ UNCHANGED <<tables, memo>>

SyncFails(i) ==
    /\ memo[i].pc \in {"find", "save"} /\ fails < MaxFails
    /\ fails' = fails + 1
    /\ Rejected(i)
    /\ UNCHANGED tables

\* An instance dies with its requests and is started again.
Restart(i) ==
    /\ fails < MaxFails
    /\ fails' = fails + 1
    /\ memo' = [memo EXCEPT ![i] = NoMemo]
    /\ slot' = [r \in Requests |-> IF slot[r].at = i THEN Idle ELSE slot[r]]
    /\ UNCHANGED tables

-----------------------------------------------------------------------------

Continue(r) ==
    \/ UserInsert(r) \/ RoleCheck(r) \/ UserSelect(r) \/ UserWrite(r)
    \/ UserDelete(r) \/ RoleInsert(r) \/ RoleCascade(r) \/ RoleSave(r)
    \/ RoleCount(r) \/ RoleDelete(r)

\* The CreateRoleDtos sent; other permissions come by ReplacePermissions.
NewRoles == [name : Names, admin : BOOLEAN, system : {FALSE}, perms : {Catalog}]

Arrive(r, i) ==
    \/ \E u \in Users : Register(r, i, u)
    \/ \E u \in Users, d \in RoleIds, username \in Usernames \union {None} :
           CreateUser(r, i, u, d, username)
    \/ \E u \in Users, dto \in UserEdits : EditRead(r, i, u, dto)
    \/ \E u \in Users : RemoveUser(r, i, u)
    \/ \E row \in NewRoles : CreateRole(r, i, row)
    \/ \E d \in RoleIds, dto \in RoleEdits : UpdateRole(r, i, d, dto)
    \/ \E d \in RoleIds, perms \in load.perms : ReplacePermissions(r, i, d, perms)
    \/ \E d \in RoleIds : RemoveRole(r, i, d)

Sync(i) == SyncFind(i) \/ SyncSave(i)

\* Requests about one user: more than one at a time.
Meet(u) == \E q, r \in Requests : q # r /\ slot[q].user = u /\ slot[r].user = u

\* What every step does besides.
Record == UNCHANGED load /\ raced' = raced \union {u \in Users : Meet(u)'}

Next ==
    /\ \/ \E r \in load.requests : Continue(r) \/ Fail(r)
       \/ \E r \in load.requests, i \in load.instances : Arrive(r, i)
       \/ \E i \in load.instances :
              EnsureDefaults(i) \/ Sync(i) \/ SyncFails(i) \/ Restart(i)
    /\ Record

Spec == Init /\ [][Next]_vars

\* The event loop and the database go on, and an instance is sent requests
\* (every admin route calls ensureDefaults in its guard).
FairSpec == Spec /\ \A i \in Instances :
    /\ WF_vars(i \in load.instances /\ EnsureDefaults(i) /\ Record)
    /\ WF_vars(Sync(i) /\ Record)

-----------------------------------------------------------------------------
(* Properties. *)

\* The workload has one slot, and one server.
OneRequest == \A q, r \in load.requests : q = r
OneServer  == \A i, j \in load.instances : i = j

\* No role loses its name unseen. A rename by one instance can be undone by the
\* synchronisation of another that has read the role before, so renames want one server.
RolesKept ==
    \/ load.ops \intersect {"updateRole", "removeRole"} = {}
    \/ OneRequest /\ ("updateRole" \in load.ops => OneServer)

\* Every user's role exists, although it is only a name: where requests come one at a
\* time, a rename takes the users along and a role with users is not deleted, and where
\* roles are neither renamed nor removed this holds whatever overlaps. Only the role of
\* a user who registered is never looked for: it may be missing until an instance has
\* synchronised the defaults, or after it was renamed.
RoleOfUserExists ==
    RolesKept => \A u \in Users : IsUser(u) =>
        \/ Named(users[u].role) # {}
        \/ /\ users[u].role = Registered
           /\ "updateRole" \in load.ops \/ \A i \in Instances : memo[i].pc # "done"

\* As long as no role becomes an administrator's, whoever has an administrator's role
\* can log in, which goes by username, whatever overlaps and fails: but for users whom
\* two requests changed at once, as each checks the role and the username it has read
\* and writes only what differs.
AdminHasUsername ==
    RolesKept /\ "updateRole" \notin load.ops =>
        \A u \in Users \ raced, d \in RoleIds :
            IsUser(u) /\ roles[d].name = users[u].role /\ roles[d].admin
                => users[u].username # None

\* No admin changes a role on one instance while another synchronises the defaults.
SeedsUndisturbed ==
    OneServer \/ load.ops \intersect {"updateRole", "replacePermissions"} = {}

\* The role of seed n is as syncDefaults leaves it.
Restored(n, d) ==
    /\ roles[d].name = n /\ roles[d].system
    /\ roles[d].admin = SeedIsAdmin[n]
    /\ roles[d].perms \intersect Legacy = {}
    /\ n = AdminName => roles[d].perms = SeedPerms[n]

\* When an instance has synchronised the defaults, every seed is a system role
\* with the flag of its seed, free of old permissions, and Admin has them all,
\* whatever instances did the same at the same time or died doing it.
SeedsRestored ==
    [][\A i \in Instances : SeedsUndisturbed /\ memo[i].pc = "save" /\ memo'[i].pc = "done" =>
          \A n \in Seeds : \E d \in RoleIds : Restored(n, d)']_vars

\* A synchronisation that another instance beat, or that failed, is started
\* again by a later request and succeeds.
DefaultsSettle ==
    \A i \in Instances : i \in load.instances /\ memo[i].pc = "no" ~> memo[i].pc = "done"

=============================================================================
