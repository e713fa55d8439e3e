------------------------ MODULE AccessControl_proofs ------------------------
(***************************************************************************)
(* Theorems about AccessControl, for any roles, seeds, users, instances    *)
(* and workloads: types, what syncDefaults leaves behind, that the role of *)
(* a user exists, and that an administrator has a username.                *)
(***************************************************************************)
EXTENDS AccessControl, TLAPS

-----------------------------------------------------------------------------
(* The inductive invariants.                                                *)

\* The places a handler only reaches on an instance that has synchronised.
OnReady == {"roleInsert", "cascade", "roleSave", "roleCount", "roleDelete"}

\* Nothing happens outside the workload, and the handlers that wait for ensureDefaults
\* first are on an instance that is done with it: a restart takes them along.
AtHome(l, r) ==
    /\ IF l.pc = "idle" THEN l = Idle ELSE r \in load.requests /\ l.at \in load.instances
    /\ l.pc \in OnReady => memo[l.at].pc = "done"

\* What a handler has filled in, and which handlers a workload has.
Filled(l) ==
    /\ l.role \in RoleIds \union {NoRole} /\ l.role < nextRole
    /\ l.pc \in {"userInsert", "roleCheck", "userSave", "userWrite"} =>
          l.urow.is = "stored" /\ l.urow.role \in Names
    /\ l.pc = "roleCheck" => l.urow.role = l.name
    /\ l.pc \in {"cascade", "roleSave", "roleCount", "roleDelete"} => l.role \in RoleIds
    /\ l.pc \in {"roleInsert", "cascade", "roleSave"} => l.rrow \in RoleRows
    /\ l.pc \in {"cascade", "roleCount", "roleDelete"} => l.name \in Names
    /\ l.pc = "cascade" \/ l.locked # {} => "updateRole" \in load.ops
    /\ l.pc = "roleSave" => load.ops \intersect {"updateRole", "replacePermissions"} # {}
    /\ l.pc \in {"roleCount", "roleDelete"} => "removeRole" \in load.ops

SlotInv == \A r \in Requests : AtHome(slot[r], r) /\ Filled(slot[r])

\* A row is as syncDefaults writes it for seed n.
Good(row, n) ==
    /\ row \in RoleRows /\ row.name = n /\ row.system
    /\ row.admin = SeedIsAdmin[n]
    /\ row.perms \intersect Legacy = {}
    /\ n = AdminName => row.perms = SeedPerms[n]

MemoInv == \A i \in Instances :
    /\ IF memo[i].pc = "no" THEN memo[i].k = 1 ELSE i \in load.instances
    /\ memo[i].found < nextRole
    /\ memo[i].pc = "save" => Good(memo[i].copy, SeedList[memo[i].k])

\* Ids are given out in order, and names of roles are unique.
TableInv ==
    /\ \A d \in RoleIds : d >= nextRole => roles[d] = NoRow
    /\ \A d, e \in RoleIds : IsRole(d) /\ roles[e].name = roles[d].name => e = d

UsersInv == \A u \in Users : IsUser(u) => users[u].role \in Names

Base == SlotInv /\ MemoInv /\ TableInv /\ UsersInv

\* The names of the role with id d: the one in the table, and the ones that a
\* synchronisation or a handler goes by that has read it.
MemoSays(m, d, n) == m.pc = "save" /\ m.found = d /\ m.copy.name = n

SlotSays(l, d, n) ==
    /\ l.role = d
    /\ \/ l.pc = "roleSave" /\ l.rrow.name = n
       \/ l.pc \in {"roleCount", "roleDelete"} /\ l.name = n

Says(d, n) ==
    \/ roles[d].name = n
    \/ \E i \in Instances : MemoSays(memo[i], d, n)
    \/ \E r \in Requests : SlotSays(slot[r], d, n)

\* Without renames they agree.
ClaimInv ==
    "updateRole" \notin load.ops =>
        \A d \in RoleIds, m, n \in Names : Says(d, m) /\ Says(d, n) => m = n

\* With one server there are no renames while it synchronises.
FoundInv ==
    OneServer => \A i \in Instances, d \in RoleIds, n \in Names :
        MemoSays(memo[i], d, n) => roles[d].name = n

\* The seeds before the one a synchronisation is at.
Behind(i) == IF memo[i].pc = "done" THEN Seeds ELSE {SeedList[j] : j \in 1 .. memo[i].k - 1}

\* Without renames the roles of the seeds keep their flags and are not removed.
IsSeedRow(row) == row.name \in Seeds => row.system /\ row.admin = SeedIsAdmin[row.name]

FlagInv ==
    "updateRole" \notin load.ops =>
    /\ \A d \in RoleIds : IsSeedRow(roles[d])
    /\ \A r \in Requests :
         /\ slot[r].pc = "roleSave" => IsSeedRow(slot[r].rrow)
         /\ slot[r].pc = "roleInsert" => slot[r].rrow.name \notin Seeds
         /\ slot[r].pc \in {"roleCount", "roleDelete"} => slot[r].name \notin Seeds
    /\ \A i \in Instances : \A n \in Behind(i) : Named(n) # {}

SyncInv ==
    SeedsUndisturbed => \A i \in Instances : memo[i].pc # "done" =>
        \A n \in Behind(i) : \E d \in RoleIds : Restored(n, d)

\* Registration does not look whether its role exists.
Known(n) == Named(n) # {} \/ n = Registered

\* Roles as users and handlers rely on them.
Relies(l) ==
    /\ l.pc \in {"userInsert", "userSave", "userWrite"} => Known(l.urow.role)
    /\ l.pc \in {"cascade", "roleCount", "roleDelete"} => roles[l.role].name = l.name
    /\ l.pc = "roleSave" =>
         \/ roles[l.role].name = l.rrow.name
         \/ /\ "updateRole" \in load.ops /\ l.name \in Names
            /\ roles[l.role].name = l.name /\ l.locked = Holders(l.name)
    /\ l.pc = "roleDelete" => Holders(l.name) = {}

RoleInv ==
    RolesKept => /\ \A u \in Users : IsUser(u) => Known(users[u].role)
                 /\ \A r \in Requests : Relies(slot[r])

\* A username where the role asks for one.
Fits(row) ==
    \A d \in RoleIds : roles[d].name = row.role /\ roles[d].admin => row.username # None

\* No request sends a role together with a username of null.
NoNullBesideRole == \A dto \in UserEdits : dto.role # None => dto.username # None

\* The columns that an UPDATE leaves out are as in the copy.
Agrees(l) == \A u \in Users : l.user = u /\ IsUser(u) =>
    /\ "role" \in l.cols \/ l.urow.role = users[u].role
    /\ "username" \in l.cols \/ l.urow.username = users[u].username

\* What the handler of a request is about to write, if no other is about its user.
Suits(l) ==
    /\ l.user \notin raced =>
         /\ l.pc \in {"userInsert", "userSave", "userWrite"} => Fits(l.urow)
         /\ l.pc = "userWrite" => Agrees(l)
         /\ l.pc = "roleCheck" /\ l.named => l.urow.username # None
    /\ l.pc = "roleSave" => l.rrow.admin = roles[l.role].admin

RacedInv == \A u \in Users : Meet(u) => u \in raced

FitInv ==
    RolesKept /\ "updateRole" \notin load.ops =>
        /\ \A u \in Users \ raced : IsUser(u) => Fits(users[u])
        /\ \A r \in Requests : Suits(slot[r])

-----------------------------------------------------------------------------
(* Types.                                                                   *)

\* What the assumptions say of the constants.
LEMMA Constants ==
    /\ MaxRoles \in Nat /\ MaxFails \in Nat
    /\ None \notin Names /\ None \notin BOOLEAN /\ None \notin Users
    /\ Catalog \intersect Legacy = {}
    /\ \A w \in Workloads : /\ w.ops \subseteq AllOps /\ w.requests \subseteq Requests
                            /\ w.instances \subseteq Instances /\ w.perms \subseteq SUBSET Perms
BY AccessAssumption

LEMMA SeedTyped ==
    /\ Len(SeedList) \in Nat \ {0}
    /\ \A k \in 1 .. Len(SeedList) : SeedList[k] \in Names /\ SeedList[k] \in Seeds
    /\ \A n \in Seeds : /\ n \in Names /\ SeedIsAdmin[n] \in BOOLEAN /\ SeedPerms[n] \subseteq Catalog
                        /\ \E k \in 1 .. Len(SeedList) : n = SeedList[k]
    /\ AdminName \in Seeds => SeedPerms[AdminName] = Catalog
    /\ Registered \in Seeds /\ ~SeedIsAdmin[Registered]
<1>1. Len(SeedList) \in Nat /\ Len(SeedList) > 0 /\ \A k \in 1 .. Len(SeedList) : SeedList[k] \in Names
  BY AccessAssumption
<1>2. SeedIsAdmin \in [Seeds -> BOOLEAN] /\ SeedPerms \in [Seeds -> SUBSET Catalog]
      /\ (AdminName \in Seeds => SeedPerms[AdminName] = Catalog)
      /\ Registered \in Seeds /\ ~SeedIsAdmin[Registered]
  BY AccessAssumption
<1>3. QED
  BY <1>1, <1>2 DEF Seeds

LEMMA IdleTyped == Idle \in Locals /\ NoUser \in UserRows
BY DEF Idle, Locals, NoUser, UserRows

LEMMA NoMemoTyped == NoMemo \in Memos
BY SeedTyped DEF NoMemo, Memos

LEMMA MoveTyped ==
    ASSUME TypeOK, NEW r \in Requests, NEW l \in Locals, Move(r, l)
    PROVE  slot' \in [Requests -> Locals]
BY DEF TypeOK, Move

LEMMA FinishTyped ==
    ASSUME TypeOK, NEW r \in Requests, Finish(r)
    PROVE  slot' \in [Requests -> Locals]
BY IdleTyped, MoveTyped DEF Finish

LEMMA CalledTyped ==
    ASSUME TypeOK, NEW i \in Instances
    PROVE  Called(i) \in [Instances -> Memos]
BY DEF TypeOK, Called, Memos

LEMMA RejectedTyped ==
    ASSUME TypeOK, NEW i \in Instances, Rejected(i)
    PROVE  memo' \in [Instances -> Memos] /\ slot' \in [Requests -> Locals]
BY IdleTyped, NoMemoTyped DEF TypeOK, Rejected

LEMMA PutTyped ==
    ASSUME TypeOK, NEW d \in RoleIds \union {NoRole}, NEW row \in RoleRows \union {NoRow}, PutRole(d, row)
    PROVE  roles' \in [RoleIds -> RoleRows \union {NoRow}] /\ nextRole' \in 1 .. MaxRoles + 1
<1>1. roles' \in [RoleIds -> RoleRows \union {NoRow}]
  BY DEF TypeOK, PutRole
<1>2. nextRole \in 1 .. MaxRoles + 1 /\ MaxRoles \in Nat
  BY Constants DEF TypeOK
<1>3. nextRole' \in 1 .. MaxRoles + 1
  BY <1>2 DEF PutRole, RoleIds, NoRole
<1>4. QED
  BY <1>1, <1>3

LEMMA SeededTyped ==
    ASSUME TypeOK, NEW n \in Seeds, NEW d \in RoleIds \union {NoRole}, d # NoRole => roles[d].name = n
    PROVE  Good(Seeded(n, d), n)
<1>1. n \in Names /\ SeedIsAdmin[n] \in BOOLEAN /\ SeedPerms[n] \subseteq Catalog
  BY SeedTyped
<1>2. CASE d = NoRole \/ Reset(n, roles[d].perms)
  BY <1>1, <1>2, Constants DEF Seeded, Good, RoleRows, Perms
<1>3. CASE d # NoRole /\ ~Reset(n, roles[d].perms)
  <2>1. roles[d] \in RoleRows
    BY <1>1, <1>3, Constants DEF TypeOK, NoRow
  <2>2. QED
    BY <1>1, <1>3, <2>1 DEF Seeded, Good, RoleRows, Reset
<1>4. QED
  BY <1>2, <1>3

\* What a synchronisation finds is a role of the name, if there is one.
LEMMA FindOne ==
    ASSUME NEW n
    PROVE  LET d == IF Named(n) = {} THEN NoRole ELSE CHOOSE x \in Named(n) : TRUE
           IN  d = NoRole \/ d \in Named(n)
OBVIOUS

LEMMA SyncFindTyped ==
    ASSUME TypeOK, NEW i \in Instances, SyncFind(i)
    PROVE  \E d \in RoleIds \union {NoRole} :
             LET n == SeedList[memo[i].k] IN
             /\ n \in Seeds
             /\ IF d = NoRole THEN Named(n) = {} ELSE roles[d].name = n
             /\ Good(Seeded(n, d), n)
             /\ memo' = [memo EXCEPT ![i] = [memo[i] EXCEPT !.pc = "save", !.found = d, !.copy = Seeded(n, d)]]
             /\ memo' \in [Instances -> Memos]
<1> DEFINE n == SeedList[memo[i].k]
           d == IF Named(n) = {} THEN NoRole ELSE CHOOSE x \in Named(n) : TRUE
<1>1. n \in Seeds /\ memo[i] \in Memos
  BY SeedTyped DEF TypeOK, Memos
<1>2. d \in RoleIds \union {NoRole} /\ (IF d = NoRole THEN Named(n) = {} ELSE roles[d].name = n)
  BY DEF Named, RoleIds, NoRole
<1>3. memo' = [memo EXCEPT ![i] = [memo[i] EXCEPT !.pc = "save", !.found = d, !.copy = Seeded(n, d)]]
  BY DEF SyncFind, TypeOK
<1> HIDE DEF n, d
<1>4. Good(Seeded(n, d), n)
  BY <1>1, <1>2, SeededTyped
<1>5. [memo[i] EXCEPT !.pc = "save", !.found = d, !.copy = Seeded(n, d)] \in Memos
  BY <1>1, <1>2, <1>4 DEF Memos, Good
<1>6. memo' \in [Instances -> Memos]
  BY <1>3, <1>5 DEF TypeOK
<1>7. QED
  BY <1>1, <1>2, <1>3, <1>4, <1>6 DEF n

LEMMA AdvanceTyped ==
    ASSUME TypeOK, NEW i \in Instances, Advance(i)
    PROVE  memo' \in [Instances -> Memos]
<1>1. memo[i] \in Memos /\ memo[i].k \in 1 .. Len(SeedList)
  BY DEF TypeOK, Memos
<1>2. [NoMemo EXCEPT !.pc = "done"] \in Memos
  BY NoMemoTyped DEF Memos
<1>3. memo[i].k # Len(SeedList) => [NoMemo EXCEPT !.pc = "find", !.k = memo[i].k + 1] \in Memos
  <2>1. memo[i].k # Len(SeedList) => memo[i].k + 1 \in 1 .. Len(SeedList)
    BY <1>1, SeedTyped
  <2>2. QED
    BY <2>1, NoMemoTyped DEF Memos
<1>4. QED
  BY <1>1, <1>2, <1>3 DEF TypeOK, Advance

LEMMA SyncSaveTyped ==
    ASSUME TypeOK, UNCHANGED load, raced' \subseteq Users, NEW i \in Instances, SyncSave(i)
    PROVE  TypeOK'
<1> DEFINE d == IF memo[i].found = NoRole THEN nextRole ELSE memo[i].found
           row == memo[i].copy
<1>1. memo[i].found \in RoleIds \union {NoRole} /\ row \in RoleRows \union {NoRow}
  BY DEF TypeOK, Memos
<1>2. d \in RoleIds
  BY <1>1, Constants DEF SyncSave, TypeOK, RoleIds, NoRole
<1>3. \/ PutRole(d, row) /\ Advance(i) /\ UNCHANGED slot
      \/ Rejected(i) /\ UNCHANGED <<roles, nextRole>>
  BY DEF SyncSave
<1>4. UNCHANGED <<users, fails>>
  BY DEF SyncSave
<1> HIDE DEF d, row
<1>5. roles' \in [RoleIds -> RoleRows \union {NoRow}] /\ nextRole' \in 1 .. MaxRoles + 1
  BY <1>1, <1>2, <1>3, PutTyped DEF TypeOK
<1>6. memo' \in [Instances -> Memos] /\ slot' \in [Requests -> Locals]
  BY <1>3, AdvanceTyped, RejectedTyped DEF TypeOK
<1>7. QED
  BY <1>4, <1>5, <1>6 DEF TypeOK

\* What the first step of a handler puts into its slot.
LEMMA NewUserTyped ==
    ASSUME NEW n \in Names, NEW username \in Usernames \union {None}, NEW i \in Instances, NEW u \in Users
    PROVE  [Idle EXCEPT !.pc = "userInsert", !.at = i, !.user = u, !.urow = NewUser(n, username)] \in Locals
BY IdleTyped DEF Locals, UserRows, NewUser

LEMMA CreateUserTyped ==
    ASSUME TypeOK, NEW r \in Requests, NEW i \in Instances, NEW u \in Users, NEW d \in RoleIds,
           NEW username \in Usernames \union {None}, CreateUser(r, i, u, d, username)
    PROVE  slot' \in [Requests -> Locals]
<1>1. roles[d].name \in Names
  BY DEF TypeOK, CreateUser, IsRole, RoleRows, NoRow
<1> DEFINE l == [Idle EXCEPT !.pc = "userInsert", !.at = i, !.user = u,
                    !.urow = NewUser(roles[d].name, username)]
<1>2. l \in Locals
  BY <1>1, NewUserTyped
<1>3. Move(r, l)
  BY DEF CreateUser
<1> HIDE DEF l
<1>4. QED
  BY <1>2, <1>3, MoveTyped

LEMMA RegisterTyped ==
    ASSUME TypeOK, NEW r \in Requests, NEW i \in Instances, NEW u \in Users, Register(r, i, u)
    PROVE  slot' \in [Requests -> Locals]
<1> DEFINE l == [Idle EXCEPT !.pc = "userInsert", !.at = i, !.user = u,
                    !.urow = NewUser(Registered, None)]
<1>1. Registered \in Names
  BY SeedTyped
<1>2. l \in Locals
  BY <1>1, NewUserTyped
<1>3. Move(r, l)
  BY DEF Register
<1> HIDE DEF l
<1>4. QED
  BY <1>2, <1>3, MoveTyped

Edited(l, i, u, dto) ==
    LET row == users[u] IN
    /\ l.pc = (IF dto.role # None \/ dto.username # "unsent" THEN "roleCheck" ELSE "userSave")
    /\ l.at = i /\ l.user = u /\ l.role = NoRole /\ l.locked = {}
    /\ l.name = l.urow.role
    /\ l.urow = [row EXCEPT !.role = OrElse(dto.role, row.role),
                    !.username = IF dto.username = "unsent" THEN row.username
                                 ELSE dto.username]
    /\ l.named = (dto.username \in Usernames \/ (dto.role # None /\ row.username # None))

LEMMA EditReadTyped ==
    ASSUME TypeOK, NEW r \in Requests, NEW i \in Instances, NEW u \in Users, NEW dto \in UserEdits,
           EditRead(r, i, u, dto)
    PROVE  \E l \in Locals : /\ Move(r, l) /\ Edited(l, i, u, dto)
                             /\ memo' = (IF l.pc = "roleCheck" THEN Called(i) ELSE memo)
<1> DEFINE row   == users[u]
           copy  == [row EXCEPT !.role = OrElse(dto.role, row.role),
                        !.username = IF dto.username = "unsent" THEN row.username
                                     ELSE dto.username]
           check == dto.role # None \/ dto.username # "unsent"
           named == dto.username \in Usernames \/ (dto.role # None /\ row.username # None)
           l     == [Idle EXCEPT !.pc = IF check THEN "roleCheck" ELSE "userSave", !.at = i,
                         !.user = u, !.urow = copy, !.name = copy.role, !.named = named]
<1>1. row \in UserRows /\ dto.role \in Names \union {None} /\ dto.username \in Usernames \union {None, "unsent"}
  BY EditsAssumption DEF TypeOK
<1>2. copy \in UserRows /\ copy.role \in Names \union {None}
  BY <1>1 DEF UserRows, OrElse
<1>3. check \in BOOLEAN /\ named \in BOOLEAN
  BY <1>1 DEF UserRows
<1>4. Move(r, l) /\ memo' = (IF check THEN Called(i) ELSE memo)
  BY DEF EditRead
<1> HIDE DEF check, named, copy
<1>5. l \in Locals
  BY <1>2, <1>3, IdleTyped DEF Locals
<1>6. /\ l.pc = (IF check THEN "roleCheck" ELSE "userSave") /\ l.at = i /\ l.user = u
      /\ l.role = NoRole /\ l.locked = {} /\ l.name = l.urow.role /\ l.urow = copy /\ l.named = named
  BY DEF Idle
<1>7. memo' = (IF l.pc = "roleCheck" THEN Called(i) ELSE memo)
  BY <1>3, <1>4, <1>6
<1> HIDE DEF l
<1>8. QED
  BY <1>4, <1>5, <1>6, <1>7 DEF check, named, copy, Edited

LEMMA UpdateRoleTyped ==
    ASSUME TypeOK, NEW r \in Requests, NEW i \in Instances, NEW d \in RoleIds, NEW dto \in RoleEdits,
           UpdateRole(r, i, d, dto)
    PROVE  \E l \in Locals :
             /\ Move(r, l)
             /\ l.pc = (IF l.rrow.name = roles[d].name THEN "roleSave" ELSE "cascade")
             /\ l.at = i /\ l.role = d /\ l.rrow \in RoleRows
             /\ l.name = roles[d].name /\ l.name \in Names /\ l.locked = {}
<1> DEFINE row  == roles[d]
           copy == [row EXCEPT !.name = OrElse(dto.name, row.name),
                        !.admin = OrElse(dto.admin, row.admin),
                        !.perms = IF dto.perms = {} THEN row.perms ELSE UNION dto.perms]
           l    == [Idle EXCEPT !.pc = IF copy.name = row.name THEN "roleSave" ELSE "cascade",
                        !.at = i, !.role = d, !.rrow = copy, !.name = row.name]
<1>1. row \in RoleRows
  BY DEF TypeOK, UpdateRole, IsRole, NoRow
<1>2. /\ dto.name \in Names \union {None} /\ dto.admin \in BOOLEAN \union {None}
      /\ (dto.perms = {} \/ \E ps \in SUBSET Perms : dto.perms = {ps})
  <2>1. dto \in [name : Names \union {None}, admin : BOOLEAN \union {None},
                 perms : {{}} \union {{ps} : ps \in SUBSET Perms}]
    BY EditsAssumption
  <2>2. dto.perms \in {{}} \union {{ps} : ps \in SUBSET Perms}
    BY <2>1
  <2>3. QED
    BY <2>1, <2>2
<1>3. dto.perms # {} => UNION dto.perms \in SUBSET Perms
  BY <1>2
<1>4. copy \in RoleRows
  <2>1. OrElse(dto.name, row.name) \in Names /\ OrElse(dto.admin, row.admin) \in BOOLEAN
    BY <1>1, <1>2 DEF RoleRows, OrElse
  <2>2. (IF dto.perms = {} THEN row.perms ELSE UNION dto.perms) \in SUBSET Perms
    BY <1>1, <1>3 DEF RoleRows
  <2>3. QED
    BY <1>1, <2>1, <2>2 DEF RoleRows
<1>5. Move(r, l)
  BY DEF UpdateRole
<1> HIDE DEF copy
<1>6. row.name \in Names
  BY <1>1 DEF RoleRows
<1>7. l \in Locals
  BY <1>4, <1>6, IdleTyped DEF Locals
<1>8. /\ l.pc = (IF l.rrow.name = row.name THEN "roleSave" ELSE "cascade")
      /\ l.at = i /\ l.role = d /\ l.rrow = copy /\ l.name = row.name /\ l.locked = {}
  BY DEF Idle
<1> HIDE DEF l
<1>9. QED
  BY <1>4, <1>5, <1>6, <1>7, <1>8

LEMMA ReplaceTyped ==
    ASSUME TypeOK, NEW r \in Requests, NEW i \in Instances, NEW d \in RoleIds, NEW perms \in load.perms,
           ReplacePermissions(r, i, d, perms)
    PROVE  /\ [roles[d] EXCEPT !.perms = perms] \in RoleRows
           /\ [Idle EXCEPT !.pc = "roleSave", !.at = i, !.role = d,
                  !.rrow = [roles[d] EXCEPT !.perms = perms]] \in Locals
<1>1. roles[d] \in RoleRows /\ perms \in SUBSET Perms
  BY Constants DEF TypeOK, ReplacePermissions, IsRole, NoRow
<1>2. [roles[d] EXCEPT !.perms = perms] \in RoleRows
  BY <1>1 DEF RoleRows
<1>3. QED
  BY <1>2, IdleTyped DEF Locals

LEMMA RemoveRoleTyped ==
    ASSUME TypeOK, NEW r \in Requests, NEW i \in Instances, NEW d \in RoleIds, RemoveRole(r, i, d)
    PROVE  /\ roles[d].name \in Names
           /\ [Idle EXCEPT !.pc = "roleCount", !.at = i, !.role = d, !.name = roles[d].name] \in Locals
<1>1. roles[d].name \in Names
  BY DEF TypeOK, RemoveRole, IsRole, RoleRows, NoRow
<1>2. QED
  BY <1>1, IdleTyped DEF Locals

LEMMA ArriveTyped ==
    ASSUME TypeOK, UNCHANGED load, raced' \subseteq Users, NEW r \in Requests, NEW i \in Instances,
           Arrive(r, i)
    PROVE  TypeOK'
<1>0. ASSUME NEW u \in Users, Register(r, i, u) PROVE TypeOK'
  BY <1>0, RegisterTyped DEF Register, TypeOK, tables
<1>1. ASSUME NEW u \in Users, NEW d \in RoleIds, NEW username \in Usernames \union {None},
             CreateUser(r, i, u, d, username)
      PROVE  TypeOK'
  BY <1>1, CreateUserTyped DEF CreateUser, TypeOK, tables
<1>2. ASSUME NEW u \in Users, NEW dto \in UserEdits, EditRead(r, i, u, dto) PROVE TypeOK'
  <2>1. PICK l \in Locals : Move(r, l) /\ memo' = (IF l.pc = "roleCheck" THEN Called(i) ELSE memo)
    BY <1>2, EditReadTyped
  <2>2. slot' \in [Requests -> Locals] /\ memo' \in [Instances -> Memos]
    BY <2>1, MoveTyped, CalledTyped DEF TypeOK
  <2>3. QED
    BY <1>2, <2>2 DEF EditRead, TypeOK, tables
<1>3. ASSUME NEW u \in Users, RemoveUser(r, i, u) PROVE TypeOK'
  <2>1. [Idle EXCEPT !.pc = "userDelete", !.at = i, !.user = u] \in Locals
    BY IdleTyped DEF Locals
  <2>2. QED
    BY <1>3, <2>1, MoveTyped DEF RemoveUser, TypeOK, tables
<1>4. ASSUME NEW row \in NewRoles, CreateRole(r, i, row) PROVE TypeOK'
  <2>1. row \in RoleRows
    BY DEF NewRoles, RoleRows, Perms
  <2>2. [Idle EXCEPT !.pc = "roleInsert", !.at = i, !.rrow = row] \in Locals
    BY <2>1, IdleTyped DEF Locals
  <2>3. QED
    BY <1>4, <2>2, MoveTyped DEF CreateRole, TypeOK, tables
<1>5. ASSUME NEW d \in RoleIds, NEW dto \in RoleEdits, UpdateRole(r, i, d, dto) PROVE TypeOK'
  <2>1. slot' \in [Requests -> Locals]
    BY <1>5, UpdateRoleTyped, MoveTyped
  <2>2. QED
    BY <1>5, <2>1 DEF UpdateRole, TypeOK, tables
<1>6. ASSUME NEW d \in RoleIds, NEW perms \in load.perms, ReplacePermissions(r, i, d, perms) PROVE TypeOK'
  BY <1>6, ReplaceTyped, MoveTyped DEF ReplacePermissions, TypeOK, tables
<1>7. ASSUME NEW d \in RoleIds, RemoveRole(r, i, d) PROVE TypeOK'
  BY <1>7, RemoveRoleTyped, MoveTyped DEF RemoveRole, TypeOK, tables
<1>8. QED
  BY <1>0, <1>1, <1>2, <1>3, <1>4, <1>5, <1>6, <1>7 DEF Arrive

LEMMA ContinueTyped ==
    ASSUME TypeOK, UNCHANGED load, raced' \subseteq Users, NEW r \in Requests, Continue(r)
    PROVE  TypeOK'
<1>0. slot[r] \in Locals
  BY DEF TypeOK
<1>1. CASE UserInsert(r) \/ UserWrite(r)
  <2>1. slot[r].urow \in UserRows
    BY <1>0 DEF Locals
  <2>2. CASE UserInsert(r)
    <3>1. users' \in [Users -> UserRows]
      BY <2>1, <2>2 DEF UserInsert, TypeOK
    <3>2. QED
      BY <2>2, <3>1, FinishTyped DEF UserInsert, TypeOK
  <2>3. CASE UserWrite(r)
    <3>1. \A u \in Users : users'[u] \in UserRows
      BY <2>1, <2>3 DEF UserWrite, TypeOK, UserRows
    <3>2. users' \in [Users -> UserRows]
      BY <2>3, <3>1 DEF UserWrite, TypeOK
    <3>3. QED
      BY <2>3, <3>2, FinishTyped DEF UserWrite, TypeOK
  <2>4. QED
    BY <1>1, <2>2, <2>3
<1>10. CASE UserSelect(r)
  <2>1. PICK cols \in SUBSET {"role", "username"} :
            Move(r, [slot[r] EXCEPT !.pc = "userWrite", !.cols = cols])
            \/ Move(r, [slot[r] EXCEPT !.pc = "userInsert"])
    BY <1>10 DEF UserSelect, Differ
  <2>2. /\ [slot[r] EXCEPT !.pc = "userWrite", !.cols = cols] \in Locals
        /\ [slot[r] EXCEPT !.pc = "userInsert"] \in Locals
    BY <1>0 DEF Locals
  <2>3. slot' \in [Requests -> Locals]
    BY <2>1, <2>2, MoveTyped
  <2>4. QED
    BY <1>10, <2>3 DEF UserSelect, TypeOK, tables
<1>2. CASE UserDelete(r)
  <2>1. users' \in [Users -> UserRows]
    BY <1>2, IdleTyped DEF UserDelete, TypeOK, UserRows
  <2>2. QED
    BY <1>2, <2>1, FinishTyped DEF UserDelete, TypeOK
<1>3. CASE RoleCheck(r)
  <2>1. [slot[r] EXCEPT !.pc = "userSave"] \in Locals
    BY <1>0 DEF Locals
  <2>2. slot' \in [Requests -> Locals]
    BY <1>3, <2>1, MoveTyped, FinishTyped DEF RoleCheck
  <2>3. QED
    BY <1>3, <2>2 DEF RoleCheck, TypeOK, tables
<1>4. CASE RoleInsert(r)
  <2>1. slot[r].rrow \in RoleRows \union {NoRow}
    BY <1>0 DEF Locals
  <2>2. nextRole \in RoleIds
    BY <1>4, Constants DEF RoleInsert, TypeOK, RoleIds
  <2>3. PutRole(nextRole, slot[r].rrow) \/ UNCHANGED <<roles, nextRole>>
    BY <1>4 DEF RoleInsert
  <2>4. roles' \in [RoleIds -> RoleRows \union {NoRow}] /\ nextRole' \in 1 .. MaxRoles + 1
    BY <2>1, <2>2, <2>3, PutTyped DEF TypeOK
  <2>5. QED
    BY <1>4, <2>4, FinishTyped DEF RoleInsert, TypeOK
<1>5. CASE RoleCascade(r)
  <2>1. [slot[r] EXCEPT !.pc = "roleSave", !.locked = Holders(slot[r].name)] \in Locals
    BY <1>0 DEF Locals, Holders
  <2>2. slot' \in [Requests -> Locals]
    BY <1>5, <2>1, MoveTyped, FinishTyped DEF RoleCascade
  <2>3. QED
    BY <1>5, <2>2 DEF RoleCascade, TypeOK, tables
<1>6. CASE RoleSave(r)
  <2>1. slot[r].rrow \in RoleRows \union {NoRow} /\ slot[r].role \in RoleIds \union {NoRole}
    BY <1>0 DEF Locals
  <2>2. slot[r].rrow.name \in Names \union {None}
    BY <2>1 DEF RoleRows, NoRow
  <2>3. \/ PutRole(slot[r].role, slot[r].rrow) \/ UNCHANGED <<roles, nextRole>>
    BY <1>6 DEF RoleSave, tables
  <2>4. roles' \in [RoleIds -> RoleRows \union {NoRow}] /\ nextRole' \in 1 .. MaxRoles + 1
    BY <2>1, <2>3, PutTyped DEF TypeOK
  <2>5. users' \in [Users -> UserRows]
    BY <1>6, <2>2 DEF RoleSave, tables, TypeOK, UserRows
  <2>6. QED
    BY <1>6, <2>4, <2>5, FinishTyped DEF RoleSave, TypeOK
<1>7. CASE RoleCount(r)
  <2>1. [slot[r] EXCEPT !.pc = "roleDelete"] \in Locals
    BY <1>0 DEF Locals
  <2>2. slot' \in [Requests -> Locals]
    BY <1>7, <2>1, MoveTyped, FinishTyped DEF RoleCount
  <2>3. QED
    BY <1>7, <2>2 DEF RoleCount, TypeOK, tables
<1>8. CASE RoleDelete(r)
  <2>1. roles' \in [RoleIds -> RoleRows \union {NoRow}]
    BY <1>8 DEF RoleDelete, TypeOK
  <2>2. QED
    BY <1>8, <2>1, FinishTyped DEF RoleDelete, TypeOK
<1>9. QED
  BY <1>1, <1>2, <1>3, <1>4, <1>5, <1>6, <1>7, <1>8, <1>10 DEF Continue

LEMMA FailureTyped ==
    ASSUME TypeOK, UNCHANGED load, raced' \subseteq Users,
           \/ \E r \in Requests : Fail(r)
           \/ \E i \in Instances : SyncFails(i) \/ Restart(i)
    PROVE  TypeOK'
<1>1. ASSUME NEW r \in Requests, Fail(r) PROVE TypeOK'
  BY <1>1, FinishTyped, Constants DEF Fail, TypeOK, tables
<1>2. ASSUME NEW i \in Instances, SyncFails(i) PROVE TypeOK'
  BY <1>2, RejectedTyped, Constants DEF SyncFails, TypeOK, tables
<1>3. ASSUME NEW i \in Instances, Restart(i) PROVE TypeOK'
  BY <1>3, IdleTyped, NoMemoTyped, Constants DEF Restart, TypeOK, tables
<1>4. QED
  BY <1>1, <1>2, <1>3

LEMMA InitTyped == Init => TypeOK
BY Constants, IdleTyped, NoMemoTyped DEF Init, TypeOK

LEMMA StepTyped == TypeOK /\ [Next]_vars => TypeOK'
<1> SUFFICES ASSUME TypeOK, [Next]_vars PROVE TypeOK'
  OBVIOUS
<1>1. load.requests \subseteq Requests /\ load.instances \subseteq Instances
  BY Constants DEF TypeOK
<1>6. UNCHANGED vars \/ (UNCHANGED load /\ raced' \subseteq Users)
  BY DEF Next, Record, TypeOK
<1>2. ASSUME UNCHANGED load, raced' \subseteq Users, NEW i \in Instances, EnsureDefaults(i)
      PROVE  TypeOK'
  BY <1>2, CalledTyped DEF EnsureDefaults, TypeOK, tables
<1>3. ASSUME UNCHANGED load, raced' \subseteq Users, NEW i \in Instances, SyncFind(i)
      PROVE  TypeOK'
  BY <1>3, SyncFindTyped DEF SyncFind, TypeOK, tables
<1>4. CASE UNCHANGED vars
  BY <1>4 DEF vars, TypeOK
<1>5. QED
  BY <1>1, <1>2, <1>3, <1>4, <1>6, SyncSaveTyped, ArriveTyped, ContinueTyped, FailureTyped DEF Next, Sync

\* Rows of both tables, the memos of the instances and the locals of every handler are
\* well formed: a synchronisation that is rejected starts from nothing.
THEOREM TypeCorrect == Spec => []TypeOK
BY InitTyped, StepTyped, PTL DEF Spec

-----------------------------------------------------------------------------
(* What every step keeps, whatever the workload.                            *)

LEMMA BaseInit == Init => Base
BY Constants DEF Init, Base, SlotInv, MemoInv, TableInv, UsersInv, AtHome, Filled, Idle, NoMemo, NoUser,
   NoRow, NoRole, OnReady, IsRole, IsUser

\* A handler moves on or is done; another may have been woken, and the tables are as
\* good as before.
LEMMA BaseMove ==
    ASSUME TypeOK, Base, UNCHANGED load, NEW r \in Requests, NEW l, Move(r, l),
           memo' = memo \/ \E i \in load.instances \intersect Instances : memo' = Called(i),
           AtHome(l, r), Filled(l),
           nextRole' \in Nat, nextRole <= nextRole', TableInv', UsersInv'
    PROVE  Base'
<1>1. \A q \in Requests : slot'[q] = IF q = r THEN l ELSE slot[q]
  BY DEF Move, TypeOK
<1>2. \A i \in Instances :
         /\ memo'[i] = memo[i] \/ (i \in load.instances /\ memo[i].pc = "no" /\ memo'[i] = [memo[i] EXCEPT !.pc = "find"])
  BY DEF TypeOK, Called
<1>3. \A q \in Requests : AtHome(slot[q], q) /\ Filled(slot[q])
  BY DEF Base, SlotInv
<1>4. load.instances \subseteq Instances /\ "idle" \notin OnReady /\ load' = load
  BY Constants DEF TypeOK, OnReady
<1>5. \A q \in Requests : \A m : AtHome(m, q) => AtHome(m, q)'
  BY <1>2, <1>4 DEF AtHome
<1>6. \A m : Filled(m) => Filled(m)'
  BY <1>4 DEF Filled, TypeOK, RoleIds, NoRole
<1>7. SlotInv'
  BY <1>1, <1>3, <1>5, <1>6 DEF SlotInv
<1>8. MemoInv'
  <2> SUFFICES ASSUME NEW i \in Instances
               PROVE  /\ IF memo'[i].pc = "no" THEN memo'[i].k = 1 ELSE i \in load.instances
                      /\ memo'[i].found < nextRole'
                      /\ memo'[i].pc = "save" => Good(memo'[i].copy, SeedList[memo'[i].k])
    BY <1>4 DEF MemoInv
  <2>1. memo[i] \in Memos /\ memo[i].found < nextRole /\ nextRole \in Nat /\ memo[i].found \in Nat
    BY DEF Base, MemoInv, TypeOK, Memos, RoleIds, NoRole
  <2>2. CASE memo'[i] = memo[i]
    BY <2>1, <2>2 DEF Base, MemoInv
  <2>3. CASE i \in load.instances /\ memo[i].pc = "no" /\ memo'[i] = [memo[i] EXCEPT !.pc = "find"]
    BY <2>1, <2>3 DEF Memos
  <2>4. QED
    BY <1>2, <2>2, <2>3
<1>9. QED
  BY <1>7, <1>8 DEF Base

\* A handler that ends.
LEMMA BaseFinish ==
    ASSUME TypeOK, Base, UNCHANGED <<load, memo>>, NEW r \in Requests, Finish(r),
           nextRole' \in Nat, nextRole <= nextRole', TableInv', UsersInv'
    PROVE  Base'
<1>1. AtHome(Idle, r) /\ Filled(Idle)
  BY Constants DEF AtHome, Filled, Idle, OnReady, NoRole, TypeOK
<1>2. QED
  BY <1>1, BaseMove DEF Finish

\* A row that is written where the name is free, or is the row's own.
LEMMA TablePut ==
    ASSUME TypeOK, TableInv, NEW d \in RoleIds, d <= nextRole, NEW row \in RoleRows,
           Allowed(d, row), PutRole(d, row)
    PROVE  /\ TableInv'
           /\ nextRole' \in Nat /\ nextRole <= nextRole' /\ d < nextRole'
           /\ \A e \in RoleIds : roles'[e] = IF e = d THEN row ELSE roles[e]
<1>1. \A e \in RoleIds : roles'[e] = IF e = d THEN row ELSE roles[e]
  BY DEF PutRole, TypeOK
<1>2. nextRole' \in Nat /\ nextRole <= nextRole' /\ d < nextRole' /\ nextRole \in Nat
  BY Constants DEF PutRole, TypeOK, RoleIds
<1>3. \A e \in RoleIds : e >= nextRole' => roles'[e] = NoRow
  BY <1>1, <1>2 DEF TableInv, RoleIds
<1>4. \A e \in RoleIds : roles[e].name = row.name => e = d
  BY DEF Allowed, Named
<1>5. \A e, f \in RoleIds : IsRole(e)' /\ roles'[f].name = roles'[e].name => f = e
  BY <1>1, <1>4 DEF TableInv, IsRole
<1>6. QED
  BY <1>1, <1>2, <1>3, <1>5 DEF TableInv

LEMMA TableSame ==
    ASSUME TypeOK, Base, UNCHANGED <<roles, nextRole>>
    PROVE  TableInv' /\ nextRole' \in Nat /\ nextRole <= nextRole'
BY Constants DEF Base, TableInv, IsRole, TypeOK

LEMMA UsersSame == ASSUME Base, UNCHANGED users PROVE UsersInv'
BY DEF Base, UsersInv, IsUser

\* The synchronisation of one instance: its memo, and a row.
LEMMA BaseSync ==
    ASSUME TypeOK, Base, UNCHANGED <<load, slot, users>>, NEW i \in Instances, i \in load.instances,
           NEW m \in Memos, memo' = [memo EXCEPT ![i] = m],
           memo[i].pc # "done", m.pc # "no", m.found < nextRole, m.pc = "save" => Good(m.copy, SeedList[m.k]),
           TableInv', nextRole' \in Nat, nextRole <= nextRole'
    PROVE  Base'
<1>1. \A j \in Instances : memo'[j] = IF j = i THEN m ELSE memo[j]
  BY DEF TypeOK
<1>2. load.instances \subseteq Instances /\ "idle" \notin OnReady
  BY Constants DEF TypeOK, OnReady
<1>3. SlotInv'
  <2>1. \A q \in Requests : AtHome(slot[q], q)'
    BY <1>1, <1>2 DEF Base, SlotInv, AtHome
  <2>2. \A q \in Requests : Filled(slot[q])'
    BY DEF Base, SlotInv, Filled, TypeOK, RoleIds, NoRole
  <2>3. QED
    BY <2>1, <2>2 DEF SlotInv
<1>4. MemoInv'
  <2>1. \A j \in Instances : memo[j].found < nextRole /\ memo[j].found \in Nat
    BY DEF Base, MemoInv, TypeOK, Memos, RoleIds, NoRole
  <2>2. nextRole \in Nat /\ m.found \in Nat
    BY DEF TypeOK, Memos, RoleIds, NoRole
  <2>3. \A j \in Instances : memo'[j].found < nextRole'
    BY <1>1, <2>1, <2>2
  <2>4. QED
    BY <1>1, <2>3 DEF Base, MemoInv
<1>5. UsersInv'
  BY UsersSame
<1>6. QED
  BY <1>3, <1>4, <1>5 DEF Base

\* A synchronisation that is rejected, and the end of an instance: its memo is empty
\* and some of its handlers are gone, all that were on a synchronised instance.
LEMMA BaseReset ==
    ASSUME TypeOK, Base, UNCHANGED <<load, tables>>, NEW i \in Instances,
           memo' = [memo EXCEPT ![i] = NoMemo],
           slot' \in [Requests -> Locals],
           \A r \in Requests : slot'[r] = slot[r] \/ slot'[r] = Idle,
           \A r \in Requests : slot'[r].pc \in OnReady => slot'[r].at # i
    PROVE  Base'
<1>1. \A j \in Instances : memo'[j] = IF j = i THEN NoMemo ELSE memo[j]
  BY DEF TypeOK
<1>2. load.instances \subseteq Instances /\ "idle" \notin OnReady
  BY Constants DEF TypeOK, OnReady
<1>3. \A q \in Requests : AtHome(slot[q], q)' /\ Filled(slot[q])'
  <2> SUFFICES ASSUME NEW q \in Requests PROVE AtHome(slot[q], q)' /\ Filled(slot[q])'
    OBVIOUS
  <2>1. CASE slot'[q] = Idle
    BY <2>1, <1>2, Constants DEF AtHome, Filled, Idle, NoRole, TypeOK, tables
  <2>2. CASE slot'[q] = slot[q] /\ slot[q] # Idle
    <3>1. AtHome(slot[q], q) /\ Filled(slot[q])
      BY DEF Base, SlotInv
    <3>2. Filled(slot[q])'
      BY <2>2, <3>1 DEF Filled, tables
    <3>3. slot'[q].pc # "idle" /\ q \in load.requests /\ slot'[q].at \in load.instances
      BY <2>2, <3>1 DEF AtHome
    <3>4. slot'[q].pc \in OnReady => memo'[slot'[q].at].pc = "done"
      BY <1>1, <1>2, <2>2, <3>1, <3>3 DEF AtHome
    <3>5. QED
      BY <3>2, <3>3, <3>4 DEF AtHome
  <2>3. QED
    BY <2>1, <2>2
<1>4. SlotInv'
  BY <1>3 DEF SlotInv
<1>5. MemoInv'
  BY <1>1, Constants DEF Base, MemoInv, NoMemo, NoRole, TypeOK, tables
<1>6. TableInv' /\ UsersInv'
  BY TableSame, UsersSame DEF tables
<1>7. QED
  BY <1>4, <1>5, <1>6 DEF Base

LEMMA RejectedBase ==
    ASSUME TypeOK, Base, UNCHANGED <<load, tables>>, NEW i \in Instances,
           memo[i].pc \in {"find", "save"}, Rejected(i)
    PROVE  Base'
<1>1. memo' = [memo EXCEPT ![i] = NoMemo] /\ slot' \in [Requests -> Locals]
  BY RejectedTyped DEF Rejected
<1>2. \A r \in Requests : slot'[r] = slot[r] \/ slot'[r] = Idle
  BY DEF Rejected
<1>3. \A r \in Requests : slot[r].pc \in OnReady => slot[r].at # i
  BY DEF Base, SlotInv, AtHome
<1>4. Idle.pc \notin OnReady
  BY DEF Idle, OnReady
<1>5. QED
  BY <1>1, <1>2, <1>3, <1>4, BaseReset

LEMMA RestartBase ==
    ASSUME TypeOK, Base, UNCHANGED load, NEW i \in Instances, Restart(i)
    PROVE  Base'
<1>1. memo' = [memo EXCEPT ![i] = NoMemo] /\ UNCHANGED tables
      /\ slot' = [r \in Requests |-> IF slot[r].at = i THEN Idle ELSE slot[r]]
  BY DEF Restart
<1>2. slot' \in [Requests -> Locals]
  BY <1>1, IdleTyped DEF TypeOK
<1>3. \A r \in Requests : slot'[r].pc \in OnReady => slot'[r].at # i
  BY <1>1 DEF Idle, OnReady
<1>4. \A r \in Requests : slot'[r] = slot[r] \/ slot'[r] = Idle
  BY <1>1
<1>5. QED
  BY <1>1, <1>2, <1>3, <1>4, BaseReset

LEMMA SyncFindBase ==
    ASSUME TypeOK, Base, UNCHANGED load, NEW i \in load.instances, SyncFind(i)
    PROVE  Base'
<1>1. i \in Instances
  BY Constants DEF TypeOK
<1> DEFINE n == SeedList[memo[i].k]
<1>2. PICK d \in RoleIds \union {NoRole} :
        /\ IF d = NoRole THEN Named(n) = {} ELSE roles[d].name = n
        /\ n \in Seeds /\ Good(Seeded(n, d), n)
        /\ memo' = [memo EXCEPT ![i] = [memo[i] EXCEPT !.pc = "save", !.found = d, !.copy = Seeded(n, d)]]
        /\ memo' \in [Instances -> Memos]
  BY <1>1, SyncFindTyped
<1> DEFINE m == [memo[i] EXCEPT !.pc = "save", !.found = d, !.copy = Seeded(n, d)]
<1>3. m \in Memos /\ m = memo'[i]
  BY <1>1, <1>2 DEF TypeOK
<1>4. m.pc = "save" /\ m.found = d /\ m.copy = Seeded(n, d) /\ m.k = memo[i].k /\ memo[i].pc = "find"
  BY <1>1 DEF SyncFind, TypeOK, Memos
<1>5. d < nextRole
  <2>1. CASE d = NoRole
    BY <2>1, Constants DEF TypeOK, NoRole
  <2>2. CASE d # NoRole
    <3>1. roles[d] # NoRow
      BY <1>2, <2>2, SeedTyped, Constants DEF NoRow
    <3>2. d \in RoleIds /\ nextRole \in Nat
      BY <1>2, <2>2, Constants DEF TypeOK
    <3>3. QED
      BY <3>1, <3>2 DEF Base, TableInv, RoleIds
  <2>3. QED
    BY <2>1, <2>2
<1>6. Good(m.copy, SeedList[m.k])
  BY <1>2, <1>4
<1>7. memo' = [memo EXCEPT ![i] = m] /\ memo[i].pc # "done" /\ UNCHANGED <<roles, nextRole, users, slot>>
  BY <1>2, <1>4 DEF SyncFind, tables
<1> HIDE DEF m, n
<1>8. QED
  BY <1>1, <1>3, <1>4, <1>5, <1>6, <1>7, TableSame, BaseSync

\* What SyncSave does: a row is put in the place that is its own, and the memo goes on
\* to the next seed; or the name is taken and the synchronisation rejected.
LEMMA SyncSaveDoes ==
    ASSUME TypeOK, Base, NEW i \in Instances, SyncSave(i)
    PROVE  /\ memo[i].pc = "save" /\ Good(memo[i].copy, SeedList[memo[i].k]) /\ UNCHANGED <<users, fails>>
           /\ \/ \E d \in RoleIds :
                   /\ d = (IF memo[i].found = NoRole THEN nextRole ELSE memo[i].found)
                   /\ d <= nextRole
                   /\ Allowed(d, memo[i].copy) /\ PutRole(d, memo[i].copy)
                   /\ Advance(i) /\ UNCHANGED slot
              \/ Rejected(i) /\ UNCHANGED tables
<1> DEFINE d == IF memo[i].found = NoRole THEN nextRole ELSE memo[i].found
<1>1. memo[i].pc = "save" /\ d <= MaxRoles /\ UNCHANGED <<users, fails>>
  BY DEF SyncSave
<1>2. \/ Allowed(d, memo[i].copy) /\ PutRole(d, memo[i].copy) /\ Advance(i) /\ UNCHANGED slot
      \/ Rejected(i) /\ UNCHANGED <<roles, nextRole>>
  BY DEF SyncSave
<1>3. memo[i].found \in RoleIds \union {NoRole} /\ nextRole \in 1 .. MaxRoles + 1 /\ memo[i].found < nextRole
  BY DEF TypeOK, Memos, Base, MemoInv
<1>4. d \in RoleIds /\ d <= nextRole
  BY <1>1, <1>3, Constants DEF RoleIds, NoRole
<1>5. Good(memo[i].copy, SeedList[memo[i].k])
  BY <1>1 DEF Base, MemoInv
<1>6. QED
  BY <1>1, <1>2, <1>4, <1>5 DEF tables

LEMMA SyncSaveBase ==
    ASSUME TypeOK, Base, UNCHANGED load, NEW i \in load.instances, SyncSave(i)
    PROVE  Base'
<1>1. i \in Instances
  BY Constants DEF TypeOK
<1>2. memo[i].pc = "save" /\ Good(memo[i].copy, SeedList[memo[i].k]) /\ UNCHANGED <<users, fails>>
  BY <1>1, SyncSaveDoes
<1>3. CASE Rejected(i) /\ UNCHANGED tables
  BY <1>1, <1>2, <1>3, RejectedBase
<1>4. ASSUME NEW d \in RoleIds, d <= nextRole, Allowed(d, memo[i].copy), PutRole(d, memo[i].copy),
             Advance(i), UNCHANGED slot
      PROVE  Base'
  <2>1. TableInv' /\ nextRole' \in Nat /\ nextRole <= nextRole'
    BY <1>2, <1>4, TablePut DEF Good, Base
  <2> DEFINE m == IF memo[i].k = Len(SeedList) THEN [NoMemo EXCEPT !.pc = "done"]
                  ELSE [NoMemo EXCEPT !.pc = "find", !.k = memo[i].k + 1]
  <2>2. memo' = [memo EXCEPT ![i] = m]
    BY <1>4 DEF Advance
  <2>3. m \in Memos
    <3>1. m = memo'[i]
      BY <1>1, <2>2 DEF TypeOK
    <3>2. QED
      BY <1>1, <1>4, <3>1, AdvanceTyped
  <2>4. m.found = NoRole /\ m.pc \notin {"save", "no"}
    BY DEF NoMemo
  <2>5. NoRole < nextRole
    BY Constants DEF TypeOK, NoRole
  <2> HIDE DEF m
  <2>6. QED
    BY <1>1, <1>2, <1>4, <2>1, <2>2, <2>3, <2>4, <2>5, BaseSync
<1>5. QED
  BY <1>1, <1>3, <1>4, SyncSaveDoes

\* A request is accepted.
LEMMA ArriveBase ==
    ASSUME TypeOK, Base, UNCHANGED load, NEW r \in load.requests, NEW i \in load.instances, Arrive(r, i)
    PROVE  Base'
<1>0. r \in Requests /\ i \in Instances
  BY Constants DEF TypeOK
<1>1. ASSUME NEW l, Move(r, l), memo' = memo \/ memo' = Called(i), UNCHANGED tables,
             l.pc # "idle", l.at = i, l.pc \in OnReady => Ready(i), Filled(l)
      PROVE  Base'
  <2>1. AtHome(l, r)
    BY <1>1 DEF AtHome, Ready
  <2>2. TableInv' /\ UsersInv' /\ nextRole' \in Nat /\ nextRole <= nextRole'
    BY <1>1, TableSame, UsersSame DEF tables
  <2>3. memo' = memo \/ \E j \in load.instances \intersect Instances : memo' = Called(j)
    BY <1>0, <1>1
  <2>4. QED
    BY <1>0, <1>1, <2>1, <2>2, <2>3, BaseMove
<1>2. NoRole < nextRole /\ "idle" \notin OnReady
  BY Constants DEF TypeOK, NoRole, OnReady
<1>3. \A d \in RoleIds : IsRole(d) => d < nextRole /\ roles[d] \in RoleRows /\ roles[d].name \in Names
  BY Constants DEF TypeOK, Base, TableInv, IsRole, RoleIds, NoRow, RoleRows
<1>12. ASSUME NEW u \in Users, NEW n \in Names, NEW username, UNCHANGED <<tables, memo>>,
              Move(r, [Idle EXCEPT !.pc = "userInsert", !.at = i, !.user = u,
                           !.urow = NewUser(n, username)])
       PROVE  Base'
  <2> DEFINE l == [Idle EXCEPT !.pc = "userInsert", !.at = i, !.user = u,
                      !.urow = NewUser(n, username)]
  <2>1. l.pc = "userInsert" /\ l.at = i
    BY DEF Idle
  <2>2. Filled(l)
    BY <1>2 DEF Filled, Idle, NewUser
  <2>3. Move(r, l)
    BY <1>12
  <2> HIDE DEF l
  <2>4. QED
    BY <1>1, <1>12, <2>1, <2>2, <2>3 DEF OnReady
<1>13. ASSUME NEW u \in Users, Register(r, i, u) PROVE Base'
  BY <1>12, <1>13, SeedTyped DEF Register
<1>4. ASSUME NEW u \in Users, NEW d \in RoleIds, NEW username \in Usernames \union {None},
             CreateUser(r, i, u, d, username)
      PROVE  Base'
  BY <1>3, <1>4, <1>12 DEF CreateUser
<1>5. ASSUME NEW u \in Users, NEW dto \in UserEdits, EditRead(r, i, u, dto) PROVE Base'
  <2>1. PICK l \in Locals : /\ Move(r, l) /\ Edited(l, i, u, dto)
                            /\ memo' = (IF l.pc = "roleCheck" THEN Called(i) ELSE memo)
    BY <1>0, <1>5, EditReadTyped
  <2>2. IsUser(u) /\ UNCHANGED tables
    BY <1>5 DEF EditRead
  <2>3. users[u] \in UserRows /\ users[u].role \in Names /\ users[u].is = "stored"
    BY <2>2 DEF TypeOK, Base, UsersInv, IsUser
  <2>4. dto.role \in Names \union {None}
    BY EditsAssumption
  <2>5. l.urow.is = "stored" /\ l.urow.role \in Names
    BY <2>1, <2>3, <2>4 DEF Edited, OrElse, UserRows
  <2>6. l.pc \in {"roleCheck", "userSave"} /\ l.at = i
    BY <2>1 DEF Edited
  <2>7. Filled(l)
    BY <1>2, <2>1, <2>5, <2>6 DEF Filled, Edited
  <2>8. QED
    BY <1>1, <2>1, <2>2, <2>6, <2>7 DEF OnReady
<1>6. ASSUME NEW u \in Users, RemoveUser(r, i, u) PROVE Base'
  <2> DEFINE l == [Idle EXCEPT !.pc = "userDelete", !.at = i, !.user = u]
  <2>1. Move(r, l) /\ UNCHANGED <<tables, memo>>
    BY <1>6 DEF RemoveUser
  <2>2. l.pc = "userDelete" /\ l.at = i /\ Filled(l)
    BY <1>2 DEF Idle, Filled
  <2> HIDE DEF l
  <2>3. QED
    BY <1>1, <2>1, <2>2 DEF OnReady
<1>7. ASSUME NEW row \in NewRoles, CreateRole(r, i, row) PROVE Base'
  <2> DEFINE l == [Idle EXCEPT !.pc = "roleInsert", !.at = i, !.rrow = row]
  <2>1. Move(r, l) /\ Ready(i) /\ UNCHANGED <<tables, memo>>
    BY <1>7 DEF CreateRole
  <2>2. row \in RoleRows
    BY DEF NewRoles, RoleRows, Perms
  <2>3. l.pc = "roleInsert" /\ l.at = i /\ Filled(l)
    BY <1>2, <2>2 DEF Idle, Filled
  <2> HIDE DEF l
  <2>4. QED
    BY <1>1, <2>1, <2>3
<1>8. ASSUME NEW d \in RoleIds, NEW dto \in RoleEdits, UpdateRole(r, i, d, dto) PROVE Base'
  <2>1. PICK l \in Locals :
             /\ Move(r, l)
             /\ l.pc = (IF l.rrow.name = roles[d].name THEN "roleSave" ELSE "cascade")
             /\ l.at = i /\ l.role = d /\ l.rrow \in RoleRows
             /\ l.name = roles[d].name /\ l.name \in Names /\ l.locked = {}
    BY <1>0, <1>8, UpdateRoleTyped
  <2>2. Ready(i) /\ IsRole(d) /\ UNCHANGED <<tables, memo>> /\ "updateRole" \in load.ops
    BY <1>8 DEF UpdateRole, New
  <2>3. Filled(l)
    BY <1>3, <2>1, <2>2 DEF Filled
  <2>4. QED
    BY <1>1, <2>1, <2>2, <2>3
<1>9. ASSUME NEW d \in RoleIds, NEW perms \in load.perms, ReplacePermissions(r, i, d, perms) PROVE Base'
  <2> DEFINE l == [Idle EXCEPT !.pc = "roleSave", !.at = i, !.role = d,
                      !.rrow = [roles[d] EXCEPT !.perms = perms]]
  <2>1. Move(r, l) /\ Ready(i) /\ IsRole(d) /\ UNCHANGED <<tables, memo>> /\ "replacePermissions" \in load.ops
    BY <1>9 DEF ReplacePermissions, New
  <2>2. [roles[d] EXCEPT !.perms = perms] \in RoleRows
    BY <1>0, <1>9, ReplaceTyped
  <2>3. l.pc = "roleSave" /\ l.at = i /\ Filled(l)
    BY <1>3, <2>1, <2>2 DEF Idle, Filled
  <2> HIDE DEF l
  <2>4. QED
    BY <1>1, <2>1, <2>3
<1>10. ASSUME NEW d \in RoleIds, RemoveRole(r, i, d) PROVE Base'
  <2> DEFINE l == [Idle EXCEPT !.pc = "roleCount", !.at = i, !.role = d, !.name = roles[d].name]
  <2>1. Move(r, l) /\ Ready(i) /\ IsRole(d) /\ UNCHANGED <<tables, memo>> /\ "removeRole" \in load.ops
    BY <1>10 DEF RemoveRole, New
  <2>2. l.pc = "roleCount" /\ l.at = i /\ Filled(l)
    BY <1>3, <2>1 DEF Idle, Filled
  <2> HIDE DEF l
  <2>3. QED
    BY <1>1, <2>1, <2>2
<1>11. QED
  BY <1>4, <1>5, <1>6, <1>7, <1>8, <1>9, <1>10, <1>13 DEF Arrive

\* A handler goes on.
LEMMA ContinueBase ==
    ASSUME TypeOK, Base, UNCHANGED load, NEW r \in Requests, Continue(r)
    PROVE  Base'
<1>0. slot[r] \in Locals /\ AtHome(slot[r], r) /\ Filled(slot[r])
  BY DEF TypeOK, Base, SlotInv
<1>1. ASSUME NEW l, Move(r, l), UNCHANGED <<tables, memo>>, l.at = slot[r].at, ~Free(r), l.pc # "idle",
             l.pc \in OnReady => slot[r].pc \in OnReady, Filled(l)
      PROVE  Base'
  <2>1. AtHome(l, r)
    BY <1>0, <1>1 DEF AtHome, Free
  <2>2. TableInv' /\ UsersInv' /\ nextRole' \in Nat /\ nextRole <= nextRole'
    BY <1>1, TableSame, UsersSame DEF tables
  <2>3. QED
    BY <1>1, <2>1, <2>2, BaseMove
<1>2. ASSUME Finish(r), UNCHANGED <<tables, memo>> PROVE Base'
  BY <1>2, BaseFinish, TableSame, UsersSame DEF tables
<1>3. ASSUME Finish(r), UNCHANGED <<roles, nextRole, memo>>, UsersInv' PROVE Base'
  BY <1>3, BaseFinish, TableSame
<1>4. CASE UserInsert(r)
  <2>1. slot[r].urow.role \in Names
    BY <1>0, <1>4 DEF UserInsert, At, Filled
  <2>2. UsersInv'
    BY <1>4, <2>1 DEF UserInsert, TypeOK, Base, UsersInv, IsUser
  <2>3. QED
    BY <1>3, <1>4, <2>2 DEF UserInsert
<1>13. CASE UserWrite(r)
  <2>1. slot[r].urow.role \in Names
    BY <1>0, <1>13 DEF UserWrite, At, Filled
  <2>2. UsersInv'
    BY <1>13, <2>1 DEF UserWrite, TypeOK, UserRows, Base, UsersInv, IsUser
  <2>3. QED
    BY <1>3, <1>13, <2>2 DEF UserWrite
<1>14. CASE UserSelect(r)
  <2>1. PICK cols :
            Move(r, [slot[r] EXCEPT !.pc = "userWrite", !.cols = cols])
            \/ Move(r, [slot[r] EXCEPT !.pc = "userInsert"])
    BY <1>14 DEF UserSelect
  <2> DEFINE l == [slot[r] EXCEPT !.pc = "userWrite", !.cols = cols]
             m == [slot[r] EXCEPT !.pc = "userInsert"]
  <2>2. /\ l.at = slot[r].at /\ l.pc = "userWrite" /\ Filled(l)
        /\ m.at = slot[r].at /\ m.pc = "userInsert" /\ Filled(m)
        /\ ~Free(r) /\ UNCHANGED <<tables, memo>>
    BY <1>0, <1>14 DEF Locals, Filled, UserSelect, At, Free
  <2>3. Move(r, l) \/ Move(r, m)
    BY <2>1
  <2> HIDE DEF l, m
  <2>4. QED
    BY <1>1, <2>2, <2>3 DEF OnReady
<1>5. CASE UserDelete(r)
  <2>1. UsersInv'
    BY <1>5 DEF UserDelete, TypeOK, Base, UsersInv, IsUser, NoUser
  <2>2. QED
    BY <1>3, <1>5, <2>1 DEF UserDelete
<1>6. CASE RoleCheck(r)
  <2> DEFINE l == [slot[r] EXCEPT !.pc = "userSave"]
  <2>1. l.at = slot[r].at /\ l.pc = "userSave" /\ Filled(l) /\ ~Free(r)
    BY <1>0, <1>6 DEF Locals, Filled, RoleCheck, At, Free
  <2>2. Move(r, l) \/ Finish(r)
    BY <1>6 DEF RoleCheck
  <2> HIDE DEF l
  <2>3. QED
    BY <1>1, <1>2, <1>6, <2>1, <2>2 DEF RoleCheck, OnReady
<1>7. CASE RoleCascade(r)
  <2> DEFINE l == [slot[r] EXCEPT !.pc = "roleSave", !.locked = Holders(slot[r].name)]
  <2>1. l.at = slot[r].at /\ l.pc = "roleSave" /\ Filled(l) /\ ~Free(r) /\ slot[r].pc = "cascade"
    BY <1>0, <1>7 DEF Locals, Filled, RoleCascade, At, Free
  <2>2. Move(r, l) \/ Finish(r)
    BY <1>7 DEF RoleCascade
  <2> HIDE DEF l
  <2>3. QED
    BY <1>1, <1>2, <1>7, <2>1, <2>2 DEF RoleCascade, OnReady
<1>8. CASE RoleCount(r)
  <2> DEFINE l == [slot[r] EXCEPT !.pc = "roleDelete"]
  <2>1. l.at = slot[r].at /\ l.pc = "roleDelete" /\ Filled(l) /\ ~Free(r) /\ slot[r].pc = "roleCount"
    BY <1>0, <1>8 DEF Locals, Filled, RoleCount, At, Free
  <2>2. Move(r, l) \/ Finish(r)
    BY <1>8 DEF RoleCount
  <2> HIDE DEF l
  <2>3. QED
    BY <1>1, <1>2, <1>8, <2>1, <2>2 DEF RoleCount, OnReady
<1>9. CASE RoleInsert(r)
  <2>1. slot[r].rrow \in RoleRows /\ nextRole \in RoleIds /\ nextRole <= nextRole
    BY <1>0, <1>9, Constants DEF RoleInsert, At, Filled, TypeOK, RoleIds
  <2>2. \/ Allowed(nextRole, slot[r].rrow) /\ PutRole(nextRole, slot[r].rrow)
        \/ UNCHANGED <<roles, nextRole>>
    BY <1>9 DEF RoleInsert
  <2>3. TableInv' /\ nextRole' \in Nat /\ nextRole <= nextRole'
    BY <2>1, <2>2, TablePut, TableSame DEF Base
  <2>4. QED
    BY <1>9, <2>3, BaseFinish, UsersSame DEF RoleInsert
<1>10. CASE RoleSave(r)
  <2>1. /\ slot[r].rrow \in RoleRows /\ slot[r].role \in RoleIds /\ slot[r].role <= nextRole
        /\ slot[r].rrow.name \in Names
    BY <1>0, <1>10, Constants DEF RoleSave, At, Filled, TypeOK, RoleIds, RoleRows
  <2>2. \/ Allowed(slot[r].role, slot[r].rrow) /\ PutRole(slot[r].role, slot[r].rrow)
        \/ UNCHANGED <<roles, nextRole>>
    BY <1>10 DEF RoleSave, tables
  <2>3. TableInv' /\ nextRole' \in Nat /\ nextRole <= nextRole'
    BY <2>1, <2>2, TablePut, TableSame DEF Base
  <2>4. UsersInv'
    <3>1. ASSUME NEW u \in Users
          PROVE  users'[u] = users[u] \/ users'[u] = [users[u] EXCEPT !.role = slot[r].rrow.name]
      BY <1>10 DEF RoleSave, tables
    <3>2. \A u \in Users : users[u] \in UserRows
      BY DEF TypeOK
    <3>3. \A u \in Users : users'[u].is = users[u].is /\ users'[u].role \in {users[u].role, slot[r].rrow.name}
      BY <3>1, <3>2 DEF UserRows
    <3>4. QED
      BY <2>1, <3>3 DEF Base, UsersInv, IsUser
  <2>5. QED
    BY <1>10, <2>3, <2>4, BaseFinish DEF RoleSave
<1>11. CASE RoleDelete(r)
  <2>1. \A d \in RoleIds : roles'[d] = IF d = slot[r].role THEN NoRow ELSE roles[d]
    BY <1>11 DEF RoleDelete, TypeOK
  <2>2. TableInv'
    <3>1. nextRole' = nextRole /\ TableInv /\ NoRow.name = None
      BY <1>11 DEF RoleDelete, Base, NoRow
    <3>2. \A d \in RoleIds : d >= nextRole' => roles'[d] = NoRow
      BY <2>1, <3>1 DEF TableInv
    <3>3. \A d, e \in RoleIds : IsRole(d)' /\ roles'[e].name = roles'[d].name => e = d
      BY <2>1, <3>1 DEF TableInv, IsRole
    <3>4. QED
      BY <3>2, <3>3 DEF TableInv
  <2>3. nextRole' \in Nat /\ nextRole <= nextRole'
    BY <1>11, Constants DEF RoleDelete, TypeOK
  <2>4. QED
    BY <1>11, <2>2, <2>3, BaseFinish, UsersSame DEF RoleDelete
<1>12. QED
  BY <1>4, <1>5, <1>6, <1>7, <1>8, <1>9, <1>10, <1>11, <1>13, <1>14 DEF Continue

LEMMA BaseStep == TypeOK /\ Base /\ [Next]_vars => Base'
<1> SUFFICES ASSUME TypeOK, Base, [Next]_vars PROVE Base'
  OBVIOUS
<1>1. load.requests \subseteq Requests /\ load.instances \subseteq Instances
  BY Constants DEF TypeOK
<1>2. ASSUME UNCHANGED load, NEW r \in Requests, Fail(r) PROVE Base'
  BY <1>2, BaseFinish, TableSame, UsersSame DEF Fail, tables
<1>3. ASSUME UNCHANGED load, NEW i \in load.instances, EnsureDefaults(i) PROVE Base'
  <2>1. i \in Instances /\ memo[i].pc = "no" /\ memo[i] \in Memos
    BY <1>1, <1>3 DEF EnsureDefaults, TypeOK
  <2> DEFINE m == [memo[i] EXCEPT !.pc = "find"]
  <2>2. memo' = [memo EXCEPT ![i] = m] /\ UNCHANGED <<slot, tables>>
    BY <1>1, <1>3, <2>1 DEF EnsureDefaults, Called, TypeOK
  <2>3. m \in Memos /\ m.found = memo[i].found /\ m.pc = "find"
    BY <2>1 DEF Memos
  <2>4. memo[i].found < nextRole
    BY <1>1, <1>3 DEF Base, MemoInv
  <2> HIDE DEF m
  <2>5. QED
    BY <1>3, <2>1, <2>2, <2>3, <2>4, BaseSync, TableSame DEF tables
<1>4. ASSUME UNCHANGED load, NEW i \in load.instances, SyncFails(i) PROVE Base'
  BY <1>1, <1>4, RejectedBase DEF SyncFails
<1>5. CASE UNCHANGED vars
  BY <1>5 DEF vars, Base, SlotInv, MemoInv, TableInv, UsersInv, AtHome, Filled, IsRole, IsUser
<1>6. QED
  BY <1>1, <1>2, <1>3, <1>4, <1>5, ArriveBase, ContinueBase, SyncFindBase, SyncSaveBase, RestartBase
     DEF Next, Sync, Record

LEMMA BaseHolds == Spec => [](TypeOK /\ Base)
BY InitTyped, BaseInit, StepTyped, BaseStep, PTL DEF Spec

-----------------------------------------------------------------------------
(* The name of a role stays with its id, where nothing renames.             *)

\* What the invariants come to: nothing is claimed of an id that was not given out.
LEMMA NextIdUnclaimed ==
    ASSUME TypeOK, Base, NEW n \in Names, NEW d \in RoleIds, d >= nextRole
    PROVE  ~Says(d, n)
<1>1. roles[d].name # n
  BY Constants DEF Base, TableInv, NoRow
<1>2. d \in Nat /\ nextRole \in Nat
  BY Constants DEF RoleIds, TypeOK
<1>3. \A i \in Instances : memo[i].found # d
  BY <1>2 DEF Base, MemoInv, TypeOK, Memos, RoleIds, NoRole
<1>4. \A r \in Requests : slot[r].role # d
  BY <1>2 DEF Base, SlotInv, Filled, RoleIds, NoRole
<1>5. QED
  BY <1>1, <1>3, <1>4 DEF Says, MemoSays, SlotSays

LEMMA ClaimKept ==
    ASSUME TypeOK, Base, ClaimInv, UNCHANGED load,
           \A d \in RoleIds, n \in Names : "updateRole" \notin load.ops =>
               /\ \A i \in Instances : MemoSays(memo[i], d, n)' => Says(d, n)
               /\ \A r \in Requests : SlotSays(slot[r], d, n)' => Says(d, n)
               /\ roles'[d].name = n => Says(d, n) \/ d = nextRole
    PROVE  ClaimInv'
<1> SUFFICES ASSUME "updateRole" \notin load.ops, NEW d \in RoleIds, NEW m \in Names, NEW n \in Names,
                    Says(d, m)', Says(d, n)'
             PROVE  m = n
  BY DEF ClaimInv
<1>1. ASSUME NEW k \in Names, Says(d, k)' PROVE Says(d, k) \/ (d = nextRole /\ roles'[d].name = k)
  BY <1>1 DEF Says
<1>2. CASE d = nextRole
  <2>1. \A k \in Names : ~Says(d, k)
    BY <1>2, NextIdUnclaimed, Constants DEF TypeOK
  <2>2. QED
    BY <1>1, <2>1
<1>3. CASE d # nextRole
  BY <1>1, <1>3 DEF ClaimInv
<1>4. QED
  BY <1>2, <1>3

\* The slot of a handler that moves.
LEMMA OwnMove ==
    ASSUME TypeOK, NEW r \in Requests, NEW l, Move(r, l)
    PROVE  \A q \in Requests : slot'[q] = IF q = r THEN l ELSE slot[q]
BY DEF TypeOK, Move

LEMMA OwnFinish ==
    ASSUME TypeOK, NEW r \in Requests, Finish(r)
    PROVE  \A q \in Requests : slot'[q] = IF q = r THEN Idle ELSE slot[q]
BY OwnMove DEF Finish

LEMMA IdleSaysNothing == \A d, n : ~SlotSays(Idle, d, n) /\ ~MemoSays(NoMemo, d, n)
BY DEF SlotSays, MemoSays, Idle, NoMemo

\* A memo a call of ensureDefaults may have woken.
LEMMA CalledMemo ==
    ASSUME TypeOK, NEW i \in Instances, memo' = Called(i), NEW j \in Instances
    PROVE  memo'[j] = memo[j] \/ (memo[j].pc = "no" /\ memo'[j] = [memo[j] EXCEPT !.pc = "find"])
BY DEF TypeOK, Called

LEMMA CalledSays ==
    ASSUME TypeOK, NEW i \in Instances, memo' = Called(i)
    PROVE  \A j \in Instances : \A d, n : MemoSays(memo[j], d, n)' => MemoSays(memo[j], d, n)
<1> SUFFICES ASSUME NEW j \in Instances PROVE \A d, n : MemoSays(memo[j], d, n)' => MemoSays(memo[j], d, n)
  OBVIOUS
<1>1. memo[j] \in Memos
  BY DEF TypeOK
<1>2. QED
  BY <1>1, CalledMemo DEF MemoSays, Memos

\* A handler that begins claims what it has read.
LEMMA ArriveClaims ==
    ASSUME TypeOK, Base, ClaimInv, UNCHANGED load, NEW r \in Requests, NEW i \in Instances, Arrive(r, i)
    PROVE  ClaimInv'
<1>1. ASSUME NEW l, Move(r, l), memo' = memo \/ memo' = Called(i), UNCHANGED roles,
             "updateRole" \notin load.ops => \A d, n : SlotSays(l, d, n) => roles[d].name = n
      PROVE  ClaimInv'
  <2>1. \A q \in Requests : slot'[q] = IF q = r THEN l ELSE slot[q]
    BY <1>1, OwnMove
  <2>2. \A j \in Instances : \A d, n : MemoSays(memo[j], d, n)' => MemoSays(memo[j], d, n)
    BY <1>1, CalledSays DEF MemoSays
  <2>3. \A q \in Requests : \A d, n : "updateRole" \notin load.ops => (SlotSays(slot[q], d, n)' => Says(d, n))
    BY <1>1, <2>1 DEF Says, SlotSays
  <2>4. QED
    BY <1>1, <2>2, <2>3, ClaimKept DEF Says
<1>2. ASSUME NEW l, Move(r, l), UNCHANGED <<tables, memo>>, l.pc \in {"userInsert", "userDelete", "roleInsert"}
      PROVE  ClaimInv'
  BY <1>1, <1>2 DEF SlotSays, tables
<1>11. ASSUME NEW u \in Users, Register(r, i, u) PROVE ClaimInv'
  BY <1>2, <1>11 DEF Register, Idle
<1>3. ASSUME NEW u \in Users, NEW d \in RoleIds, NEW username \in Usernames \union {None},
             CreateUser(r, i, u, d, username)
      PROVE  ClaimInv'
  BY <1>2, <1>3 DEF CreateUser, Idle
<1>4. ASSUME NEW u \in Users, NEW dto \in UserEdits, EditRead(r, i, u, dto) PROVE ClaimInv'
  <2>1. PICK l \in Locals : /\ Move(r, l) /\ Edited(l, i, u, dto)
                            /\ memo' = (IF l.pc = "roleCheck" THEN Called(i) ELSE memo)
    BY <1>4, EditReadTyped
  <2>2. \A d, n : ~SlotSays(l, d, n)
    BY <2>1 DEF Edited, SlotSays
  <2>3. QED
    BY <1>1, <1>4, <2>1, <2>2 DEF EditRead, tables
<1>5. ASSUME NEW u \in Users, RemoveUser(r, i, u) PROVE ClaimInv'
  BY <1>2, <1>5 DEF RemoveUser, Idle
<1>6. ASSUME NEW row \in NewRoles, CreateRole(r, i, row) PROVE ClaimInv'
  BY <1>2, <1>6 DEF CreateRole, Idle
<1>7. ASSUME NEW d \in RoleIds, NEW dto \in RoleEdits, UpdateRole(r, i, d, dto) PROVE ClaimInv'
  BY <1>7 DEF UpdateRole, New, ClaimInv
<1>8. ASSUME NEW d \in RoleIds, NEW perms \in load.perms, ReplacePermissions(r, i, d, perms) PROVE ClaimInv'
  <2> DEFINE l == [Idle EXCEPT !.pc = "roleSave", !.at = i, !.role = d,
                      !.rrow = [roles[d] EXCEPT !.perms = perms]]
  <2>1. Move(r, l) /\ UNCHANGED <<tables, memo>>
    BY <1>8 DEF ReplacePermissions
  <2>2. roles[d] \in RoleRows \union {NoRow}
    BY DEF TypeOK
  <2>3. l.role = d /\ l.rrow.name = roles[d].name /\ l.pc = "roleSave"
    BY <2>2 DEF Idle, RoleRows, NoRow
  <2>4. \A e, n : SlotSays(l, e, n) => roles[e].name = n
    BY <2>3 DEF SlotSays
  <2> HIDE DEF l
  <2>5. QED
    BY <1>1, <2>1, <2>4 DEF tables
<1>9. ASSUME NEW d \in RoleIds, RemoveRole(r, i, d) PROVE ClaimInv'
  <2> DEFINE l == [Idle EXCEPT !.pc = "roleCount", !.at = i, !.role = d, !.name = roles[d].name]
  <2>1. Move(r, l) /\ UNCHANGED <<tables, memo>>
    BY <1>9 DEF RemoveRole
  <2>2. \A e, n : SlotSays(l, e, n) => roles[e].name = n
    BY DEF SlotSays, Idle
  <2> HIDE DEF l
  <2>3. QED
    BY <1>1, <2>1, <2>2 DEF tables
<1>10. QED
  BY <1>3, <1>4, <1>5, <1>6, <1>7, <1>8, <1>9, <1>11 DEF Arrive

\* A handler that goes on claims what it did before, and writes what it claims.
LEMMA ContinueClaims ==
    ASSUME TypeOK, Base, ClaimInv, UNCHANGED load, NEW r \in Requests, Continue(r)
    PROVE  ClaimInv'
<1>0. slot[r] \in Locals /\ Filled(slot[r])
  BY DEF TypeOK, Base, SlotInv
<1>1. ASSUME NEW l, Move(r, l), UNCHANGED memo,
             "updateRole" \notin load.ops => \A d, n : SlotSays(l, d, n) => SlotSays(slot[r], d, n),
             "updateRole" \notin load.ops =>
                 \A d \in RoleIds, n \in Names : roles'[d].name = n => Says(d, n) \/ d = nextRole
      PROVE  ClaimInv'
  <2>1. \A q \in Requests : slot'[q] = IF q = r THEN l ELSE slot[q]
    BY <1>1, OwnMove
  <2>2. \A q \in Requests : \A d, n : "updateRole" \notin load.ops =>
            (SlotSays(slot[q], d, n)' => SlotSays(slot[q], d, n))
    BY <1>1, <2>1 DEF SlotSays
  <2>3. \A i \in Instances : \A d, n : MemoSays(memo[i], d, n)' = MemoSays(memo[i], d, n)
    BY <1>1 DEF MemoSays
  <2>4. QED
    BY <1>1, <2>2, <2>3, ClaimKept DEF Says
<1>2. ASSUME Finish(r), UNCHANGED memo,
             "updateRole" \notin load.ops =>
                 \A d \in RoleIds, n \in Names : roles'[d].name = n => Says(d, n) \/ d = nextRole
      PROVE  ClaimInv'
  BY <1>1, <1>2, IdleSaysNothing DEF Finish
<1>3. ASSUME NEW l, Move(r, l) \/ Finish(r), UNCHANGED <<roles, memo>>,
             "updateRole" \notin load.ops => \A d, n : SlotSays(l, d, n) => SlotSays(slot[r], d, n)
      PROVE  ClaimInv'
  BY <1>1, <1>2, <1>3 DEF Says
<1>4. CASE UserInsert(r) \/ UserWrite(r) \/ UserDelete(r)
  BY <1>2, <1>4 DEF UserInsert, UserWrite, UserDelete, Says
<1>12. CASE UserSelect(r)
  <2>1. PICK l : Move(r, l) /\ l.pc \in {"userWrite", "userInsert"}
    <3>1. PICK cols :
              Move(r, [slot[r] EXCEPT !.pc = "userWrite", !.cols = cols])
              \/ Move(r, [slot[r] EXCEPT !.pc = "userInsert"])
      BY <1>12 DEF UserSelect
    <3>2. /\ [slot[r] EXCEPT !.pc = "userWrite", !.cols = cols].pc = "userWrite"
          /\ [slot[r] EXCEPT !.pc = "userInsert"].pc = "userInsert"
      BY <1>0 DEF Locals
    <3>3. QED
      BY <3>1, <3>2
  <2>2. \A d, n : ~SlotSays(l, d, n)
    BY <2>1 DEF SlotSays
  <2>3. QED
    BY <1>3, <1>12, <2>1, <2>2 DEF UserSelect, tables
<1>5. CASE RoleCheck(r)
  <2> DEFINE l == [slot[r] EXCEPT !.pc = "userSave"]
  <2>1. \A d, n : ~SlotSays(l, d, n)
    BY <1>0 DEF SlotSays, Locals
  <2>2. Move(r, l) \/ Finish(r)
    BY <1>5 DEF RoleCheck
  <2> HIDE DEF l
  <2>3. QED
    BY <1>3, <1>5, <2>1, <2>2 DEF RoleCheck, tables
<1>6. CASE RoleCascade(r)
  BY <1>0, <1>6 DEF RoleCascade, At, Filled, ClaimInv
<1>7. CASE RoleCount(r)
  <2> DEFINE l == [slot[r] EXCEPT !.pc = "roleDelete"]
  <2>1. \A d, n : SlotSays(l, d, n) => SlotSays(slot[r], d, n)
    BY <1>0, <1>7 DEF SlotSays, Locals, RoleCount, At
  <2>2. Move(r, l) \/ Finish(r)
    BY <1>7 DEF RoleCount
  <2> HIDE DEF l
  <2>3. QED
    BY <1>3, <1>7, <2>1, <2>2 DEF RoleCount, tables
<1>8. CASE RoleInsert(r)
  <2>1. \A d \in RoleIds : roles'[d] = roles[d] \/ d = nextRole
    BY <1>8 DEF RoleInsert, PutRole, TypeOK
  <2>2. \A d \in RoleIds, n \in Names : roles'[d].name = n => Says(d, n) \/ d = nextRole
    BY <2>1 DEF Says
  <2>3. QED
    BY <1>2, <1>8, <2>2 DEF RoleInsert
<1>9. CASE RoleSave(r)
  <2>1. \A d \in RoleIds : roles'[d] = roles[d] \/ (d = slot[r].role /\ roles'[d] = slot[r].rrow)
    BY <1>9 DEF RoleSave, PutRole, TypeOK, tables
  <2>2. \A n : SlotSays(slot[r], slot[r].role, n) <=> slot[r].rrow.name = n
    BY <1>9 DEF RoleSave, At, SlotSays
  <2>3. \A d \in RoleIds, n \in Names : roles'[d].name = n => Says(d, n) \/ d = nextRole
    BY <2>1, <2>2 DEF Says
  <2>4. QED
    BY <1>2, <1>9, <2>3 DEF RoleSave
<1>10. CASE RoleDelete(r)
  <2>1. \A d \in RoleIds : roles'[d] = roles[d] \/ roles'[d] = NoRow
    BY <1>10 DEF RoleDelete, TypeOK
  <2>2. \A d \in RoleIds, n \in Names : roles'[d].name = n => Says(d, n)
    BY <2>1, Constants DEF Says, NoRow
  <2>3. QED
    BY <1>2, <1>10, <2>2 DEF RoleDelete
<1>11. QED
  BY <1>4, <1>5, <1>6, <1>7, <1>8, <1>9, <1>10, <1>12 DEF Continue

\* Steps that write no row: handlers end, synchronisations end or begin.
Fades ==
    /\ UNCHANGED tables
    /\ \A q \in Requests : slot'[q] = slot[q] \/ slot'[q] = Idle
    /\ \A j \in Instances : \/ memo'[j] = memo[j] \/ memo'[j] = NoMemo
                            \/ memo[j].pc = "no" /\ memo'[j] = [memo[j] EXCEPT !.pc = "find"]

\* A synchronisation writes a seed into the place that is its own.
SyncPut(i, d) ==
    /\ memo[i].pc = "save" /\ Good(memo[i].copy, SeedList[memo[i].k])
    /\ d = (IF memo[i].found = NoRole THEN nextRole ELSE memo[i].found)
    /\ d <= nextRole
    /\ Allowed(d, memo[i].copy) /\ PutRole(d, memo[i].copy)
    /\ Advance(i)
    /\ UNCHANGED <<users, slot>>

\* The kinds of steps.
LEMMA StepKinds ==
    ASSUME TypeOK, Base, [Next]_vars
    PROVE  /\ UNCHANGED load
           /\ load.requests \subseteq Requests /\ load.instances \subseteq Instances
           /\ \/ Fades
              \/ \E i \in load.instances : SyncFind(i)
              \/ \E i \in load.instances, d \in RoleIds : SyncPut(i, d)
              \/ \E r \in load.requests, i \in load.instances : Arrive(r, i)
              \/ \E r \in load.requests : Continue(r)
<1>1. load.requests \subseteq Requests /\ load.instances \subseteq Instances
  BY Constants DEF TypeOK
<1>2. UNCHANGED load
  BY DEF Next, Record, vars
<1>3. CASE UNCHANGED vars
  BY <1>1, <1>2, <1>3 DEF vars, tables, Fades
<1>4. ASSUME NEW r \in load.requests, Fail(r) PROVE Fades
  BY <1>1, <1>4, OwnFinish DEF Fail, Fades
<1>5. ASSUME NEW i \in load.instances, EnsureDefaults(i) PROVE Fades
  BY <1>1, <1>5, CalledMemo DEF EnsureDefaults, Fades
<1>6. ASSUME NEW i \in Instances, Rejected(i), UNCHANGED tables PROVE Fades
  BY <1>6 DEF Rejected, Fades, TypeOK
<1>7. ASSUME NEW i \in load.instances, SyncFails(i) PROVE Fades
  BY <1>1, <1>6, <1>7 DEF SyncFails
<1>8. ASSUME NEW i \in load.instances, Restart(i) PROVE Fades
  BY <1>1, <1>8 DEF Restart, Fades, TypeOK
<1>9. ASSUME NEW i \in load.instances, SyncSave(i) PROVE Fades \/ \E d \in RoleIds : SyncPut(i, d)
  BY <1>1, <1>6, <1>9, SyncSaveDoes DEF SyncPut
<1>10. QED
  BY <1>1, <1>2, <1>3, <1>4, <1>5, <1>7, <1>8, <1>9 DEF Next, Sync

\* What is claimed after such a step was claimed before.
LEMMA FadesSays ==
    ASSUME TypeOK, Fades
    PROVE  /\ \A j \in Instances : \A d, n : MemoSays(memo[j], d, n)' => MemoSays(memo[j], d, n)
           /\ \A q \in Requests : \A d, n : SlotSays(slot[q], d, n)' => SlotSays(slot[q], d, n)
<1>1. ASSUME NEW j \in Instances
      PROVE  \A d, n : MemoSays(memo[j], d, n)' => MemoSays(memo[j], d, n)
  <2>1. memo[j] \in Memos
    BY DEF TypeOK
  <2>2. QED
    BY <2>1, IdleSaysNothing DEF Fades, MemoSays, Memos, NoMemo
<1>2. ASSUME NEW q \in Requests
      PROVE  \A d, n : SlotSays(slot[q], d, n)' => SlotSays(slot[q], d, n)
  BY IdleSaysNothing DEF Fades, SlotSays, Idle
<1>3. QED
  BY <1>1, <1>2

\* The memo after a seed is found, and after it is saved.
LEMMA SyncFindMemo ==
    ASSUME TypeOK, UNCHANGED load, NEW i \in load.instances, SyncFind(i)
    PROVE  \E d \in RoleIds \union {NoRole} :
             LET n == SeedList[memo[i].k] IN
             /\ i \in Instances /\ memo[i].pc = "find" /\ n \in Seeds
             /\ IF d = NoRole THEN Named(n) = {} ELSE roles[d].name = n
             /\ Good(Seeded(n, d), n)
             /\ \A j \in Instances : j # i => memo'[j] = memo[j]
             /\ memo'[i].pc = "save" /\ memo'[i].found = d /\ memo'[i].copy = Seeded(n, d)
             /\ memo'[i].k = memo[i].k
             /\ UNCHANGED <<tables, slot>>
<1>0. i \in Instances
  BY Constants DEF TypeOK
<1>1. PICK d \in RoleIds \union {NoRole} :
             LET n == SeedList[memo[i].k] IN
             /\ n \in Seeds
             /\ IF d = NoRole THEN Named(n) = {} ELSE roles[d].name = n
             /\ Good(Seeded(n, d), n)
             /\ memo' = [memo EXCEPT ![i] = [memo[i] EXCEPT !.pc = "save", !.found = d, !.copy = Seeded(n, d)]]
             /\ memo' \in [Instances -> Memos]
  BY <1>0, SyncFindTyped
<1>2. memo[i].pc = "find" /\ UNCHANGED <<tables, slot>> /\ memo[i] \in Memos
  BY <1>0 DEF SyncFind, TypeOK
<1>3. \A j \in Instances : j # i => memo'[j] = memo[j]
  BY <1>1 DEF TypeOK
<1>4. memo'[i] = [memo[i] EXCEPT !.pc = "save", !.found = d, !.copy = Seeded(SeedList[memo[i].k], d)]
  BY <1>0, <1>1 DEF TypeOK
<1>5. /\ memo'[i].pc = "save" /\ memo'[i].found = d /\ memo'[i].copy = Seeded(SeedList[memo[i].k], d)
      /\ memo'[i].k = memo[i].k
  BY <1>2, <1>4 DEF Memos
<1>6. QED
  BY <1>0, <1>1, <1>2, <1>3, <1>5

LEMMA AdvanceMemo ==
    ASSUME TypeOK, NEW i \in Instances, Advance(i)
    PROVE  /\ \A j \in Instances : j # i => memo'[j] = memo[j]
           /\ memo'[i].pc \in {"find", "done"} /\ memo'[i].found = NoRole
           /\ memo'[i].pc = "find" => memo'[i].k = memo[i].k + 1
           /\ memo'[i].pc = "done" => memo[i].k = Len(SeedList)
<1> DEFINE m == IF memo[i].k = Len(SeedList) THEN [NoMemo EXCEPT !.pc = "done"]
                ELSE [NoMemo EXCEPT !.pc = "find", !.k = memo[i].k + 1]
<1>1. memo' = [memo EXCEPT ![i] = m]
  BY DEF Advance
<1>2. /\ m.pc \in {"find", "done"} /\ m.found = NoRole
      /\ m.pc = "find" => m.k = memo[i].k + 1
      /\ m.pc = "done" => memo[i].k = Len(SeedList)
  BY DEF NoMemo
<1> HIDE DEF m
<1>3. QED
  BY <1>1, <1>2 DEF TypeOK

LEMMA ClaimStep == TypeOK /\ Base /\ ClaimInv /\ [Next]_vars => ClaimInv'
<1> SUFFICES ASSUME TypeOK, Base, ClaimInv, [Next]_vars PROVE ClaimInv'
  OBVIOUS
<1>0. UNCHANGED load /\ load.requests \subseteq Requests /\ load.instances \subseteq Instances
  BY StepKinds
<1>1. CASE Fades
  BY <1>0, <1>1, FadesSays, ClaimKept DEF Says, Fades, tables
<1>2. ASSUME NEW i \in load.instances, SyncFind(i) PROVE ClaimInv'
  <2>1. PICK d \in RoleIds \union {NoRole} :
             LET n == SeedList[memo[i].k] IN
             /\ i \in Instances
             /\ IF d = NoRole THEN Named(n) = {} ELSE roles[d].name = n
             /\ Good(Seeded(n, d), n)
             /\ \A j \in Instances : j # i => memo'[j] = memo[j]
             /\ memo'[i].pc = "save" /\ memo'[i].found = d /\ memo'[i].copy = Seeded(n, d)
             /\ UNCHANGED <<tables, slot>>
    BY <1>0, <1>2, SyncFindMemo
  <2>2. \A e \in RoleIds, n \in Names : MemoSays(memo[i], e, n)' => roles[e].name = n
    BY <2>1 DEF MemoSays, Good, RoleIds, NoRole
  <2>3. \A j \in Instances : \A e \in RoleIds, n \in Names : MemoSays(memo[j], e, n)' => Says(e, n)
    BY <2>1, <2>2 DEF Says, MemoSays
  <2>4. QED
    BY <1>0, <2>1, <2>3, ClaimKept DEF Says, SlotSays, tables
<1>3. ASSUME NEW i \in load.instances, NEW d \in RoleIds, SyncPut(i, d) PROVE ClaimInv'
  <2>1. i \in Instances /\ UNCHANGED slot
    BY <1>0, <1>3 DEF SyncPut
  <2>2. \A j \in Instances : \A e, n : MemoSays(memo[j], e, n)' => MemoSays(memo[j], e, n)
    BY <2>1, <1>3, AdvanceMemo DEF SyncPut, MemoSays
  <2>3. \A e \in RoleIds : roles'[e] = roles[e] \/ (e = d /\ roles'[e] = memo[i].copy)
    BY <1>3 DEF SyncPut, PutRole, TypeOK
  <2>4. \A e \in RoleIds, n \in Names : roles'[e].name = n => Says(e, n) \/ e = nextRole
    BY <2>1, <2>3, <1>3 DEF SyncPut, Says, MemoSays
  <2>5. QED
    BY <1>0, <2>1, <2>2, <2>4, ClaimKept DEF Says, SlotSays
<1>4. QED
  BY <1>0, <1>1, <1>2, <1>3, ArriveClaims, ContinueClaims, StepKinds

LEMMA ClaimInit == Init => ClaimInv
BY Constants DEF Init, ClaimInv, Says, MemoSays, SlotSays, Idle, NoMemo, NoRow

-----------------------------------------------------------------------------
(* The moves of a handler, one by one.                                      *)

\* What a request of instance i is when it is accepted.
Begins(l, i) ==
    \/ /\ l.pc = "userInsert"
       /\ \E d \in RoleIds : /\ IsRole(d) /\ roles[d].name = l.urow.role
                             /\ roles[d].admin => l.urow.username # None
    \/ l.pc = "userInsert" /\ l.urow.role = Registered
    \/ \E u \in Users, dto \in UserEdits : IsUser(u) /\ Edited(l, i, u, dto)
    \/ l.pc = "userDelete"
    \/ l.pc = "roleInsert" /\ Ready(i) /\ Named(l.rrow.name) = {}
    \/ /\ "updateRole" \in load.ops
       /\ l.pc = (IF l.rrow.name = roles[l.role].name THEN "roleSave" ELSE "cascade")
       /\ l.name = roles[l.role].name
    \/ /\ l.pc = "roleSave" /\ "replacePermissions" \in load.ops
       /\ \E perms : l.rrow = [roles[l.role] EXCEPT !.perms = perms]
    \/ /\ l.pc = "roleCount" /\ ~roles[l.role].system
       /\ l.name = roles[l.role].name

LEMMA ArriveDoes ==
    ASSUME TypeOK, NEW r \in Requests, NEW i \in Instances, Arrive(r, i)
    PROVE  /\ UNCHANGED tables /\ Free(r)
           /\ memo' = memo \/ memo' = Called(i)
           /\ \E l : Begins(l, i) /\ Move(r, l)
<1>11. ASSUME NEW u \in Users, Register(r, i, u) PROVE \E l : Begins(l, i) /\ Move(r, l)
  <2> DEFINE l == [Idle EXCEPT !.pc = "userInsert", !.at = i, !.user = u,
                      !.urow = NewUser(Registered, None)]
  <2>1. Begins(l, i)
    BY DEF Begins, Idle, NewUser
  <2>2. Move(r, l)
    BY <1>11 DEF Register
  <2>3. QED
    BY <2>1, <2>2
<1>1. ASSUME NEW u \in Users, NEW d \in RoleIds, NEW username \in Usernames \union {None},
             CreateUser(r, i, u, d, username)
      PROVE  \E l : Begins(l, i) /\ Move(r, l)
  <2> DEFINE l == [Idle EXCEPT !.pc = "userInsert", !.at = i, !.user = u,
                      !.urow = NewUser(roles[d].name, username)]
  <2>1. Begins(l, i)
    BY <1>1 DEF CreateUser, Begins, Idle, NewUser
  <2>2. Move(r, l)
    BY <1>1 DEF CreateUser
  <2>3. QED
    BY <2>1, <2>2
<1>2. ASSUME NEW u \in Users, NEW dto \in UserEdits, EditRead(r, i, u, dto)
      PROVE  (\E l : Begins(l, i) /\ Move(r, l)) /\ (memo' = memo \/ memo' = Called(i))
  <2>1. PICK l \in Locals : /\ Move(r, l) /\ Edited(l, i, u, dto)
                            /\ memo' = (IF l.pc = "roleCheck" THEN Called(i) ELSE memo)
    BY <1>2, EditReadTyped
  <2>2. IsUser(u)
    BY <1>2 DEF EditRead
  <2>3. QED
    BY <2>1, <2>2 DEF Begins
<1>3. ASSUME NEW u \in Users, RemoveUser(r, i, u) PROVE \E l : Begins(l, i) /\ Move(r, l)
  <2> DEFINE l == [Idle EXCEPT !.pc = "userDelete", !.at = i, !.user = u]
  <2>1. Begins(l, i)
    BY DEF Begins, Idle
  <2>2. Move(r, l)
    BY <1>3 DEF RemoveUser
  <2>3. QED
    BY <2>1, <2>2
<1>4. ASSUME NEW row \in NewRoles, CreateRole(r, i, row) PROVE \E l : Begins(l, i) /\ Move(r, l)
  <2> DEFINE l == [Idle EXCEPT !.pc = "roleInsert", !.at = i, !.rrow = row]
  <2>1. Begins(l, i)
    BY <1>4 DEF CreateRole, Begins, Idle
  <2>2. Move(r, l)
    BY <1>4 DEF CreateRole
  <2>3. QED
    BY <2>1, <2>2
<1>5. ASSUME NEW d \in RoleIds, NEW dto \in RoleEdits, UpdateRole(r, i, d, dto)
      PROVE  \E l : Begins(l, i) /\ Move(r, l)
  <2>1. PICK l \in Locals : /\ Move(r, l)
                            /\ l.pc = (IF l.rrow.name = roles[d].name THEN "roleSave" ELSE "cascade")
                            /\ l.role = d /\ l.name = roles[d].name
    BY <1>5, UpdateRoleTyped
  <2>2. "updateRole" \in load.ops
    BY <1>5 DEF UpdateRole, New
  <2>3. QED
    BY <2>1, <2>2 DEF Begins
<1>6. ASSUME NEW d \in RoleIds, NEW perms \in load.perms, ReplacePermissions(r, i, d, perms)
      PROVE  \E l : Begins(l, i) /\ Move(r, l)
  <2> DEFINE l == [Idle EXCEPT !.pc = "roleSave", !.at = i, !.role = d,
                      !.rrow = [roles[d] EXCEPT !.perms = perms]]
  <2>1. l.pc = "roleSave" /\ l.role = d /\ l.rrow = [roles[d] EXCEPT !.perms = perms]
    BY DEF Idle
  <2>2. Move(r, l) /\ "replacePermissions" \in load.ops
    BY <1>6 DEF ReplacePermissions, New
  <2> HIDE DEF l
  <2>3. Begins(l, i)
    BY <2>1, <2>2 DEF Begins
  <2>4. QED
    BY <2>2, <2>3
<1>7. ASSUME NEW d \in RoleIds, RemoveRole(r, i, d) PROVE \E l : Begins(l, i) /\ Move(r, l)
  <2> DEFINE l == [Idle EXCEPT !.pc = "roleCount", !.at = i, !.role = d, !.name = roles[d].name]
  <2>1. Begins(l, i)
    BY <1>7 DEF RemoveRole, Begins, Idle
  <2>2. Move(r, l)
    BY <1>7 DEF RemoveRole
  <2>3. QED
    BY <2>1, <2>2
<1>8. UNCHANGED tables /\ Free(r)
  BY DEF Arrive, Register, CreateUser, EditRead, RemoveUser, CreateRole, UpdateRole,
     ReplacePermissions, RemoveRole, New
<1>9. memo' = memo \/ memo' = Called(i)
  BY <1>2 DEF Arrive, Register, CreateUser, RemoveUser, CreateRole, UpdateRole, ReplacePermissions, RemoveRole
<1>10. QED
  BY <1>1, <1>2, <1>3, <1>4, <1>5, <1>6, <1>7, <1>8, <1>9, <1>11 DEF Arrive

\* The row a handler writes, if it writes one.
Saves(l, d) ==
    /\ l.rrow \in RoleRows /\ Allowed(d, l.rrow)
    /\ \/ l.pc = "roleInsert" /\ d = nextRole /\ roles[d] = NoRow
       \/ l.pc = "roleSave" /\ d = l.role
    /\ \A e \in RoleIds : roles'[e] = IF e = d THEN l.rrow ELSE roles[e]

Deletes(l) ==
    /\ l.pc = "roleDelete"
    /\ \A e \in RoleIds : roles'[e] = IF e = l.role THEN NoRow ELSE roles[e]

\* Where a handler is after a step.
GoesOn(l, m) ==
    \/ m = Idle
    \/ /\ l.pc = "roleCheck" /\ m = [l EXCEPT !.pc = "userSave"]
       /\ \E d \in Named(l.name) : roles[d].admin => l.named
    \/ l.pc = "userSave" /\ m = [l EXCEPT !.pc = "userInsert"]
    \/ /\ l.pc = "userSave"
       /\ m = [l EXCEPT !.pc = "userWrite", !.cols = Differ(l.urow, users[l.user])]
    \/ l.pc = "cascade" /\ m = [l EXCEPT !.pc = "roleSave", !.locked = Holders(l.name)]
    \/ l.pc = "roleCount" /\ m = [l EXCEPT !.pc = "roleDelete"] /\ Holders(l.name) = {}

LEMMA ContinueDoes ==
    ASSUME TypeOK, Base, NEW r \in Requests, Continue(r)
    PROVE  /\ UNCHANGED memo
           /\ \A q \in Requests : q # r => slot'[q] = slot[q]
           /\ GoesOn(slot[r], slot'[r])
           /\ slot[r].pc # "idle"
           /\ UNCHANGED roles \/ (\E d \in RoleIds : Saves(slot[r], d)) \/ Deletes(slot[r])
           /\ roles' = roles \/ slot[r].pc \in OnReady
<1>0. Filled(slot[r])
  BY DEF Base, SlotInv
<1>1. UNCHANGED memo /\ slot[r].pc # "idle"
  BY DEF Continue, UserInsert, RoleCheck, UserSelect, UserWrite, UserDelete, RoleInsert, RoleCascade,
     RoleSave, RoleCount, RoleDelete, At
<1>2. PICK l : Move(r, l) /\ GoesOn(slot[r], l)
  BY DEF Continue, UserInsert, RoleCheck, UserSelect, UserWrite, UserDelete, RoleInsert, RoleCascade,
     RoleSave, RoleCount, RoleDelete, Finish, GoesOn, At
<1>3. UNCHANGED roles \/ (\E d \in RoleIds : Saves(slot[r], d)) \/ Deletes(slot[r])
  <2>1. CASE RoleInsert(r)
    <3>1. nextRole \in RoleIds /\ nextRole >= nextRole
      BY <2>1, Constants DEF RoleInsert, TypeOK, RoleIds
    <3>2. roles[nextRole] = NoRow /\ slot[r].rrow \in RoleRows
      BY <1>0, <2>1, <3>1 DEF Base, TableInv, RoleInsert, At, Filled
    <3>3. UNCHANGED roles \/ Saves(slot[r], nextRole)
      BY <2>1, <3>1, <3>2 DEF RoleInsert, PutRole, Saves, At, TypeOK
    <3>4. QED
      BY <3>1, <3>3
  <2>2. CASE RoleSave(r)
    <3>1. slot[r].role \in RoleIds /\ slot[r].rrow \in RoleRows
      BY <1>0, <2>2 DEF RoleSave, At, Filled
    <3>2. UNCHANGED roles \/ Saves(slot[r], slot[r].role)
      BY <2>2, <3>1 DEF RoleSave, PutRole, Saves, At, TypeOK, tables
    <3>3. QED
      BY <3>1, <3>2
  <2>3. CASE RoleDelete(r)
    BY <2>3 DEF RoleDelete, Deletes, At, TypeOK
  <2>4. QED
    BY <2>1, <2>2, <2>3 DEF Continue, UserInsert, RoleCheck, UserSelect, UserWrite, UserDelete,
       RoleCascade, RoleCount, tables
<1>4. roles' = roles \/ slot[r].pc \in OnReady
  BY <1>3 DEF Saves, Deletes, OnReady
<1>5. QED
  BY <1>1, <1>2, <1>3, <1>4, OwnMove

\* The memos after a request is accepted or goes on.
LEMMA ArriveMemo ==
    ASSUME TypeOK, NEW i \in Instances, memo' = memo \/ memo' = Called(i)
    PROVE  /\ \A j \in Instances : \A d, n : MemoSays(memo[j], d, n)' => MemoSays(memo[j], d, n)
           /\ \A j \in Instances : \/ memo'[j] = memo[j]
                                   \/ memo[j].pc = "no" /\ memo'[j] = [memo[j] EXCEPT !.pc = "find"]
BY CalledSays, CalledMemo DEF MemoSays

-----------------------------------------------------------------------------
(* One server: nobody changes a role while it synchronises the defaults.    *)

\* Where one server synchronises, no handler is past ensureDefaults.
LEMMA Alone ==
    ASSUME TypeOK, Base, OneServer, NEW i \in Instances, memo[i].pc \in {"find", "save"}
    PROVE  \A r \in Requests : slot[r].pc \notin OnReady
<1>1. i \in load.instances
  BY DEF Base, MemoInv
<1>2. QED
  BY <1>1 DEF OneServer, Base, SlotInv, AtHome, OnReady

LEMMA FoundStep == TypeOK /\ Base /\ FoundInv /\ [Next]_vars => FoundInv'
<1> SUFFICES ASSUME TypeOK, Base, FoundInv, [Next]_vars PROVE FoundInv'
  OBVIOUS
<1>0. UNCHANGED load /\ load.requests \subseteq Requests /\ load.instances \subseteq Instances
  BY StepKinds
<1> SUFFICES ASSUME OneServer, NEW i \in Instances, NEW d \in RoleIds, NEW n \in Names,
                    MemoSays(memo[i], d, n)'
             PROVE  roles'[d].name = n
  BY <1>0 DEF FoundInv, OneServer, MemoSays
<1>1. CASE MemoSays(memo[i], d, n) /\ UNCHANGED roles
  BY <1>1 DEF FoundInv
<1>2. CASE Fades
  BY <1>1, <1>2, FadesSays DEF Fades, tables
<1>3. ASSUME NEW j \in load.instances, SyncFind(j) PROVE roles'[d].name = n
  <2>1. PICK e \in RoleIds \union {NoRole} :
             LET m == SeedList[memo[j].k] IN
             /\ IF e = NoRole THEN Named(m) = {} ELSE roles[e].name = m
             /\ Good(Seeded(m, e), m)
             /\ \A x \in Instances : x # j => memo'[x] = memo[x]
             /\ memo'[j].pc = "save" /\ memo'[j].found = e /\ memo'[j].copy = Seeded(m, e)
             /\ UNCHANGED <<tables, slot>>
    BY <1>0, <1>3, SyncFindMemo
  <2>2. CASE i = j
    BY <2>1, <2>2 DEF MemoSays, Good, RoleIds, NoRole, tables
  <2>3. CASE i # j
    BY <1>1, <2>1, <2>3 DEF MemoSays, tables
  <2>4. QED
    BY <2>2, <2>3
<1>4. ASSUME NEW j \in load.instances, NEW e \in RoleIds, SyncPut(j, e) PROVE FALSE
  <2>1. j \in Instances /\ \A x \in Instances : x # j => memo'[x] = memo[x]
    BY <1>0, <1>4, AdvanceMemo DEF SyncPut
  <2>2. i # j /\ memo[i].pc = "save"
    BY <1>4, <2>1, AdvanceMemo DEF MemoSays, SyncPut
  <2>3. i \in load.instances
    BY <2>2 DEF Base, MemoInv
  <2>4. QED
    BY <2>2, <2>3 DEF OneServer
<1>5. ASSUME NEW r \in load.requests, NEW j \in load.instances, Arrive(r, j) PROVE roles'[d].name = n
  <2>1. r \in Requests /\ j \in Instances /\ UNCHANGED tables /\ (memo' = memo \/ memo' = Called(j))
    BY <1>0, <1>5, ArriveDoes
  <2>2. QED
    BY <1>1, <2>1, ArriveMemo DEF tables
<1>6. ASSUME NEW r \in load.requests, Continue(r) PROVE roles'[d].name = n
  <2>1. UNCHANGED memo /\ (roles' = roles \/ slot[r].pc \in OnReady)
    BY <1>0, <1>6, ContinueDoes
  <2>2. MemoSays(memo[i], d, n)
    BY <2>1 DEF MemoSays
  <2>3. memo[i].pc \in {"find", "save"}
    BY <2>2 DEF MemoSays
  <2>4. QED
    BY <1>0, <1>1, <2>1, <2>2, <2>3, Alone
<1>7. QED
  BY <1>2, <1>3, <1>4, <1>5, <1>6, StepKinds

LEMMA FoundInit == Init => FoundInv
BY DEF Init, FoundInv, MemoSays, NoMemo

\* So a synchronisation writes into a row of the seed's name, or into none.
LEMMA PutOwn ==
    ASSUME TypeOK, Base, ClaimInv, FoundInv, NEW i \in Instances, NEW d \in RoleIds, SyncPut(i, d),
           OneServer \/ "updateRole" \notin load.ops
    PROVE  /\ roles[d].name \in {memo[i].copy.name, None}
           /\ \A e \in RoleIds : roles'[e] = IF e = d THEN memo[i].copy ELSE roles[e]
           /\ \A n \in Names : Named(n) # {} => Named(n)' # {}
<1>1. memo[i].pc = "save" /\ memo[i].copy.name \in Names
  BY DEF SyncPut, Good, RoleRows
<1>2. roles[d].name \in Names \union {None}
  BY DEF TypeOK, RoleRows, NoRow
<1>3. ASSUME memo[i].found = NoRole PROVE roles[d].name \in {memo[i].copy.name, None}
  <2>1. d = nextRole /\ d >= nextRole
    BY <1>3, Constants DEF SyncPut, TypeOK
  <2>2. QED
    BY <2>1 DEF Base, TableInv, NoRow
<1>4. ASSUME memo[i].found # NoRole PROVE roles[d].name \in {memo[i].copy.name, None}
  <2>1. MemoSays(memo[i], d, memo[i].copy.name)
    BY <1>1, <1>4 DEF SyncPut, MemoSays
  <2>2. CASE OneServer
    BY <1>1, <2>1, <2>2 DEF FoundInv
  <2>3. CASE "updateRole" \notin load.ops
    <3>1. Says(d, memo[i].copy.name) /\ Says(d, roles[d].name)
      BY <2>1 DEF Says
    <3>2. QED
      BY <1>1, <1>2, <2>3, <3>1 DEF ClaimInv
  <2>4. QED
    BY <2>2, <2>3
<1>5. roles[d].name \in {memo[i].copy.name, None}
  BY <1>3, <1>4
<1>6. \A e \in RoleIds : roles'[e] = IF e = d THEN memo[i].copy ELSE roles[e]
  BY DEF SyncPut, PutRole, TypeOK
<1>7. \A n \in Names : Named(n) # {} => Named(n)' # {}
  BY <1>5, <1>6, Constants DEF Named
<1>8. QED
  BY <1>5, <1>6, <1>7

\* And a handler that goes by a name finds it, or an empty row.
LEMMA OwnName ==
    ASSUME TypeOK, ClaimInv, "updateRole" \notin load.ops, NEW r \in Requests,
           NEW d \in RoleIds, NEW n \in Names, SlotSays(slot[r], d, n)
    PROVE  roles[d].name \in {n, None}
<1>1. roles[d].name \in Names \union {None}
  BY DEF TypeOK, RoleRows, NoRow
<1>2. Says(d, n) /\ Says(d, roles[d].name)
  BY DEF Says
<1>3. QED
  BY <1>1, <1>2 DEF ClaimInv

-----------------------------------------------------------------------------
(* The seeds a synchronisation has behind it.                               *)

LEMMA BehindMoves ==
    ASSUME TypeOK, Base, NEW i \in Instances,
           \/ memo'[i] = memo[i] \/ memo'[i] = NoMemo
           \/ memo[i].pc = "no" /\ memo'[i] = [memo[i] EXCEPT !.pc = "find"]
    PROVE  Behind(i)' \subseteq Behind(i) /\ (memo'[i].pc # "done" => memo[i].pc # "done" \/ Behind(i)' = {})
<1>1. CASE memo'[i] = memo[i]
  BY <1>1 DEF Behind
<1>2. CASE memo'[i] = NoMemo
  BY <1>2 DEF Behind, NoMemo
<1>3. CASE memo[i].pc = "no" /\ memo'[i] = [memo[i] EXCEPT !.pc = "find"]
  <2>1. memo'[i].k = memo[i].k /\ memo'[i].pc = "find"
    BY <1>3 DEF TypeOK, Memos
  <2>2. QED
    BY <1>3, <2>1 DEF Behind
<1>4. QED
  BY <1>1, <1>2, <1>3

LEMMA BehindSeeds ==
    ASSUME TypeOK, NEW i \in Instances
    PROVE  Behind(i) \subseteq Seeds /\ Seeds \subseteq Names
<1>1. memo[i].k \in 1 .. Len(SeedList) /\ Len(SeedList) \in Nat
  BY SeedTyped DEF TypeOK, Memos
<1>2. QED
  BY <1>1, SeedTyped DEF Behind

LEMMA BehindPut ==
    ASSUME TypeOK, NEW i \in Instances, NEW d, SyncPut(i, d)
    PROVE  /\ memo[i].copy.name = SeedList[memo[i].k] /\ SeedList[memo[i].k] \in Seeds
           /\ Behind(i)' \subseteq Behind(i) \union {SeedList[memo[i].k]}
           /\ \A j \in Instances : j # i => memo'[j] = memo[j]
<1>1. /\ \A j \in Instances : j # i => memo'[j] = memo[j]
      /\ memo'[i].pc \in {"find", "done"}
      /\ memo'[i].pc = "find" => memo'[i].k = memo[i].k + 1
      /\ memo'[i].pc = "done" => memo[i].k = Len(SeedList)
  BY AdvanceMemo DEF SyncPut
<1>2. memo[i].k \in 1 .. Len(SeedList) /\ Len(SeedList) \in Nat /\ memo[i].pc = "save"
  BY SeedTyped DEF TypeOK, Memos, SyncPut
<1>3. memo[i].copy.name = SeedList[memo[i].k] /\ SeedList[memo[i].k] \in Seeds
  BY <1>2, SeedTyped DEF SyncPut, Good
<1>4. CASE memo'[i].pc = "done"
  <2>1. \A j \in 1 .. Len(SeedList) : j = memo[i].k \/ j \in 1 .. memo[i].k - 1
    BY <1>1, <1>2, <1>4
  <2>2. QED
    BY <1>1, <1>2, <1>3, <1>4, <2>1 DEF Behind, Seeds
<1>5. CASE memo'[i].pc = "find"
  <2>1. 1 .. memo'[i].k - 1 = 1 .. memo[i].k
    BY <1>1, <1>2, <1>5
  <2>2. \A j \in 1 .. memo[i].k : j = memo[i].k \/ j \in 1 .. memo[i].k - 1
    BY <1>2
  <2>3. QED
    BY <1>1, <1>2, <1>3, <1>5, <2>1, <2>2 DEF Behind
<1>6. QED
  BY <1>1, <1>3, <1>4, <1>5

\* What a handler writes is written over its own name, or where no name was.
LEMMA SavesOwn ==
    ASSUME TypeOK, ClaimInv, "updateRole" \notin load.ops, NEW r \in Requests, NEW d \in RoleIds,
           Saves(slot[r], d)
    PROVE  roles[d].name \in {slot[r].rrow.name, None}
<1>1. slot[r].rrow.name \in Names
  BY DEF Saves, RoleRows
<1>2. CASE slot[r].pc = "roleInsert"
  BY <1>2 DEF Saves, NoRow
<1>3. CASE slot[r].pc = "roleSave" /\ d = slot[r].role
  BY <1>1, <1>3, OwnName DEF SlotSays
<1>4. QED
  BY <1>2, <1>3 DEF Saves

LEMMA DeletesOwn ==
    ASSUME TypeOK, Base, ClaimInv, "updateRole" \notin load.ops, NEW r \in Requests, Deletes(slot[r])
    PROVE  /\ slot[r].role \in RoleIds /\ slot[r].name \in Names
           /\ roles[slot[r].role].name \in {slot[r].name, None}
<1>1. slot[r].role \in RoleIds /\ slot[r].name \in Names
  BY DEF Base, SlotInv, Filled, Deletes
<1>2. QED
  BY <1>1, OwnName DEF SlotSays, Deletes

-----------------------------------------------------------------------------
(* The roles of the seeds.                                                  *)

\* A handler that is on its way to write or delete a role.
Spares(l) ==
    /\ l.pc = "roleSave" => IsSeedRow(l.rrow)
    /\ l.pc = "roleInsert" => l.rrow.name \notin Seeds
    /\ l.pc \in {"roleCount", "roleDelete"} => l.name \notin Seeds

LEMMA FlagParts ==
    FlagInv <=> ("updateRole" \notin load.ops =>
                    /\ \A d \in RoleIds : IsSeedRow(roles[d])
                    /\ \A r \in Requests : Spares(slot[r])
                    /\ \A i \in Instances : \A n \in Behind(i) : Named(n) # {})
BY DEF FlagInv, Spares

LEMMA ArriveFlags ==
    ASSUME TypeOK, Base, Base', FlagInv, UNCHANGED load, NEW r \in Requests, NEW i \in Instances,
           Arrive(r, i)
    PROVE  FlagInv'
<1> SUFFICES ASSUME "updateRole" \notin load.ops
             PROVE  /\ \A d \in RoleIds : IsSeedRow(roles[d])'
                    /\ \A q \in Requests : Spares(slot[q])'
                    /\ \A j \in Instances : \A n \in Behind(j)' : Named(n)' # {}
  BY DEF FlagInv, Spares
<1>1. /\ \A d \in RoleIds : IsSeedRow(roles[d])
      /\ \A q \in Requests : Spares(slot[q])
      /\ \A j \in Instances : \A n \in Behind(j) : Named(n) # {}
  BY FlagParts
<1>2. UNCHANGED tables /\ (memo' = memo \/ memo' = Called(i)) /\ \E l : Begins(l, i) /\ Move(r, l)
  BY ArriveDoes
<1>3. PICK l : Begins(l, i) /\ Move(r, l)
  BY <1>2
<1>4. \A q \in Requests : slot'[q] = IF q = r THEN l ELSE slot[q]
  BY <1>3, OwnMove
<1>5. l.pc \in {"roleSave", "roleCount"} => l.role \in RoleIds
  <2>1. Filled(slot[r])'
    BY DEF Base, SlotInv
  <2>2. QED
    BY <1>4, <2>1 DEF Filled
<1>6. Spares(l)
  <2>1. CASE l.pc = "roleInsert" /\ Ready(i) /\ Named(l.rrow.name) = {}
    BY <1>1, <2>1 DEF Ready, Behind, Spares
  <2>2. CASE l.pc = "roleSave" /\ \E perms : l.rrow = [roles[l.role] EXCEPT !.perms = perms]
    <3>1. roles[l.role] \in RoleRows \union {NoRow} /\ IsSeedRow(roles[l.role])
      BY <1>1, <1>5, <2>2 DEF TypeOK
    <3>2. QED
      BY <2>2, <3>1 DEF Spares, IsSeedRow, RoleRows, NoRow
  <2>3. CASE l.pc = "roleCount" /\ ~roles[l.role].system /\ l.name = roles[l.role].name
    BY <1>1, <1>5, <2>3 DEF Spares, IsSeedRow
  <2>4. CASE l.pc \in {"userInsert", "roleCheck", "userSave", "userDelete"}
    BY <2>4 DEF Spares
  <2>5. QED
    BY <1>3, <2>1, <2>2, <2>3, <2>4 DEF Begins, Edited
<1>7. \A j \in Instances : Behind(j)' \subseteq Behind(j)
  BY <1>2, ArriveMemo, BehindMoves
<1>8. QED
  BY <1>1, <1>2, <1>4, <1>6, <1>7 DEF tables, IsSeedRow, Spares, Named

LEMMA ContinueFlags ==
    ASSUME TypeOK, Base, ClaimInv, FlagInv, UNCHANGED load, NEW r \in Requests, Continue(r)
    PROVE  FlagInv'
<1> SUFFICES ASSUME "updateRole" \notin load.ops
             PROVE  /\ \A d \in RoleIds : IsSeedRow(roles[d])'
                    /\ \A q \in Requests : Spares(slot[q])'
                    /\ \A j \in Instances : \A n \in Behind(j)' : Named(n)' # {}
  BY DEF FlagInv, Spares
<1>1. /\ \A d \in RoleIds : IsSeedRow(roles[d])
      /\ \A q \in Requests : Spares(slot[q])
      /\ \A j \in Instances : \A n \in Behind(j) : Named(n) # {}
  BY FlagParts
<1>2. /\ UNCHANGED memo
      /\ \A q \in Requests : q # r => slot'[q] = slot[q]
      /\ GoesOn(slot[r], slot'[r])
      /\ UNCHANGED roles \/ (\E d \in RoleIds : Saves(slot[r], d)) \/ Deletes(slot[r])
  BY ContinueDoes
<1>3. Spares(slot'[r])
  <2>1. slot[r] \in Locals /\ slot[r].pc # "cascade"
    BY DEF TypeOK, Base, SlotInv, Filled
  <2>2. CASE slot[r].pc = "userSave"
    <3>1. slot'[r].pc \in {"idle", "userInsert", "userWrite"}
      <4>1. \/ slot'[r] = Idle
            \/ slot'[r] = [slot[r] EXCEPT !.pc = "userInsert"]
            \/ slot'[r] = [slot[r] EXCEPT !.pc = "userWrite",
                                          !.cols = Differ(slot[r].urow, users[slot[r].user])]
        BY <1>2, <2>2 DEF GoesOn
      <4>2. Idle.pc = "idle" /\ [slot[r] EXCEPT !.pc = "userInsert"].pc = "userInsert"
        BY <2>1 DEF Idle, Locals
      <4>3. \A cols : [slot[r] EXCEPT !.pc = "userWrite", !.cols = cols].pc = "userWrite"
        BY <2>1 DEF Locals
      <4>4. QED
        BY <4>1, <4>2, <4>3
    <3>2. QED
      BY <3>1 DEF Spares
  <2>3. CASE slot[r].pc # "userSave"
    BY <1>1, <1>2, <2>1, <2>3 DEF GoesOn, Spares, Idle, Locals
  <2>4. QED
    BY <2>2, <2>3
<1>4. \A q \in Requests : Spares(slot[q])'
  BY <1>1, <1>2, <1>3 DEF Spares, IsSeedRow
<1>5. \A j \in Instances : Behind(j)' = Behind(j) /\ Behind(j) \subseteq Names \intersect Seeds
  BY <1>2, BehindSeeds DEF Behind
<1>6. CASE UNCHANGED roles
  BY <1>1, <1>4, <1>5, <1>6 DEF IsSeedRow, Named
<1>7. ASSUME NEW d \in RoleIds, Saves(slot[r], d)
      PROVE  /\ \A e \in RoleIds : IsSeedRow(roles[e])'
             /\ \A n \in Names : Named(n) # {} => Named(n)' # {}
  <2>1. roles[d].name \in {slot[r].rrow.name, None}
    BY <1>7, SavesOwn
  <2>2. \A e \in RoleIds : roles'[e] = IF e = d THEN slot[r].rrow ELSE roles[e]
    BY <1>7 DEF Saves
  <2>3. IsSeedRow(slot[r].rrow)
    BY <1>1, <1>7 DEF Saves, Spares, IsSeedRow
  <2>4. \A n \in Names : Named(n) # {} => Named(n)' # {}
    BY <2>1, <2>2, Constants DEF Named
  <2>5. QED
    BY <1>1, <2>2, <2>3, <2>4 DEF IsSeedRow
<1>8. ASSUME Deletes(slot[r])
      PROVE  /\ \A e \in RoleIds : IsSeedRow(roles[e])'
             /\ \A n \in Names \intersect Seeds : Named(n) # {} => Named(n)' # {}
  <2>1. /\ slot[r].role \in RoleIds
        /\ roles[slot[r].role].name \in {slot[r].name, None}
        /\ slot[r].name \notin Seeds
        /\ \A e \in RoleIds : roles'[e] = IF e = slot[r].role THEN NoRow ELSE roles[e]
    BY <1>1, <1>8, DeletesOwn DEF Deletes, Spares
  <2>2. None \notin Seeds
    BY SeedTyped, Constants
  <2>3. IsSeedRow(NoRow)
    BY <2>2 DEF IsSeedRow, NoRow
  <2>4. \A n \in Seeds : Named(n) # {} => Named(n)' # {}
    BY <2>1, <2>2 DEF Named
  <2>5. QED
    BY <1>1, <2>1, <2>3, <2>4 DEF IsSeedRow
<1>9. QED
  BY <1>1, <1>2, <1>4, <1>5, <1>6, <1>7, <1>8

LEMMA FlagStep == TypeOK /\ Base /\ Base' /\ ClaimInv /\ FoundInv /\ FlagInv /\ [Next]_vars => FlagInv'
<1> SUFFICES ASSUME TypeOK, Base, Base', ClaimInv, FoundInv, FlagInv, [Next]_vars PROVE FlagInv'
  OBVIOUS
<1>0. UNCHANGED load /\ load.requests \subseteq Requests /\ load.instances \subseteq Instances
  BY StepKinds
<1>1. ASSUME "updateRole" \notin load.ops
      PROVE  /\ \A d \in RoleIds : IsSeedRow(roles[d])
             /\ \A q \in Requests : Spares(slot[q])
             /\ \A j \in Instances : \A n \in Behind(j) : Named(n) # {}
  BY <1>1, FlagParts
<1>2. CASE Fades
  <2>1. \A j \in Instances : Behind(j)' \subseteq Behind(j)
    BY <1>2, BehindMoves DEF Fades
  <2>2. \A q \in Requests : Spares(slot[q]) => Spares(slot[q])'
    BY <1>2 DEF Fades, Spares, IsSeedRow, Idle
  <2>3. QED
    BY <1>0, <1>1, <1>2, <2>1, <2>2 DEF Fades, FlagInv, tables, Named, IsSeedRow, Spares
<1>3. ASSUME NEW i \in load.instances, SyncFind(i) PROVE FlagInv'
  <2>1. /\ \A j \in Instances : j # i => memo'[j] = memo[j]
        /\ memo[i].pc = "find" /\ memo'[i].pc = "save" /\ memo'[i].k = memo[i].k
        /\ UNCHANGED <<tables, slot>>
    BY <1>0, <1>3, SyncFindMemo
  <2>2. \A j \in Instances : Behind(j)' = Behind(j)
    BY <2>1 DEF Behind
  <2>3. QED
    BY <1>0, <1>1, <2>1, <2>2 DEF FlagInv, tables, Named, IsSeedRow, Spares
<1>4. ASSUME NEW i \in load.instances, NEW d \in RoleIds, SyncPut(i, d), "updateRole" \notin load.ops
      PROVE  /\ \A e \in RoleIds : IsSeedRow(roles[e])'
             /\ \A q \in Requests : Spares(slot[q])'
             /\ \A j \in Instances : \A n \in Behind(j)' : Named(n)' # {}
  <2>1. i \in Instances
    BY <1>0
  <2>2. /\ \A e \in RoleIds : roles'[e] = IF e = d THEN memo[i].copy ELSE roles[e]
        /\ \A n \in Names : Named(n) # {} => Named(n)' # {}
    BY <1>4, <2>1, PutOwn
  <2>3. /\ memo[i].copy.name = SeedList[memo[i].k]
        /\ Behind(i)' \subseteq Behind(i) \union {SeedList[memo[i].k]}
        /\ \A j \in Instances : j # i => memo'[j] = memo[j]
    BY <1>4, <2>1, BehindPut
  <2>4. IsSeedRow(memo[i].copy)
    BY <1>4, <2>3 DEF SyncPut, Good, IsSeedRow
  <2>5. \A n : n = memo[i].copy.name => d \in Named(n)'
    BY <2>2 DEF Named
  <2>6. \A j \in Instances : Behind(j)' \subseteq Behind(j) \union {memo[i].copy.name}
    BY <2>3 DEF Behind
  <2>7. \A j \in Instances : \A n \in Behind(j)' : Named(n)' # {}
    BY <1>1, <1>4, <2>2, <2>5, <2>6, BehindSeeds
  <2>8. QED
    BY <1>1, <1>4, <2>2, <2>4, <2>7 DEF SyncPut, IsSeedRow, Spares
<1>5. ASSUME NEW i \in load.instances, NEW d \in RoleIds, SyncPut(i, d) PROVE FlagInv'
  BY <1>0, <1>4, <1>5 DEF FlagInv, Spares
<1>6. QED
  BY <1>0, <1>2, <1>3, <1>5, ArriveFlags, ContinueFlags, StepKinds

LEMMA FlagInit == Init => FlagInv
<1> SUFFICES ASSUME Init PROVE FlagInv
  OBVIOUS
<1>1. None \notin Seeds
  BY SeedTyped, Constants
<1>2. \A i \in Instances : Behind(i) = {}
  BY DEF Init, Behind, NoMemo
<1>3. QED
  BY <1>1, <1>2 DEF Init, FlagInv, IsSeedRow, NoRow, Idle

-----------------------------------------------------------------------------
(* What a synchronisation has restored stays until it is done.              *)

\* A row of the seed is in the table.
HasSeed(n) == \E d \in RoleIds : Restored(n, d)

\* A row written over another leaves every seed restored, if it is not written
\* over one, or is as syncDefaults writes it.
LEMMA WriteKeepsSeed ==
    ASSUME NEW n \in Seeds, HasSeed(n), NEW d, NEW row,
           \A e \in RoleIds : roles'[e] = IF e = d THEN row ELSE roles[e],
           d \in RoleIds => roles[d].name # n \/ Good(row, n)
    PROVE  HasSeed(n)'
BY DEF HasSeed, Restored, Good

LEMMA SeedKept ==
    ASSUME TypeOK, Base, ClaimInv, FoundInv, FlagInv, [Next]_vars, SeedsUndisturbed,
           NEW i \in Instances, memo[i].pc \in {"find", "save"},
           NEW n \in Seeds, HasSeed(n)
    PROVE  HasSeed(n)'
<1>0. UNCHANGED load /\ load.requests \subseteq Requests /\ load.instances \subseteq Instances
  BY StepKinds
<1>1. n \in Names /\ n # None
  BY SeedTyped, Constants
<1>2. CASE UNCHANGED roles
  BY <1>2 DEF HasSeed, Restored
<1>3. ASSUME NEW j \in load.instances, NEW d \in RoleIds, SyncPut(j, d) PROVE HasSeed(n)'
  <2>1. OneServer \/ "updateRole" \notin load.ops
    BY DEF SeedsUndisturbed
  <2>2. /\ roles[d].name \in {memo[j].copy.name, None}
        /\ \A e \in RoleIds : roles'[e] = IF e = d THEN memo[j].copy ELSE roles[e]
    BY <1>0, <1>3, <2>1, PutOwn
  <2>3. memo[j].copy.name = SeedList[memo[j].k] /\ Good(memo[j].copy, SeedList[memo[j].k])
    BY <1>3 DEF SyncPut, Good
  <2>4. roles[d].name # n \/ Good(memo[j].copy, n)
    BY <1>1, <2>2, <2>3
  <2>5. QED
    BY <2>2, <2>4, WriteKeepsSeed
<1>4. ASSUME NEW r \in load.requests, Continue(r) PROVE HasSeed(n)'
  <2>1. /\ UNCHANGED roles \/ (\E d \in RoleIds : Saves(slot[r], d)) \/ Deletes(slot[r])
        /\ roles' = roles \/ slot[r].pc \in OnReady
    BY <1>0, <1>4, ContinueDoes
  <2>2. CASE OneServer
    BY <1>0, <1>2, <2>1, <2>2, Alone
  <2>3. CASE ~OneServer
    <3>1. load.ops \intersect {"updateRole", "replacePermissions"} = {}
      BY <2>3 DEF SeedsUndisturbed
    <3>2. slot[r].pc # "roleSave" /\ Spares(slot[r])
      BY <1>0, <3>1, FlagParts DEF Base, SlotInv, Filled
    <3>3. ASSUME NEW d \in RoleIds, Saves(slot[r], d) PROVE HasSeed(n)'
      <4>1. roles[d].name = None /\ \A e \in RoleIds : roles'[e] = IF e = d THEN slot[r].rrow ELSE roles[e]
        BY <3>2, <3>3 DEF Saves, NoRow
      <4>2. QED
        BY <1>1, <4>1, WriteKeepsSeed
    <3>4. ASSUME Deletes(slot[r]) PROVE HasSeed(n)'
      <4>1. roles[slot[r].role].name \in {slot[r].name, None} /\ slot[r].name # n
        BY <1>0, <3>1, <3>2, <3>4, DeletesOwn DEF Spares, Deletes
      <4>2. QED
        BY <1>1, <3>4, <4>1, WriteKeepsSeed DEF Deletes
    <3>5. QED
      BY <1>2, <2>1, <3>3, <3>4
  <2>4. QED
    BY <2>2, <2>3
<1>5. ASSUME NEW r \in load.requests, NEW j \in load.instances, Arrive(r, j) PROVE UNCHANGED roles
  BY <1>0, <1>5, ArriveDoes DEF tables
<1>6. ASSUME Fades \/ \E j \in load.instances : SyncFind(j) PROVE UNCHANGED roles
  BY <1>6 DEF Fades, SyncFind, tables
<1>7. QED
  BY <1>2, <1>3, <1>4, <1>5, <1>6, StepKinds

\* The seed that is saved is restored.
LEMMA PutSeed ==
    ASSUME TypeOK, NEW i \in Instances, NEW d \in RoleIds, SyncPut(i, d),
           NEW n, n = SeedList[memo[i].k]
    PROVE  HasSeed(n)'
<1>1. \A e \in RoleIds : roles'[e] = IF e = d THEN memo[i].copy ELSE roles[e]
  BY DEF SyncPut, PutRole, TypeOK
<1>2. Restored(n, d)'
  BY <1>1 DEF SyncPut, Good, Restored
<1>3. QED
  BY <1>2 DEF HasSeed

\* A synchronisation that has its seeds behind it restored has them after a step,
\* and one more if it has saved one.
LEMMA BehindStep ==
    ASSUME TypeOK, Base, ClaimInv, FoundInv, FlagInv, SyncInv, [Next]_vars, SeedsUndisturbed,
           NEW i \in Instances, memo[i].pc \in {"find", "save"}
    PROVE  \/ \A n \in Behind(i)' : HasSeed(n)'
           \/ memo'[i].pc = "no"
<1>0. UNCHANGED load /\ load.requests \subseteq Requests /\ load.instances \subseteq Instances
  BY StepKinds
<1>1. \A n \in Behind(i) : n \in Seeds /\ HasSeed(n)
  BY BehindSeeds DEF SyncInv, HasSeed
<1>2. \A n \in Behind(i) : HasSeed(n)'
  BY <1>1, SeedKept
<1>3. CASE memo'[i] = memo[i] \/ memo'[i] = NoMemo
  BY <1>2, <1>3 DEF Behind, NoMemo
<1>4. ASSUME NEW j \in load.instances, SyncFind(j) PROVE Behind(i)' = Behind(i)
  <2>1. /\ \A x \in Instances : x # j => memo'[x] = memo[x]
        /\ memo[j].pc = "find" /\ memo'[j].pc = "save" /\ memo'[j].k = memo[j].k
    BY <1>0, <1>4, SyncFindMemo
  <2>2. QED
    BY <2>1 DEF Behind
<1>5. ASSUME NEW j \in load.instances, NEW d \in RoleIds, SyncPut(j, d)
      PROVE  \A n \in Behind(i)' : HasSeed(n)'
  <2>1. /\ Behind(j)' \subseteq Behind(j) \union {SeedList[memo[j].k]}
        /\ \A x \in Instances : x # j => memo'[x] = memo[x]
    BY <1>0, <1>5, BehindPut
  <2>2. \A n : n = SeedList[memo[j].k] => HasSeed(n)'
    BY <1>0, <1>5, PutSeed
  <2>3. QED
    BY <1>2, <2>1, <2>2 DEF Behind
<1>6. ASSUME NEW r \in load.requests, NEW j \in load.instances, Arrive(r, j) PROVE memo'[i] = memo[i]
  BY <1>0, <1>6, ArriveDoes, ArriveMemo
<1>7. ASSUME NEW r \in load.requests, Continue(r) PROVE memo'[i] = memo[i]
  BY <1>0, <1>7, ContinueDoes
<1>8. ASSUME Fades PROVE memo'[i] = memo[i] \/ memo'[i] = NoMemo
  BY <1>8 DEF Fades
<1>9. QED
  BY <1>2, <1>3, <1>4, <1>5, <1>6, <1>7, <1>8, StepKinds

\* The memo of an instance that is not synchronising.
LEMMA MemoMoves ==
    ASSUME TypeOK, Base, [Next]_vars, NEW i \in Instances, memo[i].pc \in {"no", "done"}
    PROVE  \/ memo'[i] = memo[i] \/ memo'[i] = NoMemo
           \/ memo[i].pc = "no" /\ memo'[i] = [memo[i] EXCEPT !.pc = "find"]
<1>0. UNCHANGED load /\ load.requests \subseteq Requests /\ load.instances \subseteq Instances
  BY StepKinds
<1>1. ASSUME NEW j \in load.instances, SyncFind(j) PROVE memo'[i] = memo[i]
  <2>1. memo[j].pc = "find" /\ \A x \in Instances : x # j => memo'[x] = memo[x]
    BY <1>0, <1>1, SyncFindMemo
  <2>2. QED
    BY <2>1
<1>2. ASSUME NEW j \in load.instances, NEW d \in RoleIds, SyncPut(j, d) PROVE memo'[i] = memo[i]
  <2>1. memo[j].pc = "save" /\ \A x \in Instances : x # j => memo'[x] = memo[x]
    BY <1>0, <1>2, BehindPut DEF SyncPut
  <2>2. QED
    BY <2>1
<1>3. ASSUME NEW r \in load.requests, NEW j \in load.instances, Arrive(r, j)
      PROVE  memo'[i] = memo[i] \/ (memo[i].pc = "no" /\ memo'[i] = [memo[i] EXCEPT !.pc = "find"])
  <2>1. memo' = memo \/ memo' = Called(j)
    BY <1>0, <1>3, ArriveDoes
  <2>2. QED
    BY <1>0, <2>1, ArriveMemo
<1>4. ASSUME NEW r \in load.requests, Continue(r) PROVE memo'[i] = memo[i]
  BY <1>0, <1>4, ContinueDoes
<1>5. QED
  BY <1>1, <1>2, <1>3, <1>4, StepKinds DEF Fades

LEMMA SyncStep ==
    TypeOK /\ Base /\ Base' /\ ClaimInv /\ FoundInv /\ FlagInv /\ SyncInv /\ [Next]_vars => SyncInv'
<1> SUFFICES ASSUME TypeOK, Base, Base', ClaimInv, FoundInv, FlagInv, SyncInv, [Next]_vars PROVE SyncInv'
  OBVIOUS
<1>0. UNCHANGED load
  BY StepKinds
<1> SUFFICES ASSUME SeedsUndisturbed, NEW i \in Instances, memo'[i].pc # "done"
             PROVE  \A n \in Behind(i)' : HasSeed(n)'
  BY <1>0 DEF SyncInv, SeedsUndisturbed, OneServer, HasSeed
<1>1. memo'[i].pc = "no" => Behind(i)' = {}
  BY DEF Base, MemoInv, Behind
<1>2. CASE memo[i].pc \in {"find", "save"}
  BY <1>1, <1>2, BehindStep
<1>3. CASE memo[i].pc \in {"no", "done"}
  <2>1. Behind(i)' \subseteq Behind(i) /\ (memo[i].pc # "done" \/ Behind(i)' = {})
    BY <1>3, BehindMoves, MemoMoves
  <2>2. memo[i].pc = "no" => Behind(i) = {}
    BY DEF Base, MemoInv, Behind
  <2>3. QED
    BY <1>3, <2>1, <2>2
<1>4. QED
  BY <1>2, <1>3 DEF TypeOK, Memos

LEMMA SyncInit == Init => SyncInv
BY DEF Init, SyncInv, Behind, NoMemo

SeedInv == TypeOK /\ Base /\ ClaimInv /\ FoundInv /\ FlagInv /\ SyncInv

LEMMA SeedInvHolds == Spec => []SeedInv
<1>1. Init => SeedInv
  BY InitTyped, BaseInit, ClaimInit, FoundInit, FlagInit, SyncInit DEF SeedInv
<1>2. SeedInv /\ [Next]_vars => SeedInv'
  BY StepTyped, BaseStep, ClaimStep, FoundStep, FlagStep, SyncStep DEF SeedInv
<1>3. QED
  BY <1>1, <1>2, PTL DEF Spec

\* Whatever instances synchronise at the same time, die or are restarted, one that is
\* done leaves every seed a system role with the flag and, for Admin, the permissions
\* of its seed, and no role of a seed with permissions of older catalogues.
THEOREM SeedsCorrect == Spec => SeedsRestored
<1>1. ASSUME SeedInv, [Next]_vars, NEW i \in Instances, SeedsUndisturbed, memo[i].pc = "save",
             memo'[i].pc = "done"
      PROVE  \A n \in Seeds : \E d \in RoleIds : Restored(n, d)'
  <2>1. Behind(i)' = Seeds
    BY <1>1 DEF Behind
  <2>2. \A n \in Seeds : HasSeed(n)'
    BY <1>1, <2>1, BehindStep DEF SeedInv
  <2>3. QED
    BY <2>2 DEF HasSeed
<1>2. SeedInv /\ [Next]_vars =>
          [\A i \in Instances : SeedsUndisturbed /\ memo[i].pc = "save" /\ memo'[i].pc = "done" =>
               \A n \in Seeds : \E d \in RoleIds : Restored(n, d)']_vars
  BY <1>1
<1>3. QED
  BY <1>2, SeedInvHolds, PTL DEF Spec, SeedsRestored

-----------------------------------------------------------------------------
(* The role of a user exists.                                               *)

\* The columns that a handler writes.
Written(l, u) ==
    /\ IsUser(u) /\ users'[u].is = users[u].is
    /\ users'[u].role = IF "role" \in l.cols THEN l.urow.role ELSE users[u].role
    /\ users'[u].username = IF "username" \in l.cols THEN l.urow.username ELSE users[u].username

\* What a handler does to the users.
LEMMA ContinueUsers ==
    ASSUME TypeOK, Base, NEW r \in Requests, Continue(r)
    PROVE  \/ UNCHANGED users /\ (slot[r].pc = "roleSave" => UNCHANGED roles)
           \/ /\ slot[r].pc = "userInsert" /\ UNCHANGED roles
              /\ \A u \in Users : \/ users'[u] = users[u]
                                  \/ u = slot[r].user /\ users'[u] = slot[r].urow
           \/ /\ slot[r].pc = "userWrite" /\ UNCHANGED roles
              /\ \A u \in Users : users'[u] = users[u] \/ (u = slot[r].user /\ Written(slot[r], u))
           \/ /\ slot[r].pc = "userDelete" /\ UNCHANGED roles
              /\ \A u \in Users : \/ users'[u] = users[u]
                                  \/ u = slot[r].user /\ users'[u].is = "deleted"
           \/ /\ slot[r].pc = "roleSave" /\ slot[r].role \in RoleIds
              /\ Saves(slot[r], slot[r].role)
              /\ \A u \in Users : users'[u] = IF u \in slot[r].locked
                                              THEN [users[u] EXCEPT !.role = slot[r].rrow.name]
                                              ELSE users[u]
<1>1. CASE UserInsert(r)
  BY <1>1 DEF UserInsert, At, TypeOK
<1>6. CASE UserWrite(r)
  <2>1. ASSUME NEW u \in Users
        PROVE  users'[u] = users[u] \/ (u = slot[r].user /\ Written(slot[r], u))
    <3>1. users[u] \in UserRows /\ (u # slot[r].user => users'[u] = users[u])
      BY <1>6 DEF UserWrite, TypeOK
    <3>2. CASE u = slot[r].user /\ IsUser(u)
      <4>1. users' = [users EXCEPT
                        ![u].role = IF "role" \in slot[r].cols THEN slot[r].urow.role ELSE @,
                        ![u].username = IF "username" \in slot[r].cols
                                        THEN slot[r].urow.username ELSE @]
        BY <1>6, <3>2 DEF UserWrite
      <4>2. QED
        BY <3>1, <3>2, <4>1 DEF TypeOK, UserRows, Written
    <3>3. CASE u = slot[r].user /\ ~IsUser(u)
      BY <1>6, <3>3 DEF UserWrite
    <3>4. QED
      BY <3>1, <3>2, <3>3
  <2>2. QED
    BY <1>6, <2>1 DEF UserWrite, At
<1>2. CASE UserDelete(r)
  BY <1>2 DEF UserDelete, At, TypeOK, NoUser
<1>3. CASE RoleSave(r)
  <2>1. slot[r].role \in RoleIds /\ slot[r].rrow \in RoleRows
    BY <1>3 DEF RoleSave, At, Base, SlotInv, Filled
  <2>2. CASE UNCHANGED tables
    BY <2>2 DEF tables
  <2>3. CASE /\ Allowed(slot[r].role, slot[r].rrow) /\ PutRole(slot[r].role, slot[r].rrow)
             /\ users' = [u \in Users |-> IF u \in slot[r].locked
                                          THEN [users[u] EXCEPT !.role = slot[r].rrow.name]
                                          ELSE users[u]]
    <3>1. Saves(slot[r], slot[r].role)
      BY <1>3, <2>1, <2>3 DEF RoleSave, At, Saves, PutRole, TypeOK
    <3>2. QED
      BY <1>3, <2>1, <2>3, <3>1 DEF RoleSave, At
  <2>4. QED
    BY <1>3, <2>2, <2>3 DEF RoleSave
<1>4. CASE \/ RoleCheck(r) \/ UserSelect(r) \/ RoleInsert(r) \/ RoleCascade(r) \/ RoleCount(r)
           \/ RoleDelete(r)
  BY <1>4 DEF RoleCheck, UserSelect, RoleInsert, RoleCascade, RoleCount, RoleDelete, At, tables
<1>5. QED
  BY <1>1, <1>2, <1>3, <1>4, <1>6 DEF Continue

\* No role loses its name.
NamesStay == \A d \in RoleIds, n \in Names : roles[d].name = n => roles'[d].name = n

LEMMA ReliesStay ==
    ASSUME NEW l, Filled(l), Relies(l), UNCHANGED load, NamesStay,
           UNCHANGED users \/ load.ops \intersect {"updateRole", "removeRole"} = {}
    PROVE  Relies(l)'
<1>1. \A n \in Names : Known(n) => Known(n)'
  BY DEF NamesStay, Named, Known
<1>2. l.pc = "roleSave" => l.rrow.name \in Names
  BY DEF Filled, RoleRows
<1>3. CASE UNCHANGED users
  <2>1. \A n : Holders(n)' = Holders(n)
    BY <1>3 DEF Holders, IsUser
  <2>2. QED
    BY <1>1, <1>2, <2>1 DEF Filled, Relies, NamesStay
<1>4. CASE load.ops \intersect {"updateRole", "removeRole"} = {}
  BY <1>1, <1>2, <1>4 DEF Filled, Relies, NamesStay
<1>5. QED
  BY <1>3, <1>4

\* With one slot, who goes on is alone.
LEMMA OnlySlot ==
    ASSUME TypeOK, Base, OneRequest, NEW r \in load.requests
    PROVE  \A q \in Requests : q # r => slot[q] = Idle
BY DEF Base, SlotInv, AtHome, OneRequest

LEMMA IdleRelies == Relies(Idle)
BY DEF Relies, Idle

\* A request is accepted: it relies on what it has read.
LEMMA ArriveRelies ==
    ASSUME TypeOK, Base, Base', RoleInv, UNCHANGED load, RolesKept,
           NEW r \in Requests, NEW i \in Instances, Arrive(r, i)
    PROVE  /\ \A u \in Users : IsUser(u)' => Known(users[u].role)'
           /\ \A q \in Requests : Relies(slot[q])'
<1>1. UNCHANGED tables /\ \E l : Begins(l, i) /\ Move(r, l)
  BY ArriveDoes
<1>2. PICK l : Begins(l, i) /\ Move(r, l)
  BY <1>1
<1>3. \A q \in Requests : slot'[q] = IF q = r THEN l ELSE slot[q]
  BY <1>2, OwnMove
<1>4. Filled(l)'
  BY <1>3 DEF Base, SlotInv
<1>5. Relies(l)
  <2>1. CASE /\ l.pc = "userInsert"
             /\ l.urow.role = Registered \/ \E d \in RoleIds : roles[d].name = l.urow.role
    BY <2>1 DEF Relies, Named, Known
  <2>2. ASSUME NEW u \in Users, NEW dto \in UserEdits, IsUser(u), Edited(l, i, u, dto)
        PROVE  Relies(l)
    <3>1. l.pc = "userSave" => l.urow.role = users[u].role
      BY <2>2 DEF Edited, OrElse, TypeOK, UserRows
    <3>2. QED
      BY <2>2, <3>1 DEF RoleInv, Relies, Edited
  <2>3. CASE l.pc \in {"userDelete", "roleInsert"}
    BY <2>3 DEF Relies
  <2>4. CASE /\ l.pc = (IF l.rrow.name = roles[l.role].name THEN "roleSave" ELSE "cascade")
             /\ l.name = roles[l.role].name
    BY <2>4 DEF Relies
  <2>5. CASE l.pc = "roleSave" /\ \E perms : l.rrow = [roles[l.role] EXCEPT !.perms = perms]
    <3>1. l.role \in RoleIds
      BY <1>4, <2>5 DEF Filled
    <3>2. roles[l.role] \in RoleRows \union {NoRow}
      BY <3>1 DEF TypeOK
    <3>3. l.rrow.name = roles[l.role].name
      BY <2>5, <3>2 DEF RoleRows, NoRow
    <3>4. QED
      BY <2>5, <3>3 DEF Relies
  <2>6. CASE l.pc = "roleCount" /\ l.name = roles[l.role].name
    BY <2>6 DEF Relies
  <2>7. QED
    BY <1>2, <2>1, <2>2, <2>3, <2>4, <2>5, <2>6 DEF Begins
<1>6. \A q \in Requests : Relies(IF q = r THEN l ELSE slot[q])
  BY <1>5 DEF RoleInv
<1>7. \A m : Relies(m) => Relies(m)'
  BY <1>1 DEF Relies, Known, Named, Holders, IsUser, tables
<1>8. \A q \in Requests : Relies(slot[q])'
  <2> SUFFICES ASSUME NEW q \in Requests PROVE Relies(slot[q])'
    OBVIOUS
  <2>1. PICK m : m = slot'[q] /\ Relies(m)
    BY <1>3, <1>6
  <2>2. Relies(m)'
    BY <1>7, <2>1
  <2>3. QED
    BY <2>1, <2>2 DEF Relies
<1>9. QED
  BY <1>1, <1>8 DEF RoleInv, Known, Named, IsUser, tables

\* A handler goes on: what it writes for a user is a role that exists, what it renames
\* takes its users along, what it deletes has none.
LEMMA ContinueUsersRole ==
    ASSUME TypeOK, Base, ClaimInv, RoleInv, UNCHANGED load, RolesKept, NEW r \in load.requests,
           r \in Requests, Continue(r)
    PROVE  \A u \in Users : IsUser(u)' => Known(users[u].role)'
<1>0. /\ \A u \in Users : IsUser(u) => users[u].role \in Names /\ Known(users[u].role)
      /\ Relies(slot[r]) /\ Filled(slot[r])
  BY DEF RoleInv, Base, UsersInv, SlotInv
<1>1. UNCHANGED roles \/ (\E d \in RoleIds : Saves(slot[r], d)) \/ Deletes(slot[r])
  BY ContinueDoes
<1>2. CASE /\ slot[r].pc = "roleSave" /\ slot[r].role \in RoleIds
           /\ Saves(slot[r], slot[r].role)
           /\ \A u \in Users : users'[u] = IF u \in slot[r].locked
                                           THEN [users[u] EXCEPT !.role = slot[r].rrow.name]
                                           ELSE users[u]
  <2> SUFFICES ASSUME NEW u \in Users, IsUser(u)', users'[u].role # Registered
               PROVE  \E d \in RoleIds : roles'[d].name = users'[u].role
    BY DEF Named, Known
  <2>1. roles'[slot[r].role] = slot[r].rrow
    BY <1>2 DEF Saves
  <2>2. CASE u \in slot[r].locked
    <3>1. users'[u].role = slot[r].rrow.name
      BY <1>2, <2>2 DEF TypeOK, UserRows
    <3>2. QED
      BY <1>2, <2>1, <3>1
  <2>3. CASE u \notin slot[r].locked
    <3>1. users'[u] = users[u] /\ IsUser(u)
      BY <1>2, <2>3 DEF IsUser
    <3>2. PICK d \in RoleIds : roles[d].name = users[u].role
      BY <1>0, <3>1 DEF Named, Known
    <3>3. CASE d = slot[r].role
      <4>1. roles[d].name = slot[r].rrow.name \/ (roles[d].name = slot[r].name /\ slot[r].locked = Holders(slot[r].name))
        BY <1>0, <1>2, <3>3 DEF Relies
      <4>2. roles[d].name = slot[r].rrow.name
        BY <2>3, <3>1, <3>2, <4>1 DEF Holders
      <4>3. QED
        BY <2>1, <3>1, <3>2, <3>3, <4>2
    <3>4. CASE d # slot[r].role
      BY <1>2, <3>1, <3>2, <3>4 DEF Saves
    <3>5. QED
      BY <3>3, <3>4
  <2>4. QED
    BY <2>2, <2>3
<1>3. CASE /\ slot[r].pc = "userInsert" /\ UNCHANGED roles
           /\ \A u \in Users : users'[u] = users[u] \/ (u = slot[r].user /\ users'[u] = slot[r].urow)
  BY <1>0, <1>3 DEF Relies, Known, Named, IsUser
<1>7. CASE /\ slot[r].pc = "userWrite" /\ UNCHANGED roles
           /\ \A u \in Users : users'[u] = users[u] \/ (u = slot[r].user /\ Written(slot[r], u))
  BY <1>0, <1>7 DEF Relies, Known, Named, IsUser, Written
<1>4. CASE /\ slot[r].pc = "userDelete" /\ UNCHANGED roles
           /\ \A u \in Users : users'[u] = users[u] \/ (u = slot[r].user /\ users'[u].is = "deleted")
  BY <1>0, <1>4 DEF Known, Named, IsUser
<1>5. CASE UNCHANGED users /\ (slot[r].pc = "roleSave" => UNCHANGED roles)
  <2>1. CASE UNCHANGED roles
    BY <1>0, <1>5, <2>1 DEF Known, Named, IsUser
  <2>2. ASSUME NEW d \in RoleIds, Saves(slot[r], d), slot[r].pc = "roleInsert"
        PROVE  \A u \in Users : IsUser(u)' => Known(users[u].role)'
    <3>1. roles[d].name = None /\ \A e \in RoleIds : e # d => roles'[e] = roles[e]
      BY <2>2 DEF Saves, NoRow
    <3>2. \A n \in Names : Known(n) => Known(n)'
      BY <3>1, Constants DEF Known, Named
    <3>3. QED
      BY <1>0, <1>5, <3>2 DEF IsUser, Known, Named
  <2>3. CASE Deletes(slot[r])
    <3>1. /\ Holders(slot[r].name) = {} /\ roles[slot[r].role].name = slot[r].name
          /\ \A e \in RoleIds : e # slot[r].role => roles'[e] = roles[e]
      BY <1>0, <2>3 DEF Deletes, Relies
    <3>2. \A u \in Users : IsUser(u) => users[u].role # slot[r].name
      BY <3>1 DEF Holders
    <3>3. QED
      BY <1>0, <1>5, <3>1, <3>2 DEF Known, Named, IsUser
  <2>4. QED
    BY <1>1, <1>5, <2>1, <2>2, <2>3 DEF Saves
<1>6. QED
  BY <1>2, <1>3, <1>4, <1>5, <1>7, ContinueUsers DEF Known

LEMMA ContinueRelies ==
    ASSUME TypeOK, Base, ClaimInv, RoleInv, UNCHANGED load, RolesKept, NEW r \in load.requests,
           r \in Requests, Continue(r)
    PROVE  \A q \in Requests : Relies(slot[q])'
<1>0. \A q \in Requests : Relies(slot[q]) /\ Filled(slot[q]) /\ slot[q] \in Locals
  BY DEF RoleInv, Base, SlotInv, TypeOK
<1>1. /\ \A q \in Requests : q # r => slot'[q] = slot[q]
      /\ GoesOn(slot[r], slot'[r])
      /\ UNCHANGED roles \/ (\E d \in RoleIds : Saves(slot[r], d)) \/ Deletes(slot[r])
  BY ContinueDoes
<1>2. ASSUME NEW m, GoesOn(slot[r], m), m # Idle PROVE Relies(m)'
  <2>1. slot[r].pc \in {"roleCheck", "userSave", "cascade", "roleCount"}
    BY <1>2 DEF GoesOn
  <2>2. UNCHANGED <<roles, users>>
    BY <1>1, <2>1, ContinueUsers DEF Saves, Deletes
  <2>3. Relies(m)
    <3>1. CASE slot[r].pc = "roleCheck"
      <4>1. /\ m = [slot[r] EXCEPT !.pc = "userSave"]
            /\ Named(slot[r].name) # {} /\ slot[r].urow.role = slot[r].name
        BY <1>0, <1>2, <3>1 DEF GoesOn, Filled
      <4>2. m.pc = "userSave" /\ m.urow = slot[r].urow
        BY <1>0, <4>1 DEF Locals
      <4>3. QED
        BY <4>1, <4>2 DEF Relies, Known
    <3>5. CASE slot[r].pc = "userSave"
      <4>1. m.pc \in {"userInsert", "userWrite"} /\ m.urow = slot[r].urow
        BY <1>0, <1>2, <3>5 DEF GoesOn, Locals
      <4>2. QED
        BY <1>0, <3>5, <4>1 DEF Relies
    <3>2. CASE slot[r].pc = "cascade"
      <4>1. /\ m = [slot[r] EXCEPT !.pc = "roleSave", !.locked = Holders(slot[r].name)]
            /\ "updateRole" \in load.ops /\ slot[r].name \in Names
            /\ roles[slot[r].role].name = slot[r].name
        BY <1>0, <1>2, <3>2 DEF GoesOn, Filled, Relies
      <4>2. /\ m.pc = "roleSave" /\ m.locked = Holders(slot[r].name)
            /\ m.name = slot[r].name /\ m.role = slot[r].role
        BY <1>0, <4>1 DEF Locals
      <4>3. QED
        BY <4>1, <4>2 DEF Relies
    <3>3. CASE slot[r].pc = "roleCount"
      <4>1. /\ m = [slot[r] EXCEPT !.pc = "roleDelete"]
            /\ Holders(slot[r].name) = {} /\ roles[slot[r].role].name = slot[r].name
        BY <1>0, <1>2, <3>3 DEF GoesOn, Relies
      <4>2. m.pc = "roleDelete" /\ m.name = slot[r].name /\ m.role = slot[r].role
        BY <1>0, <4>1 DEF Locals
      <4>3. QED
        BY <4>1, <4>2 DEF Relies
    <3>4. QED
      BY <2>1, <3>1, <3>2, <3>3, <3>5
  <2>4. QED
    BY <2>2, <2>3 DEF Relies, Known, Named, Holders, IsUser
<1>3. Relies(Idle)'
  BY DEF Relies, Idle
<1>4. ASSUME NEW q \in Requests, q # r PROVE \E l : l = slot'[q] /\ Relies(l)'
  <2>1. PICK l : l = slot[q] /\ l = slot'[q] /\ Relies(l) /\ Filled(l)
    BY <1>0, <1>1, <1>4
  <2>2. CASE OneRequest
    BY <1>1, <1>3, <1>4, <2>2, OnlySlot
  <2>3. CASE load.ops \intersect {"updateRole", "removeRole"} = {}
    <3>1. ~Deletes(slot[r]) /\ "updateRole" \notin load.ops
      BY <1>0, <2>3 DEF Filled, Deletes
    <3>2. ASSUME NEW d \in RoleIds, Saves(slot[r], d) PROVE NamesStay
      BY <3>1, <3>2, SavesOwn, Constants DEF Saves, NamesStay
    <3>3. NamesStay
      BY <1>1, <3>1, <3>2 DEF NamesStay
    <3>4. QED
      BY <2>1, <2>3, <3>3, ReliesStay
  <2>4. QED
    BY <2>2, <2>3 DEF RolesKept
<1>5. \A q \in Requests : \E l : l = slot'[q] /\ Relies(l)'
  BY <1>1, <1>2, <1>3, <1>4
<1>6. QED
  BY <1>5 DEF Relies

LEMMA RoleStep ==
    TypeOK /\ Base /\ Base' /\ ClaimInv /\ FoundInv /\ RoleInv /\ [Next]_vars => RoleInv'
<1> SUFFICES ASSUME TypeOK, Base, Base', ClaimInv, FoundInv, RoleInv, [Next]_vars PROVE RoleInv'
  OBVIOUS
<1>0. UNCHANGED load /\ load.requests \subseteq Requests /\ load.instances \subseteq Instances
  BY StepKinds
<1> SUFFICES ASSUME RolesKept
             PROVE  /\ \A u \in Users : IsUser(u)' => Known(users[u].role)'
                    /\ \A q \in Requests : Relies(slot[q])'
  BY <1>0 DEF RoleInv, RolesKept, OneRequest, OneServer
<1>1. /\ \A u \in Users : IsUser(u) => users[u].role \in Names /\ Known(users[u].role)
      /\ \A q \in Requests : Relies(slot[q]) /\ Filled(slot[q])
  BY DEF RoleInv, Base, UsersInv, SlotInv
<1>2. ASSUME NamesStay, UNCHANGED users, \A q \in Requests : slot'[q] = slot[q] \/ slot'[q] = Idle
      PROVE  /\ \A u \in Users : IsUser(u)' => Known(users[u].role)'
             /\ \A q \in Requests : Relies(slot[q])'
  <2>1. \A u \in Users : IsUser(u)' => Known(users[u].role)'
    BY <1>1, <1>2 DEF NamesStay, Known, Named, IsUser
  <2>2. Relies(Idle)'
    BY DEF Relies, Idle
  <2>3. ASSUME NEW q \in Requests PROVE \E l : l = slot'[q] /\ Relies(l)'
    <3>1. PICK l : l = slot[q]
      OBVIOUS
    <3>2. Relies(l)'
      BY <1>0, <1>1, <1>2, <3>1, ReliesStay
    <3>3. QED
      BY <1>2, <2>2, <3>1, <3>2
  <2>4. QED
    BY <2>1, <2>3 DEF Relies
<1>3. CASE Fades
  BY <1>2, <1>3 DEF Fades, tables, NamesStay
<1>4. ASSUME NEW i \in load.instances, SyncFind(i)
      PROVE  NamesStay /\ UNCHANGED <<users, slot>>
  BY <1>4 DEF SyncFind, tables, NamesStay
<1>5. ASSUME NEW i \in load.instances, NEW d \in RoleIds, SyncPut(i, d)
      PROVE  NamesStay /\ UNCHANGED <<users, slot>>
  <2>1. OneServer \/ "updateRole" \notin load.ops
    BY DEF RolesKept
  <2>2. /\ roles[d].name \in {memo[i].copy.name, None}
        /\ \A e \in RoleIds : roles'[e] = IF e = d THEN memo[i].copy ELSE roles[e]
    BY <1>0, <1>5, <2>1, PutOwn
  <2>3. QED
    BY <1>5, <2>2, Constants DEF NamesStay, SyncPut
<1>6. ASSUME NEW r \in load.requests, Continue(r)
      PROVE  /\ \A u \in Users : IsUser(u)' => Known(users[u].role)'
             /\ \A q \in Requests : Relies(slot[q])'
  BY <1>0, <1>6, ContinueUsersRole, ContinueRelies
<1>7. QED
  BY <1>0, <1>2, <1>3, <1>4, <1>5, <1>6, ArriveRelies, StepKinds

LEMMA RoleInit == Init => RoleInv
BY DEF Init, RoleInv, IsUser, NoUser, Relies, Idle

LEMMA RoleInvHolds == Spec => [](SeedInv /\ RoleInv)
<1>1. Init => SeedInv /\ RoleInv
  BY InitTyped, BaseInit, ClaimInit, FoundInit, FlagInit, SyncInit, RoleInit DEF SeedInv
<1>2. SeedInv /\ RoleInv /\ [Next]_vars => (SeedInv /\ RoleInv)'
  BY StepTyped, BaseStep, ClaimStep, FoundStep, FlagStep, SyncStep, RoleStep DEF SeedInv
<1>3. QED
  BY <1>1, <1>2, PTL DEF Spec

\* The role a user names exists, in every workload that keeps roles: no foreign key
\* says so, the order of the reads and writes of the handlers does.
THEOREM RoleOfUserCorrect == Spec => []RoleOfUserExists
<1>1. SeedInv /\ RoleInv => RoleOfUserExists
  <2> SUFFICES ASSUME SeedInv, RoleInv, RolesKept, "updateRole" \notin load.ops,
                      NEW i \in Instances, memo[i].pc = "done"
               PROVE  Named(Registered) # {}
    BY DEF RoleInv, Known, RoleOfUserExists
  <2>1. Registered \in Behind(i)
    BY SeedTyped DEF Behind
  <2>2. QED
    BY <2>1 DEF SeedInv, FlagInv
<1>2. QED
  BY <1>1, RoleInvHolds, PTL

-----------------------------------------------------------------------------
(* An administrator has a username.                                         *)

\* Two requests about one user are noted.
LEMMA RacedStep ==
    ASSUME RacedInv, [Next]_vars
    PROVE  raced \subseteq raced' /\ RacedInv'
BY DEF Next, Record, RacedInv, Meet, vars

LEMMA RacedInit == Init => RacedInv
BY Constants DEF Init, RacedInv, Meet, Idle

\* A write that makes nobody an administrator: the row was that role, with that flag,
\* or there was no row and no role of its name.
Mild(d, row) ==
    \/ row = NoRow
    \/ roles[d].name = None /\ Named(row.name) = {}
    \/ roles[d].name = row.name /\ roles[d].admin = row.admin

\* A role that is known may still be missing, but not become an administrator's.
LEMMA FitsStay ==
    ASSUME NEW d \in RoleIds, NEW row, Mild(d, row),
           \A e \in RoleIds : roles'[e] = IF e = d THEN row ELSE roles[e],
           \A e \in RoleIds : IsSeedRow(roles'[e]),
           NEW urow, urow.role \in Names, Known(urow.role), Fits(urow)
    PROVE  Fits(urow)'
<1> SUFFICES ASSUME NEW e \in RoleIds, roles'[e].name = urow.role, roles'[e].admin
             PROVE  urow.username # None
  BY DEF Fits
<1>1. CASE e # d
  BY <1>1 DEF Fits
<1>2. CASE e = d /\ Named(urow.role) # {}
  <2>1. roles'[e] = row /\ row # NoRow
    BY <1>2, Constants DEF NoRow
  <2>2. roles[d].name = row.name /\ roles[d].admin = row.admin
    BY <1>2, <2>1 DEF Mild
  <2>3. QED
    BY <1>2, <2>1, <2>2 DEF Fits
<1>3. urow.role # Registered
  BY SeedTyped DEF IsSeedRow
<1>4. QED
  BY <1>1, <1>2, <1>3 DEF Known

\* The writes of a synchronisation and of a handler are.
LEMMA PutMild ==
    ASSUME TypeOK, Base, ClaimInv, FoundInv, FlagInv, "updateRole" \notin load.ops,
           NEW i \in Instances, NEW d \in RoleIds, SyncPut(i, d)
    PROVE  Mild(d, memo[i].copy)
<1>1. roles[d].name \in {memo[i].copy.name, None}
  BY PutOwn
<1>2. /\ memo[i].copy.name \in Seeds /\ memo[i].copy.admin = SeedIsAdmin[memo[i].copy.name]
      /\ Allowed(d, memo[i].copy) /\ memo[i].copy.name # None
  BY BehindPut, Constants DEF SyncPut, Good, RoleRows
<1>3. CASE roles[d].name = memo[i].copy.name
  BY <1>2, <1>3 DEF Mild, FlagInv, IsSeedRow
<1>4. CASE roles[d].name = None
  BY <1>2, <1>4 DEF Mild, Allowed, Named
<1>5. QED
  BY <1>1, <1>3, <1>4

LEMMA SavesMild ==
    ASSUME TypeOK, Base, RoleInv, FitInv, RolesKept, "updateRole" \notin load.ops,
           NEW r \in Requests, NEW d \in RoleIds, Saves(slot[r], d)
    PROVE  Mild(d, slot[r].rrow)
<1>1. slot[r].rrow.name \in Names /\ Allowed(d, slot[r].rrow)
  BY DEF Saves, RoleRows
<1>2. CASE slot[r].pc = "roleInsert"
  <2>1. roles[d].name = None /\ slot[r].rrow.name # None
    BY <1>1, <1>2, Constants DEF Saves, NoRow
  <2>2. QED
    BY <1>1, <2>1 DEF Allowed, Named, Mild
<1>3. CASE slot[r].pc = "roleSave" /\ d = slot[r].role
  BY <1>3 DEF RoleInv, Relies, FitInv, Suits, Mild
<1>4. QED
  BY <1>2, <1>3 DEF Saves

\* What a handler is about to write suits the roles after such a step too.
LEMMA SuitsStay ==
    ASSUME NEW d \in RoleIds, NEW row, Mild(d, row), row # NoRow,
           \A e \in RoleIds : roles'[e] = IF e = d THEN row ELSE roles[e],
           \A e \in RoleIds : IsSeedRow(roles'[e]), raced \subseteq raced', UNCHANGED users,
           NEW l, Filled(l), Relies(l), Suits(l), "updateRole" \notin load.ops
    PROVE  Suits(l)'
<1>1. l.user \notin raced /\ l.pc \in {"userInsert", "userSave", "userWrite"} => Fits(l.urow)'
  BY FitsStay DEF Filled, Relies, Suits
<1>2. ASSUME l.pc = "roleSave" PROVE l.rrow.admin = roles'[l.role].admin
  <2>1. /\ l.role \in RoleIds /\ roles[l.role].name = l.rrow.name /\ l.rrow.name \in Names
        /\ l.rrow.admin = roles[l.role].admin
    BY <1>2 DEF Filled, Relies, Suits, RoleRows
  <2>2. CASE l.role # d
    BY <2>1, <2>2
  <2>3. CASE l.role = d
    BY <2>1, <2>3, Constants DEF Mild
  <2>4. QED
    BY <2>2, <2>3
<1>3. l.user \notin raced' => l.user \notin raced
  OBVIOUS
<1>4. Agrees(l) => Agrees(l)'
  BY DEF Agrees, IsUser
<1>5. QED
  BY <1>1, <1>2, <1>3, <1>4 DEF Suits

\* Where no role is written, it does as long as the user's row stays as it is.
LEMMA SuitsSame ==
    ASSUME UNCHANGED roles, raced \subseteq raced', NEW l, Suits(l),
           l.user \notin raced' => (Agrees(l) => Agrees(l)')
    PROVE  Suits(l)'
<1>1. Fits(l.urow) => Fits(l.urow)'
  BY DEF Fits
<1>2. l.user \notin raced' => l.user \notin raced
  OBVIOUS
<1>3. QED
  BY <1>1, <1>2 DEF Suits

LEMMA ArriveSuits ==
    ASSUME TypeOK, Base, Base', RoleInv, FlagInv, FitInv, NoNullBesideRole, UNCHANGED load,
           raced \subseteq raced', RolesKept, "updateRole" \notin load.ops,
           NEW r \in Requests, NEW i \in Instances, Arrive(r, i)
    PROVE  /\ \A u \in Users \ raced' : IsUser(u)' => Fits(users[u])'
           /\ \A q \in Requests : Suits(slot[q])'
<1>1. UNCHANGED tables /\ \E l : Begins(l, i) /\ Move(r, l)
  BY ArriveDoes
<1>2. PICK l : Begins(l, i) /\ Move(r, l)
  BY <1>1
<1>3. \A q \in Requests : slot'[q] = IF q = r THEN l ELSE slot[q]
  BY <1>2, OwnMove
<1>4. Filled(l)'
  BY <1>3 DEF Base, SlotInv
<1>5. Suits(l)
  <2>1. CASE /\ l.pc = "userInsert"
             /\ \E d \in RoleIds : /\ IsRole(d) /\ roles[d].name = l.urow.role
                                   /\ roles[d].admin => l.urow.username # None
    <3>1. Fits(l.urow)
      BY <2>1 DEF Base, TableInv, Fits
    <3>2. QED
      BY <2>1, <3>1 DEF Suits
  <2>6. CASE l.pc = "userInsert" /\ l.urow.role = Registered
    <3>1. Fits(l.urow)
      BY <2>6, SeedTyped DEF FlagInv, IsSeedRow, Fits
    <3>2. QED
      BY <2>6, <3>1 DEF Suits
  <2>2. ASSUME NEW u \in Users, NEW dto \in UserEdits, IsUser(u), Edited(l, i, u, dto)
        PROVE  Suits(l)
    <3>1. users[u] \in UserRows /\ (l.user \notin raced => Fits(users[u])) /\ l.user = u
      BY <2>2 DEF TypeOK, FitInv, Edited
    <3>2. /\ l.urow.username = (IF dto.username = "unsent" THEN users[u].username ELSE dto.username)
          /\ l.urow.role = OrElse(dto.role, users[u].role)
      BY <2>2, <3>1 DEF Edited, UserRows
    <3>3. /\ dto.username \in Usernames \union {None, "unsent"}
          /\ dto.role # None => dto.username # None
          /\ None \notin Usernames /\ "unsent" \notin Usernames
      BY EditsAssumption DEF NoNullBesideRole
    <3>4. l.pc = "roleCheck" /\ l.named => l.urow.username # None
      BY <2>2, <3>2, <3>3 DEF Edited
    <3>5. l.pc = "userSave" /\ l.user \notin raced => Fits(l.urow)
      BY <2>2, <3>1, <3>2, <3>3 DEF Edited, OrElse, Fits
    <3>6. QED
      BY <2>2, <3>4, <3>5 DEF Suits, Edited
  <2>3. CASE l.pc \in {"userDelete", "roleInsert", "roleCount"}
    BY <2>3 DEF Suits
  <2>4. CASE l.pc = "roleSave" /\ \E perms : l.rrow = [roles[l.role] EXCEPT !.perms = perms]
    <3>1. roles[l.role] \in RoleRows \union {NoRow}
      BY <1>4, <2>4 DEF TypeOK, Filled
    <3>2. l.rrow.admin = roles[l.role].admin
      BY <2>4, <3>1 DEF RoleRows, NoRow
    <3>3. QED
      BY <2>4, <3>2 DEF Suits
  <2>5. QED
    BY <1>2, <2>1, <2>2, <2>3, <2>4, <2>6 DEF Begins
<1>6. ASSUME NEW m, Suits(m) PROVE Suits(m)'
  <2>1. Agrees(m) => Agrees(m)'
    BY <1>1 DEF Agrees, IsUser, tables
  <2>2. QED
    BY <1>1, <1>6, <2>1, SuitsSame DEF tables
<1>7. \A q \in Requests : \E m : m = slot'[q] /\ Suits(m)
  BY <1>3, <1>5 DEF FitInv
<1>8. \A q \in Requests : Suits(slot[q])'
  <2> SUFFICES ASSUME NEW q \in Requests PROVE Suits(slot[q])'
    OBVIOUS
  <2>1. PICK m : m = slot'[q] /\ Suits(m)
    BY <1>7
  <2>2. Suits(m)'
    BY <1>6, <2>1
  <2>3. QED
    BY <2>1, <2>2 DEF Suits, Agrees
<1>9. \A u \in Users \ raced' : IsUser(u)' => Fits(users[u])'
  BY <1>1 DEF FitInv, IsUser, Fits, tables
<1>10. QED
  BY <1>8, <1>9

\* A handler goes on: what it writes for a user nobody else is about suits the roles.
LEMMA ContinueFits ==
    ASSUME TypeOK, Base, ClaimInv, RoleInv, FitInv, RolesKept, "updateRole" \notin load.ops,
           raced \subseteq raced', \A e \in RoleIds : IsSeedRow(roles'[e]),
           NEW r \in Requests, Continue(r), NEW u \in Users \ raced', IsUser(u)'
    PROVE  Fits(users[u])'
<1>0. /\ Relies(slot[r]) /\ Filled(slot[r]) /\ Suits(slot[r])
      /\ IsUser(u) => /\ users[u].role \in Names /\ Known(users[u].role)
                      /\ Fits(users[u])
  BY DEF RoleInv, Base, SlotInv, FitInv, UsersInv
<1>1. UNCHANGED roles \/ (\E d \in RoleIds : Saves(slot[r], d)) \/ Deletes(slot[r])
  BY ContinueDoes
<1>2. ASSUME NEW urow, urow.role \in Names, Known(urow.role), Fits(urow) PROVE Fits(urow)'
  <2>1. CASE UNCHANGED roles
    BY <1>2, <2>1 DEF Fits
  <2>2. ASSUME NEW d \in RoleIds, Saves(slot[r], d) PROVE Fits(urow)'
    BY <1>2, <2>2, SavesMild, FitsStay DEF Saves
  <2>3. CASE Deletes(slot[r])
    BY <1>0, <1>2, <2>3, FitsStay DEF Deletes, Filled, Mild
  <2>4. QED
    BY <1>1, <2>1, <2>2, <2>3
<1>3. slot[r].locked = {}
  BY <1>0 DEF Filled
<1>4. CASE users'[u] = users[u]
  <2>1. PICK urow : /\ urow = users'[u] /\ urow.role \in Names /\ Known(urow.role)
                    /\ Fits(urow)
    BY <1>0, <1>4 DEF IsUser
  <2>2. Fits(urow)'
    BY <1>2, <2>1
  <2>3. QED
    BY <2>1, <2>2 DEF Fits
<1>5. CASE slot[r].pc = "userInsert" /\ u = slot[r].user /\ users'[u] = slot[r].urow /\ UNCHANGED roles
  BY <1>0, <1>5 DEF Suits, Fits
<1>6. CASE slot[r].pc = "userWrite" /\ u = slot[r].user /\ Written(slot[r], u) /\ UNCHANGED roles
  <2>1. Fits(slot[r].urow) /\ Agrees(slot[r])
    BY <1>0, <1>6 DEF Suits
  <2>2. users'[u].role = slot[r].urow.role /\ users'[u].username = slot[r].urow.username
    BY <1>6, <2>1 DEF Written, Agrees
  <2>3. QED
    BY <1>6, <2>1, <2>2 DEF Fits
<1>7. QED
  BY <1>3, <1>4, <1>5, <1>6, ContinueUsers DEF IsUser

LEMMA ContinueSuits ==
    ASSUME TypeOK, Base, ClaimInv, RoleInv, RacedInv, FitInv, UNCHANGED load,
           RolesKept, "updateRole" \notin load.ops,
           raced \subseteq raced', \A e \in RoleIds : IsSeedRow(roles'[e]),
           NEW r \in load.requests, r \in Requests, Continue(r)
    PROVE  \A q \in Requests : Suits(slot[q])'
<1>0. \A q \in Requests : /\ Relies(slot[q]) /\ Filled(slot[q]) /\ slot[q] \in Locals
                          /\ Suits(slot[q])
  BY DEF RoleInv, Base, SlotInv, TypeOK, FitInv
<1>1. /\ \A q \in Requests : q # r => slot'[q] = slot[q]
      /\ GoesOn(slot[r], slot'[r])
      /\ UNCHANGED roles \/ (\E d \in RoleIds : Saves(slot[r], d)) \/ Deletes(slot[r])
  BY ContinueDoes
<1>2. \A u \in Users : u # slot[r].user => users'[u] = users[u]
  <2>1. slot[r].locked = {}
    BY <1>0 DEF Filled
  <2>2. QED
    BY <2>1, ContinueUsers
<1>3. (\E d \in RoleIds : Saves(slot[r], d)) => UNCHANGED users
  <2>1. ASSUME NEW d \in RoleIds, Saves(slot[r], d), slot[r].pc = "roleSave" PROVE UNCHANGED users
    <3>1. slot[r].locked = {}
      BY <1>0 DEF Filled
    <3>2. users' = users
      BY <2>1, <3>1 DEF Continue, RoleSave, UserInsert, UserSelect, UserWrite, UserDelete, RoleCheck,
         RoleInsert, RoleCascade, RoleCount, RoleDelete, At, tables, TypeOK
    <3>3. QED
      BY <3>2
  <2>2. ASSUME NEW d \in RoleIds, Saves(slot[r], d), slot[r].pc = "roleInsert" PROVE UNCHANGED users
    BY <2>2, ContinueUsers
  <2>3. QED
    BY <2>1, <2>2 DEF Saves
<1>4. Suits(Idle)'
  BY DEF Suits, Idle
<1>5. ASSUME NEW m, GoesOn(slot[r], m), m # Idle PROVE Suits(m)'
  <2>1. slot[r].pc \in {"roleCheck", "userSave", "roleCount"}
    BY <1>0, <1>5 DEF GoesOn, Filled
  <2>2. UNCHANGED <<roles, users>>
    BY <1>1, <2>1, ContinueUsers DEF Saves, Deletes
  <2>3. CASE slot[r].pc = "roleCheck"
    <3>1. PICK d \in Named(slot[r].name) : roles[d].admin => slot[r].named
      BY <1>5, <2>3 DEF GoesOn
    <3>2. m = [slot[r] EXCEPT !.pc = "userSave"]
      BY <1>5, <2>3 DEF GoesOn
    <3>3. m.pc = "userSave" /\ m.urow = slot[r].urow /\ m.user = slot[r].user
      BY <1>0, <3>2 DEF Locals
    <3>4. /\ slot[r].urow.role = slot[r].name /\ slot[r].urow.role \in Names
          /\ slot[r].user \notin raced /\ slot[r].named => slot[r].urow.username # None
      BY <1>0, <2>3 DEF Filled, Suits
    <3>5. d \in RoleIds /\ roles[d].name = slot[r].urow.role /\ IsRole(d)
      BY <3>1, <3>4, Constants DEF Named, IsRole
    <3>6. \A e \in RoleIds : roles[e].name = slot[r].urow.role => e = d
      BY <3>5 DEF Base, TableInv
    <3>7. m.user \notin raced => Fits(m.urow)
      BY <3>1, <3>3, <3>4, <3>6 DEF Fits
    <3>8. Suits(m)
      BY <3>3, <3>7 DEF Suits
    <3>9. QED
      BY <2>2, <3>8, SuitsSame DEF Agrees, IsUser
  <2>4. CASE slot[r].pc = "roleCount"
    <3>1. m.pc = "roleDelete"
      BY <1>0, <1>5, <2>4 DEF GoesOn, Locals
    <3>2. QED
      BY <3>1 DEF Suits
  <2>5. CASE slot[r].pc = "userSave"
    <3>1. /\ m.urow = slot[r].urow /\ m.user = slot[r].user
          /\ \/ m.pc = "userInsert"
             \/ m.pc = "userWrite" /\ m.cols = Differ(slot[r].urow, users[slot[r].user])
      BY <1>0, <1>5, <2>5 DEF GoesOn, Locals
    <3>2. slot[r].user \notin raced => Fits(slot[r].urow)
      BY <1>0, <2>5 DEF Suits
    <3>3. m.pc = "userWrite" => Agrees(m)
      BY <3>1 DEF Agrees, Differ
    <3>4. Suits(m)
      BY <3>1, <3>2, <3>3 DEF Suits
    <3>5. QED
      BY <2>2, <3>4, SuitsSame DEF Agrees, IsUser
  <2>6. QED
    BY <2>1, <2>3, <2>4, <2>5
<1>6. ASSUME NEW q \in Requests, q # r PROVE \E l : l = slot'[q] /\ Suits(l)'
  <2>1. PICK l : l = slot[q] /\ l = slot'[q] /\ Relies(l) /\ Filled(l) /\ Suits(l)
    BY <1>0, <1>1, <1>6
  <2>2. CASE OneRequest
    BY <1>1, <1>4, <1>6, <2>2, OnlySlot
  <2>3. CASE load.ops \intersect {"updateRole", "removeRole"} = {}
    <3>1. ~Deletes(slot[r])
      BY <1>0, <2>3 DEF Filled, Deletes
    <3>2. ASSUME NEW d \in RoleIds, Saves(slot[r], d) PROVE Suits(l)'
      <4>1. Mild(d, slot[r].rrow)
        BY <3>2, SavesMild
      <4>2. slot[r].rrow # NoRow
        BY <3>2, Constants DEF Saves, RoleRows, NoRow
      <4>3. UNCHANGED users
        BY <1>3, <3>2
      <4>4. QED
        BY <2>1, <3>2, <4>1, <4>2, <4>3, SuitsStay DEF Saves
    <3>3. ASSUME UNCHANGED roles PROVE Suits(l)'
      <4>1. ASSUME l.user \notin raced', NEW u \in Users, l.user = u PROVE users'[u] = users[u]
        <5>1. u # slot[r].user
          BY <1>6, <2>1, <4>1 DEF RacedInv, Meet
        <5>2. QED
          BY <1>2, <5>1
      <4>2. l.user \notin raced' => (Agrees(l) => Agrees(l)')
        BY <4>1 DEF Agrees, IsUser
      <4>3. QED
        BY <2>1, <3>3, <4>2, SuitsSame
    <3>4. Suits(l)'
      BY <1>1, <3>1, <3>2, <3>3
    <3>5. QED
      BY <2>1, <3>4
  <2>4. QED
    BY <2>2, <2>3 DEF RolesKept
<1>7. \A q \in Requests : \E l : l = slot'[q] /\ Suits(l)'
  BY <1>1, <1>4, <1>5, <1>6
<1>8. QED
  BY <1>7 DEF Suits, Agrees

LEMMA FitStep ==
    ASSUME NoNullBesideRole, SeedInv, SeedInv', RoleInv, RacedInv, FitInv, [Next]_vars
    PROVE  FitInv'
<1>0. /\ UNCHANGED load /\ load.requests \subseteq Requests /\ load.instances \subseteq Instances
      /\ TypeOK /\ Base /\ ClaimInv /\ FoundInv /\ FlagInv /\ Base' /\ FlagInv'
      /\ raced \subseteq raced'
  BY StepKinds, RacedStep DEF SeedInv
<1> SUFFICES ASSUME RolesKept, "updateRole" \notin load.ops
             PROVE  /\ \A u \in Users \ raced' : IsUser(u)' => Fits(users[u])'
                    /\ \A q \in Requests : Suits(slot[q])'
  BY <1>0 DEF FitInv, RolesKept, OneRequest, OneServer
<1>1. /\ \A q \in Requests : Relies(slot[q]) /\ Filled(slot[q]) /\ Suits(slot[q])
      /\ \A u \in Users : IsUser(u) => users[u].role \in Names /\ Known(users[u].role)
      /\ \A u \in Users \ raced : IsUser(u) => Fits(users[u])
      /\ \A e \in RoleIds : IsSeedRow(roles'[e])
  BY <1>0 DEF RoleInv, Base, SlotInv, FitInv, UsersInv, FlagInv, IsSeedRow
<1>2. ASSUME UNCHANGED <<roles, users>>, \A q \in Requests : slot'[q] = slot[q] \/ slot'[q] = Idle
      PROVE  /\ \A u \in Users \ raced' : IsUser(u)' => Fits(users[u])'
             /\ \A q \in Requests : Suits(slot[q])'
  <2>1. \A u \in Users \ raced' : IsUser(u)' => Fits(users[u])'
    BY <1>0, <1>1, <1>2 DEF IsUser, Fits
  <2>2. Suits(Idle)'
    BY DEF Suits, Idle
  <2>3. ASSUME NEW q \in Requests PROVE \E l : l = slot'[q] /\ Suits(l)'
    <3>1. PICK l : l = slot[q] /\ Suits(l)
      BY <1>1
    <3>2. Suits(l)'
      BY <1>0, <1>2, <3>1, SuitsSame DEF Agrees, IsUser
    <3>3. QED
      BY <1>2, <2>2, <3>1, <3>2
  <2>4. QED
    BY <2>1, <2>3 DEF Suits, Agrees
<1>3. ASSUME Fades \/ \E i \in load.instances : SyncFind(i)
      PROVE  UNCHANGED <<roles, users>> /\ \A q \in Requests : slot'[q] = slot[q] \/ slot'[q] = Idle
  BY <1>3 DEF Fades, SyncFind, tables
<1>4. ASSUME NEW i \in load.instances, NEW d \in RoleIds, SyncPut(i, d)
      PROVE  /\ \A u \in Users \ raced' : IsUser(u)' => Fits(users[u])'
             /\ \A q \in Requests : Suits(slot[q])'
  <2>1. PICK row : /\ row = memo[i].copy /\ row # NoRow /\ Mild(d, row)
                   /\ \A e \in RoleIds : roles'[e] = IF e = d THEN row ELSE roles[e]
    BY <1>0, <1>4, PutMild, PutOwn, Constants DEF SyncPut, Good, RoleRows, NoRow
  <2>2. UNCHANGED <<users, slot>>
    BY <1>4 DEF SyncPut
  <2>3. ASSUME NEW u \in Users \ raced', IsUser(u)' PROVE Fits(users[u])'
    <3>1. PICK urow : urow = users[u] /\ urow.role \in Names /\ Known(urow.role) /\ Fits(urow)
      BY <1>0, <1>1, <2>2, <2>3 DEF IsUser
    <3>2. Fits(urow)'
      BY <1>1, <2>1, <3>1, FitsStay
    <3>3. QED
      BY <2>2, <3>1, <3>2 DEF Fits
  <2>4. ASSUME NEW q \in Requests PROVE Suits(slot[q])'
    <3>1. PICK l : l = slot[q] /\ Relies(l) /\ Filled(l) /\ Suits(l)
      BY <1>1
    <3>2. Suits(l)'
      BY <1>0, <1>1, <2>1, <2>2, <3>1, SuitsStay
    <3>3. QED
      BY <2>2, <3>1, <3>2 DEF Suits, Agrees
  <2>5. QED
    BY <2>3, <2>4
<1>5. ASSUME NEW r \in load.requests, NEW i \in load.instances, Arrive(r, i)
      PROVE  /\ \A u \in Users \ raced' : IsUser(u)' => Fits(users[u])'
             /\ \A q \in Requests : Suits(slot[q])'
  BY <1>0, <1>5, ArriveSuits
<1>6. ASSUME NEW r \in load.requests, Continue(r)
      PROVE  /\ \A u \in Users \ raced' : IsUser(u)' => Fits(users[u])'
             /\ \A q \in Requests : Suits(slot[q])'
  BY <1>0, <1>1, <1>6, ContinueFits, ContinueSuits
<1>7. QED
  BY <1>0, <1>2, <1>3, <1>4, <1>5, <1>6, StepKinds

LEMMA FitInit == Init => FitInv
BY DEF Init, FitInv, IsUser, NoUser, Suits, Idle

\* Whoever has an administrator's role has a username, but for users whom two requests
\* changed at once, if no request sends a role together with a username of null: the
\* check takes the username of the row for it, and the row that is saved has none.
THEOREM AdminsNamed == ASSUME NoNullBesideRole PROVE Spec => []AdminHasUsername
<1>1. Init => SeedInv /\ RoleInv /\ RacedInv /\ FitInv
  BY InitTyped, BaseInit, ClaimInit, FoundInit, FlagInit, SyncInit, RoleInit, RacedInit, FitInit
     DEF SeedInv
<1>2. SeedInv /\ RoleInv /\ RacedInv /\ FitInv /\ [Next]_vars
        => (SeedInv /\ RoleInv /\ RacedInv /\ FitInv)'
  BY StepTyped, BaseStep, ClaimStep, FoundStep, FlagStep, SyncStep, RoleStep, RacedStep, FitStep
     DEF SeedInv
<1>3. SeedInv /\ RoleInv /\ RacedInv /\ FitInv => AdminHasUsername
  BY DEF FitInv, Fits, AdminHasUsername
<1>4. QED
  BY <1>1, <1>2, <1>3, PTL DEF Spec
=============================================================================
