-------------------------- MODULE MC_AccessControl --------------------------
(* Instances of AccessControl for TLC. *)
EXTENDS AccessControl

\* Two of the four seeds: the one that is always reset and one that is not.
MCSeedList    == <<"Admin", "Subscriber">>
MCSeedIsAdmin == [n \in {"Admin", "Subscriber"} |-> n = "Admin"]
MCSeedPerms   == [n \in {"Admin", "Subscriber"} |-> IF n = "Admin" THEN Catalog ELSE {"plans"}]

\* A role of the admin's own, which renames also use.
MCNames == {"Admin", "Subscriber", "Clerk"}

\* What is sent to PATCH users/:id: a role with or without a username, a
\* username alone, or neither (a change of status).
RoleChanges   == [role : {"Admin", "Clerk"}, username : Usernames \union {"unsent"}]
NameChanges   == [role : {None}, username : Usernames \union {None}]
StatusChange  == [role : {None}, username : {"unsent"}]
UserChanges   == RoleChanges \union NameChanges \union StatusChange
NullAndRole   == [role : {"Admin", "Clerk"}, username : {None}]

\* What is sent to PATCH roles/:id.
Renames     == [name : Names, admin : {None}, perms : {{}, {{}}}]
AdminFlags  == [name : {None}, admin : {FALSE}, perms : {{}}]
RoleChanged == Renames \union AdminFlags
NoRoleEdits == {}

\* Every operation one at a time on one instance; what writes users and inserts roles in
\* two slots; what inserts and edits users in two slots on two instances; and the changes
\* of one user alone.
Serial  == [ops |-> AllOps, requests |-> {CHOOSE r \in Requests : TRUE},
            instances |-> {CHOOSE i \in Instances : TRUE}, perms |-> {{}, Perms}]
Overlap == [Serial EXCEPT !.requests = Requests, !.perms = {},
               !.ops = {"register", "createUser", "editUser", "removeUser", "createRole"}]
Servers == [Overlap EXCEPT !.instances = Instances,
               !.ops = {"register", "createUser", "editUser"}]
OneUser == [Serial EXCEPT !.ops = {"createUser", "editUser"}]

Mixed == {Serial, Overlap, Servers}
Alone == {OneUser}
=============================================================================
