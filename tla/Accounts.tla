------------------------------- MODULE Accounts -------------------------------
(***************************************************************************)
(* The table users as the code that identifies people sees it: AuthService *)
(* (registration and login by phone number), AdminAuthService (the default *)
(* admin), and the admin's UsersService. A subscriber is known by phone    *)
(* number, an admin by username, and both by e-mail once a token has been  *)
(* signed. The database has unique indexes on username and e-mail and none *)
(* on the phone number.                                                    *)
(*                                                                         *)
(* Roles other than the default admin's are the subject of AccessControl.  *)
(* An action is the code between two awaits that touch the table; a        *)
(* request refused before it wrote anything is no step or frees its slot.  *)
(***************************************************************************)
EXTENDS Naturals, FiniteSets

CONSTANTS
    Users,        \* ids of users
    Spellings,    \* phone numbers as people write them
    Normal,       \* normalizePhoneNumber: a spelling -> the number in +855 form
    Emails,       \* e-mail addresses
    Placeholder,  \* buildPhonePlaceholderEmail: a number -> an address of its own
    AdminEmail,   \* admin@boxadmin.com
    Given,        \* the addresses people enter
    Handlers,     \* request slots
    Workloads,    \* the mixes of requests considered, one of them in a behaviour
    MaxFaults,    \* bound: calls that fail and requests that die half way
    None          \* an absent value (SQL NULL, a DTO field that was not sent)

Phones == {Normal[s] : s \in Spellings}

\* Roles that matter here; the only username is that of the default admin.
Roles     == {"Subscriber", "Admin"}
AdminName == "admin"

\* An UpdateUserDto or UpdateUserStatusDto; a field that is None was not sent.
Dtos == [phone : Spellings \union {None}, email : Emails \union {None},
         active : BOOLEAN \union {None}]

Ops == {"register", "create", "edit", "remove", "seed"}

ASSUME AccountsAssumption ==
    /\ Normal \in [Spellings -> Spellings]
    /\ \A s \in Spellings : Normal[Normal[s]] = Normal[s]
    /\ Placeholder \in [Phones -> Emails]
    /\ \A p, q \in Phones : Placeholder[p] = Placeholder[q] => p = q
    /\ AdminEmail \in Emails /\ Given \subseteq Emails
    /\ \A w \in Workloads : w.handlers \subseteq Handlers /\ w.edits \subseteq Dtos
    /\ IsFiniteSet(Users) /\ IsFiniteSet(Handlers)
    /\ MaxFaults \in Nat
    /\ None \notin Users \union Spellings \union Emails \union {AdminName}
    /\ None \notin BOOLEAN /\ None \notin Ops

VARIABLES
    users,    \* table users: id -> row
    handler,  \* request slot -> where its handler is, and its local variables
    tokens,   \* the access tokens signed so far: user and the e-mail in the payload
    raced,    \* history: numbers that two registrations wanted at the same time
    freed,    \* history: e-mails that a stored row has given up
    faults,   \* failures so far
    load      \* the workload: which operations arrive, in which slots, with which edits

accounts == <<users, handler, tokens, raced, freed>>

-----------------------------------------------------------------------------
(* The data. *)

\* writer: who wrote the phone number the row has.
UserRows == [is : {"unused", "stored", "deleted"}, phone : Spellings \union {None},
             email : Emails \union {None}, username : {AdminName, None},
             role : Roles, active : BOOLEAN, writer : {"register", "admin"}]
NoUser   == [is |-> "unused", phone |-> None, email |-> None, username |-> None,
             role |-> "Subscriber", active |-> FALSE, writer |-> "admin"]

Locals == [pc : {"idle", "byEmail", "unique", "insert", "save", "seedByEmail", "delete"},
           op : Ops \union {None},
           user : Users \union {None}, row : UserRows, email : Emails \union {None}]
Idle   == [pc |-> "idle", op |-> None, user |-> None, row |-> NoUser, email |-> None]

\* The locals a handler has set by the time it is at a step.
Held(l) ==
    /\ l.pc \in {"unique", "save", "delete"} => l.user \in Users
    /\ l.pc \in {"byEmail", "insert", "unique", "save"} =>
          l.row.is = "stored" /\ l.row.email \in Emails
    /\ l.pc = "idle" => l.op = None
    /\ l.pc = "byEmail" => l.op = "register"
    /\ l.pc = "seedByEmail" => l.op = "seed"

AccountsTypeOK ==
    /\ users \in [Users -> UserRows]
    /\ \A u \in Users : users[u].is = "stored" => users[u].email \in Emails
    /\ handler \in [Handlers -> Locals]
    /\ \A r \in Handlers : Held(handler[r])
    /\ tokens \subseteq Users \X Emails
    /\ raced \subseteq Phones
    /\ freed \subseteq Emails
    /\ faults \in 0 .. MaxFaults
    /\ load \in Workloads

AccountsInit ==
    /\ users = [u \in Users |-> NoUser]
    /\ handler = [r \in Handlers |-> Idle]
    /\ tokens = {}
    /\ raced = {}
    /\ freed = {}
    /\ faults = 0
    /\ load \in Workloads

-----------------------------------------------------------------------------
(* Queries, writes and the moves of a slot. *)

IsUser(u)      == users[u].is = "stored"
WithPhone(p)   == {u \in Users : IsUser(u) /\ users[u].phone = p}
WithEmail(e)   == {u \in Users : IsUser(u) /\ users[u].email = e}
DefaultAdmin   == {u \in Users : IsUser(u) /\ users[u].username = AdminName}
Unused         == {u \in Users : users[u].is = "unused"}
NewId          == CHOOSE u \in Unused : TRUE

\* The unique indexes on e-mail and username.
Allowed(ids, row) ==
    /\ WithEmail(row.email) \subseteq ids
    /\ row.username # None => DefaultAdmin \subseteq ids

New(r, op) == handler[r].pc = "idle" /\ r \in load.handlers /\ op \in load.ops
At(r, pc)  == handler[r].pc = pc
Move(r, locals) == handler' = [handler EXCEPT ![r] = locals]
Goto(r, pc)     == handler' = [handler EXCEPT ![r].pc = pc]
Finish(r)       == Move(r, Idle)
Sign(u, e)      == tokens' = tokens \union {<<u, e>>}

\* Bound: every INSERT under way, and one of the default admin, finds an id.
Inserting == {r \in Handlers : handler[r].op \in {"register", "create", "seed"}}
RoomForUser == Cardinality(Unused) > Cardinality(Inserting) + 1

-----------------------------------------------------------------------------
(* AuthService: register and login. *)

Registering(p) == {r \in Handlers : handler[r].op = "register" /\ handler[r].row.phone = p}

\* Mutant: the number is looked up as it was typed.
BugRegister(r, s, e) ==
    LET p == Normal[s]
    IN  /\ New(r, "register") /\ RoomForUser
        /\ WithPhone(s) = {}
        /\ Move(r, [Idle EXCEPT
                !.pc = IF e = None THEN "insert" ELSE "byEmail", !.op = "register",
                !.row = [is |-> "stored", phone |-> p,
                         email |-> IF e = None THEN Placeholder[p] ELSE e,
                         username |-> None, role |-> "Subscriber", active |-> TRUE,
                         writer |-> "register"]])
        /\ raced' = IF Registering(p) = {} THEN raced ELSE raced \union {p}
        /\ UNCHANGED <<users, tokens, freed, faults>>

\* The number must be new; without an address the user gets the placeholder.
Register(r, s, e) ==
    LET p == Normal[s]
    IN  /\ New(r, "register") /\ RoomForUser
        /\ WithPhone(p) = {}
        /\ Move(r, [Idle EXCEPT
                !.pc = IF e = None THEN "insert" ELSE "byEmail", !.op = "register",
                !.row = [is |-> "stored", phone |-> p,
                         email |-> IF e = None THEN Placeholder[p] ELSE e,
                         username |-> None, role |-> "Subscriber", active |-> TRUE,
                         writer |-> "register"]])
        /\ raced' = IF Registering(p) = {} THEN raced ELSE raced \union {p}
        /\ UNCHANGED <<users, tokens, freed, faults>>

RegisterByEmail(r) ==
    /\ At(r, "byEmail")
    /\ IF WithEmail(handler[r].row.email) = {} THEN Goto(r, "insert") ELSE Finish(r)
    /\ UNCHANGED <<users, tokens, raced, freed, faults>>

\* save of a new row by register, create and seedDefaultAdmin; register answers
\* with a token. A violated index is an error of the request.
Insert(r) ==
    /\ At(r, "insert") /\ Unused # {}
    /\ IF Allowed({}, handler[r].row)
       THEN /\ users' = [users EXCEPT ![NewId] = handler[r].row]
            /\ IF handler[r].op = "register" THEN Sign(NewId, handler[r].row.email)
               ELSE UNCHANGED tokens
       ELSE UNCHANGED <<users, tokens>>
    /\ Finish(r)
    /\ UNCHANGED <<raced, freed, faults>>

\* login finds one row by number, checks status and password, and signs; nothing
\* it reads is used after an await but what the row held.
Login(s) ==
    /\ "login" \in load.ops
    /\ \E u \in WithPhone(Normal[s]) : users[u].active /\ Sign(u, users[u].email)
    /\ UNCHANGED <<users, handler, raced, freed, faults>>

\* AdminAuthService.login by username, and refresh of an admin's token, which
\* reads the user again.
AdminLogin ==
    /\ "login" \in load.ops
    /\ \E u \in Users :
          /\ IsUser(u) /\ users[u].active /\ users[u].role = "Admin"
          /\ users[u].username = AdminName \/ \E e \in Emails : <<u, e>> \in tokens
          /\ Sign(u, users[u].email)
    /\ UNCHANGED <<users, handler, raced, freed, faults>>

-----------------------------------------------------------------------------
(* UsersService: create, update, updateStatus, remove. The phone number is  *)
(* stored as it was typed.                                                  *)

CreateUser(r, s, e) ==
    /\ New(r, "create") /\ RoomForUser
    /\ WithEmail(e) = {}
    /\ Move(r, [Idle EXCEPT !.pc = "insert", !.op = "create",
                    !.row = [is |-> "stored", phone |-> s, email |-> e, username |-> None,
                             role |-> "Subscriber", active |-> TRUE, writer |-> "admin"]])
    /\ UNCHANGED <<users, tokens, raced, freed, faults>>

OrElse(sent, stored) == IF sent = None THEN stored ELSE sent

\* The row is read and the copy changed; a dto with an address has it looked up.
EditRead(r, u, dto) ==
    /\ New(r, "edit") /\ IsUser(u)
    /\ Move(r, [Idle EXCEPT
            !.pc = IF dto.email = None THEN "save" ELSE "unique", !.op = "edit", !.user = u,
            !.row = [users[u] EXCEPT !.phone = OrElse(dto.phone, @),
                                     !.email = OrElse(dto.email, @),
                                     !.active = OrElse(dto.active, @)]])
    /\ UNCHANGED <<users, tokens, raced, freed, faults>>

\* assertUniqueFields
EditUnique(r) ==
    /\ At(r, "unique")
    /\ IF WithEmail(handler[r].row.email) \subseteq {handler[r].user}
       THEN Goto(r, "save") ELSE Finish(r)
    /\ UNCHANGED <<users, tokens, raced, freed, faults>>

\* save writes the whole copy, and inserts it again if the row is gone.
Save(r) ==
    LET u   == handler[r].user
        row == handler[r].row
        who == IF IsUser(u) /\ users[u].phone = row.phone THEN users[u].writer ELSE "admin"
    IN  /\ At(r, "save")
        /\ IF Allowed({u}, row)
           THEN /\ users' = [users EXCEPT ![u] = [row EXCEPT !.writer = who]]
                /\ freed' = IF IsUser(u) /\ users[u].email # row.email
                            THEN freed \union {users[u].email} ELSE freed
           ELSE UNCHANGED <<users, freed>>
        /\ Finish(r)
        /\ UNCHANGED <<tokens, raced, faults>>

RemoveRead(r, u) ==
    /\ New(r, "remove") /\ IsUser(u)
    /\ users[u].username # AdminName
    /\ Move(r, [Idle EXCEPT !.pc = "delete", !.op = "remove", !.user = u])
    /\ UNCHANGED <<users, tokens, raced, freed, faults>>

Delete(r) ==
    LET u == handler[r].user
    IN  /\ At(r, "delete")
        /\ users' = [users EXCEPT ![u] = [NoUser EXCEPT !.is = "deleted"]]
        /\ freed' = IF IsUser(u) THEN freed \union {users[u].email} ELSE freed
        /\ Finish(r)
        /\ UNCHANGED <<tokens, raced, faults>>

-----------------------------------------------------------------------------
(* AdminAuthService.seedDefaultAdmin. Every error is caught and answered.   *)

SeedByName(r) ==
    /\ New(r, "seed")
    /\ \/ \E u \in DefaultAdmin :
             Move(r, [Idle EXCEPT !.pc = "save", !.op = "seed", !.user = u, !.row = users[u]])
       \/ DefaultAdmin = {} /\ Move(r, [Idle EXCEPT !.pc = "seedByEmail", !.op = "seed"])
    /\ UNCHANGED <<users, tokens, raced, freed, faults>>

AdminRow == [is |-> "stored", phone |-> None, email |-> AdminEmail, username |-> AdminName,
             role |-> "Admin", active |-> TRUE, writer |-> "admin"]

\* Mutant: nobody is looked up by the address.
BugSeedByEmail(r) ==
    /\ At(r, "seedByEmail")
    /\ Move(r, [handler[r] EXCEPT !.pc = "insert", !.row = AdminRow])
    /\ UNCHANGED <<users, tokens, raced, freed, faults>>

\* The user who has the default admin's address becomes the default admin.
SeedByEmail(r) ==
    /\ At(r, "seedByEmail")
    /\ \/ \E u \in WithEmail(AdminEmail) :
             Move(r, [handler[r] EXCEPT !.pc = "save", !.user = u,
                          !.row = [users[u] EXCEPT !.username = AdminName, !.role = "Admin",
                                                   !.active = TRUE]])
       \/ /\ WithEmail(AdminEmail) = {}
          /\ Move(r, [handler[r] EXCEPT !.pc = "insert", !.row = AdminRow])
    /\ UNCHANGED <<users, tokens, raced, freed, faults>>

-----------------------------------------------------------------------------

\* A call of the handler throws, or its instance dies.
Fault(r) ==
    /\ ~At(r, "idle") /\ faults < MaxFaults
    /\ faults' = faults + 1
    /\ Finish(r)
    /\ UNCHANGED <<users, tokens, raced, freed>>

AccountsContinue(r) ==
    \/ RegisterByEmail(r) \/ Insert(r) \/ EditUnique(r) \/ Save(r) \/ Delete(r)
    \/ SeedByEmail(r)

AccountsArrive(r) ==
    \/ \E s \in Spellings, e \in Given \union {None} : Register(r, s, e)
    \/ \E s \in Spellings, e \in Given : CreateUser(r, s, e)
    \/ \E u \in Users, dto \in load.edits : EditRead(r, u, dto)
    \/ \E u \in Users : RemoveRead(r, u)
    \/ SeedByName(r)

AccountsNext ==
    /\ \/ \E r \in Handlers : AccountsArrive(r) \/ AccountsContinue(r) \/ Fault(r)
       \/ \E s \in Spellings : Login(s)
       \/ AdminLogin
    /\ UNCHANGED load

AccountsSpec == AccountsInit /\ [][AccountsNext]_<<accounts, faults, load>>

-----------------------------------------------------------------------------
(* Properties. *)

\* 'Phone number already registered' (register): two users who have registered
\* the same number did so at the same time. Nothing but the look at the table
\* keeps them apart; a number an admin wrote, or wrote back with a stale copy,
\* is not compared.
PhoneOfOneSubscriber ==
    \A u, v \in Users :
        /\ u # v /\ IsUser(u) /\ IsUser(v)
        /\ users[u].writer = "register" /\ users[v].writer = "register"
        /\ users[u].phone = users[v].phone
        => users[u].phone \in raced

\* seedDefaultAdmin, asked again until it works, ends with a default admin once
\* nobody removes users any more: also when somebody registered with its address,
\* and when two of them collide.
AdminSeeded ==
    /\ \A r \in Handlers : SF_<<accounts, faults, load>>(SeedByName(r) /\ UNCHANGED load)
    /\ <>[](\A r \in Handlers : handler[r].op # "remove")
    => ("seed" \in load.ops ~> DefaultAdmin # {})

=============================================================================
