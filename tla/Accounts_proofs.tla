--------------------------- MODULE Accounts_proofs ---------------------------
(***************************************************************************)
(* What one step of Accounts keeps, whatever the constants: the types, the *)
(* reason why a phone number has one subscriber, and who an e-mail belongs *)
(* to. Checkout_proofs draws the conclusions for behaviours.               *)
(***************************************************************************)
EXTENDS Accounts, TLAPS

USE AccountsAssumption DEF Ops

-----------------------------------------------------------------------------
(* Types. *)

LEMMA IdleTyped == Idle \in Locals /\ Held(Idle) /\ NoUser \in UserRows
BY DEF Idle, Locals, Held, NoUser, UserRows, Roles, AdminName

\* A slot that takes well-formed locals, and nothing else of type changed.
LEMMA MoveTyped ==
    ASSUME AccountsTypeOK, NEW r \in Handlers, NEW l \in Locals, Held(l), Move(r, l)
    PROVE  /\ handler' \in [Handlers -> Locals]
           /\ \A q \in Handlers : Held(handler'[q])
BY DEF AccountsTypeOK, Move

LEMMA FinishTyped ==
    ASSUME AccountsTypeOK, NEW r \in Handlers, Finish(r)
    PROVE  /\ handler' \in [Handlers -> Locals]
           /\ \A q \in Handlers : Held(handler'[q])
BY IdleTyped, MoveTyped DEF Finish

LEMMA GotoTyped ==
    ASSUME AccountsTypeOK, NEW r \in Handlers, NEW pc \in {"insert", "save"}, Goto(r, pc),
           pc = "insert" => handler[r].pc = "byEmail",
           pc = "save" => handler[r].pc = "unique"
    PROVE  /\ handler' \in [Handlers -> Locals]
           /\ \A q \in Handlers : Held(handler'[q])
<1> DEFINE l == [handler[r] EXCEPT !.pc = pc]
<1>1. l \in Locals /\ Held(l)
  BY DEF AccountsTypeOK, Locals, Held
<1>2. Move(r, l)
  BY DEF Goto, Move, AccountsTypeOK
<1>3. QED
  BY <1>1, <1>2, MoveTyped

LEMMA NewIdIsUnused == ASSUME Unused # {} PROVE NewId \in Unused /\ NewId \in Users
BY DEF Unused, NewId

LEMMA PlaceholderTyped == \A s \in Spellings : Normal[s] \in Phones /\ Normal[s] \in Spellings
BY DEF Phones

LEMMA AccountsInitTyped == AccountsInit => AccountsTypeOK
BY IdleTyped DEF AccountsInit, AccountsTypeOK, NoUser

LEMMA RegisterTyped ==
    ASSUME AccountsTypeOK, NEW r \in Handlers, NEW s \in Spellings,
           NEW e \in Given \union {None}, Register(r, s, e), UNCHANGED load
    PROVE  AccountsTypeOK'
<1> DEFINE p == Normal[s]
           row == [is |-> "stored", phone |-> p, email |-> IF e = None THEN Placeholder[p] ELSE e,
                   username |-> None, role |-> "Subscriber", active |-> TRUE,
                   writer |-> "register"]
           l == [Idle EXCEPT !.pc = IF e = None THEN "insert" ELSE "byEmail", !.op = "register",
                             !.row = row]
<1>1. row \in UserRows /\ row.email \in Emails
  BY PlaceholderTyped DEF UserRows, Roles
<1>2. l \in Locals /\ Held(l)
  BY <1>1 DEF Idle, Locals, Held
<1>3. Move(r, l)
  BY DEF Register
<1>4. QED
  BY <1>2, <1>3, MoveTyped, PlaceholderTyped DEF Register, AccountsTypeOK

LEMMA RegisterByEmailTyped ==
    ASSUME AccountsTypeOK, NEW r \in Handlers, RegisterByEmail(r), UNCHANGED load
    PROVE  AccountsTypeOK'
BY FinishTyped, GotoTyped DEF RegisterByEmail, At, AccountsTypeOK

LEMMA InsertTyped ==
    ASSUME AccountsTypeOK, NEW r \in Handlers, Insert(r), UNCHANGED load
    PROVE  AccountsTypeOK'
<1>1. handler[r].row \in UserRows /\ handler[r].row.email \in Emails
  BY DEF AccountsTypeOK, Insert, At, Held, Locals
<1>2. users' \in [Users -> UserRows] /\ \A u \in Users : users'[u].is = "stored" => users'[u].email \in Emails
  BY <1>1, NewIdIsUnused DEF AccountsTypeOK, Insert
<1>3. tokens' \subseteq Users \X Emails
  BY <1>1, NewIdIsUnused DEF AccountsTypeOK, Insert, Sign
<1>4. QED
  BY <1>2, <1>3, FinishTyped DEF Insert, AccountsTypeOK

LEMMA LoginTyped ==
    ASSUME AccountsTypeOK, NEW s \in Spellings, Login(s), UNCHANGED load
    PROVE  AccountsTypeOK'
BY DEF Login, Sign, WithPhone, IsUser, AccountsTypeOK

LEMMA AdminLoginTyped ==
    ASSUME AccountsTypeOK, AdminLogin, UNCHANGED load
    PROVE  AccountsTypeOK'
BY DEF AdminLogin, Sign, IsUser, AccountsTypeOK

LEMMA CreateUserTyped ==
    ASSUME AccountsTypeOK, NEW r \in Handlers, NEW s \in Spellings, NEW e \in Given,
           CreateUser(r, s, e), UNCHANGED load
    PROVE  AccountsTypeOK'
<1> DEFINE row == [is |-> "stored", phone |-> s, email |-> e, username |-> None,
                   role |-> "Subscriber", active |-> TRUE, writer |-> "admin"]
           l == [Idle EXCEPT !.pc = "insert", !.op = "create", !.row = row]
<1>1. row \in UserRows /\ row.email \in Emails
  BY DEF UserRows, Roles
<1>2. l \in Locals /\ Held(l)
  BY <1>1 DEF Idle, Locals, Held
<1>3. QED
  BY <1>2, MoveTyped DEF CreateUser, AccountsTypeOK

LEMMA EditReadTyped ==
    ASSUME AccountsTypeOK, NEW r \in Handlers, NEW u \in Users, NEW dto \in load.edits,
           EditRead(r, u, dto), UNCHANGED load
    PROVE  AccountsTypeOK'
<1> DEFINE row == [users[u] EXCEPT !.phone = OrElse(dto.phone, @), !.email = OrElse(dto.email, @),
                                   !.active = OrElse(dto.active, @)]
           l == [Idle EXCEPT !.pc = IF dto.email = None THEN "save" ELSE "unique", !.op = "edit",
                             !.user = u, !.row = row]
<1>1. dto \in Dtos
  BY DEF AccountsTypeOK
<1>2. users[u] \in UserRows /\ users[u].is = "stored" /\ users[u].email \in Emails
  BY DEF AccountsTypeOK, EditRead, IsUser
<1>3. row \in UserRows /\ row.email \in Emails /\ row.is = "stored"
  BY <1>1, <1>2 DEF UserRows, Dtos, OrElse
<1>4. l \in Locals /\ Held(l)
  BY <1>3 DEF Idle, Locals, Held
<1>5. QED
  BY <1>4, MoveTyped DEF EditRead, AccountsTypeOK

LEMMA EditUniqueTyped ==
    ASSUME AccountsTypeOK, NEW r \in Handlers, EditUnique(r), UNCHANGED load
    PROVE  AccountsTypeOK'
BY FinishTyped, GotoTyped DEF EditUnique, At, AccountsTypeOK

LEMMA SaveTyped ==
    ASSUME AccountsTypeOK, NEW r \in Handlers, Save(r), UNCHANGED load
    PROVE  AccountsTypeOK'
<1> DEFINE u == handler[r].user
           row == handler[r].row
           who == IF IsUser(u) /\ users[u].phone = row.phone THEN users[u].writer ELSE "admin"
<1>1. u \in Users /\ row \in UserRows /\ row.email \in Emails
  BY DEF AccountsTypeOK, Save, At, Held, Locals
<1>2. who \in {"register", "admin"}
  BY <1>1 DEF AccountsTypeOK, UserRows
<1>3. [row EXCEPT !.writer = who] \in UserRows /\ [row EXCEPT !.writer = who].email = row.email
  BY <1>1, <1>2 DEF UserRows
<1>4. users' \in [Users -> UserRows] /\ \A v \in Users : users'[v].is = "stored" => users'[v].email \in Emails
  BY <1>1, <1>3 DEF AccountsTypeOK, Save
<1>5. freed' \subseteq Emails
  BY <1>1 DEF AccountsTypeOK, Save, IsUser
<1>6. QED
  BY <1>4, <1>5, FinishTyped DEF Save, AccountsTypeOK

LEMMA RemoveReadTyped ==
    ASSUME AccountsTypeOK, NEW r \in Handlers, NEW u \in Users, RemoveRead(r, u), UNCHANGED load
    PROVE  AccountsTypeOK'
<1> DEFINE l == [Idle EXCEPT !.pc = "delete", !.op = "remove", !.user = u]
<1>1. l \in Locals /\ Held(l)
  BY IdleTyped DEF Idle, Locals, Held
<1>2. QED
  BY <1>1, MoveTyped DEF RemoveRead, AccountsTypeOK

LEMMA DeleteTyped ==
    ASSUME AccountsTypeOK, NEW r \in Handlers, Delete(r), UNCHANGED load
    PROVE  AccountsTypeOK'
<1>1. handler[r].user \in Users
  BY DEF AccountsTypeOK, Delete, At, Held
<1>2. [NoUser EXCEPT !.is = "deleted"] \in UserRows
  BY DEF NoUser, UserRows, Roles
<1>3. users' \in [Users -> UserRows] /\ \A v \in Users : users'[v].is = "stored" => users'[v].email \in Emails
  BY <1>1, <1>2 DEF AccountsTypeOK, Delete, NoUser
<1>4. freed' \subseteq Emails
  BY <1>1 DEF AccountsTypeOK, Delete, IsUser
<1>5. QED
  BY <1>3, <1>4, FinishTyped DEF Delete, AccountsTypeOK

LEMMA SeedByNameTyped ==
    ASSUME AccountsTypeOK, NEW r \in Handlers, SeedByName(r), UNCHANGED load
    PROVE  AccountsTypeOK'
<1>1. ASSUME NEW u \in DefaultAdmin,
             Move(r, [Idle EXCEPT !.pc = "save", !.op = "seed", !.user = u, !.row = users[u]])
      PROVE  handler' \in [Handlers -> Locals] /\ \A q \in Handlers : Held(handler'[q])
  <2> DEFINE l == [Idle EXCEPT !.pc = "save", !.op = "seed", !.user = u, !.row = users[u]]
  <2>1. u \in Users /\ users[u] \in UserRows /\ users[u].is = "stored" /\ users[u].email \in Emails
    BY DEF DefaultAdmin, IsUser, AccountsTypeOK
  <2>2. l \in Locals /\ Held(l)
    BY <2>1 DEF Idle, Locals, Held
  <2>3. QED
    BY <1>1, <2>2, MoveTyped
<1>2. ASSUME Move(r, [Idle EXCEPT !.pc = "seedByEmail", !.op = "seed"])
      PROVE  handler' \in [Handlers -> Locals] /\ \A q \in Handlers : Held(handler'[q])
  <2> DEFINE l == [Idle EXCEPT !.pc = "seedByEmail", !.op = "seed"]
  <2>1. l \in Locals /\ Held(l)
    BY IdleTyped DEF Idle, Locals, Held
  <2>2. QED
    BY <1>2, <2>1, MoveTyped
<1>3. QED
  BY <1>1, <1>2 DEF SeedByName, AccountsTypeOK

LEMMA SeedByEmailTyped ==
    ASSUME AccountsTypeOK, NEW r \in Handlers, SeedByEmail(r), UNCHANGED load
    PROVE  AccountsTypeOK'
<1>0. handler[r] \in Locals
  BY DEF AccountsTypeOK
<1>1. ASSUME NEW u \in WithEmail(AdminEmail),
             Move(r, [handler[r] EXCEPT !.pc = "save", !.user = u,
                          !.row = [users[u] EXCEPT !.username = AdminName, !.role = "Admin",
                                                   !.active = TRUE]])
      PROVE  handler' \in [Handlers -> Locals] /\ \A q \in Handlers : Held(handler'[q])
  <2> DEFINE row == [users[u] EXCEPT !.username = AdminName, !.role = "Admin", !.active = TRUE]
             l == [handler[r] EXCEPT !.pc = "save", !.user = u, !.row = row]
  <2>1. u \in Users /\ users[u] \in UserRows /\ users[u].is = "stored" /\ users[u].email \in Emails
    BY DEF WithEmail, IsUser, AccountsTypeOK
  <2>2. row \in UserRows /\ row.is = "stored" /\ row.email \in Emails
    BY <2>1 DEF UserRows, Roles
  <2>3. l \in Locals /\ Held(l)
    BY <1>0, <2>1, <2>2 DEF Locals, Held
  <2>4. QED
    BY <1>1, <2>3, MoveTyped
<1>2. ASSUME Move(r, [handler[r] EXCEPT !.pc = "insert", !.row = AdminRow])
      PROVE  handler' \in [Handlers -> Locals] /\ \A q \in Handlers : Held(handler'[q])
  <2> DEFINE l == [handler[r] EXCEPT !.pc = "insert", !.row = AdminRow]
  <2>1. AdminRow \in UserRows /\ AdminRow.is = "stored" /\ AdminRow.email \in Emails
    BY DEF AdminRow, UserRows, Roles
  <2>2. l \in Locals /\ Held(l)
    BY <1>0, <2>1 DEF Locals, Held
  <2>3. QED
    BY <1>2, <2>2, MoveTyped
<1>3. QED
  BY <1>1, <1>2 DEF SeedByEmail, AccountsTypeOK

LEMMA FaultTyped ==
    ASSUME AccountsTypeOK, NEW r \in Handlers, Fault(r), UNCHANGED load
    PROVE  AccountsTypeOK'
BY FinishTyped DEF Fault, AccountsTypeOK

LEMMA AccountsStepTyped == AccountsTypeOK /\ AccountsNext => AccountsTypeOK'
<1> SUFFICES ASSUME AccountsTypeOK, AccountsNext PROVE AccountsTypeOK'
  OBVIOUS
<1>1. CASE \E r \in Handlers : AccountsArrive(r)
  BY <1>1, RegisterTyped, CreateUserTyped, EditReadTyped, RemoveReadTyped, SeedByNameTyped
     DEF AccountsArrive, AccountsNext
<1>2. CASE \E r \in Handlers : AccountsContinue(r)
  BY <1>2, RegisterByEmailTyped, InsertTyped, EditUniqueTyped, SaveTyped, DeleteTyped,
     SeedByEmailTyped DEF AccountsContinue, AccountsNext
<1>3. CASE \E r \in Handlers : Fault(r)
  BY <1>3, FaultTyped DEF AccountsNext
<1>4. CASE (\E s \in Spellings : Login(s)) \/ AdminLogin
  BY <1>4, LoginTyped, AdminLoginTyped DEF AccountsNext
<1>5. QED
  BY <1>1, <1>2, <1>3, <1>4 DEF AccountsNext

-----------------------------------------------------------------------------
(* A phone number has one subscriber. A registration that has passed its    *)
(* look at the table wants a number that no other registration has stored   *)
(* since, or two of them wanted it at once.                                 *)

\* The users a registration gave the number p.
Holders(p) == {u \in Users : /\ IsUser(u) /\ users[u].writer = "register"
                             /\ users[u].phone = p}

\* The number of a registration under way.
Wanted(r) == handler[r].row.phone

PhoneInv ==
    /\ PhoneOfOneSubscriber
    /\ \A r \in Handlers : handler[r].op = "register" =>
          Wanted(r) \in raced \/ Holders(Wanted(r)) = {}
    /\ \A q, r \in Handlers :
          /\ q # r /\ handler[q].op = "register" /\ handler[r].op = "register"
          /\ Wanted(q) = Wanted(r)
          => Wanted(q) \in raced
    /\ \A r \in Handlers :
          handler[r].pc = "insert" /\ handler[r].op # "register" => handler[r].row.writer = "admin"

LEMMA PhoneInit == AccountsInit => PhoneInv
BY DEF AccountsInit, PhoneInv, PhoneOfOneSubscriber, IsUser, NoUser, Idle, Holders

\* Holders do not become more, and a slot takes up something else than a
\* registration, or goes on with the one it has.
LEMMA PhoneStays ==
    ASSUME AccountsTypeOK, PhoneInv, NEW r \in Handlers, NEW l, Move(r, l),
           UNCHANGED raced,
           \A p : Holders(p)' \subseteq Holders(p),
           l.op = "register" => handler[r].op = "register" /\ l.row = handler[r].row,
           l.pc = "insert" /\ l.op # "register" => l.row.writer = "admin"
    PROVE  PhoneInv'
<1>1. \A q \in Handlers : handler'[q] = IF q = r THEN l ELSE handler[q]
  BY DEF Move, AccountsTypeOK
<1>2. PhoneOfOneSubscriber'
  <2> SUFFICES ASSUME NEW p, NEW u \in Holders(p)', NEW v \in Holders(p)', u # v
               PROVE  p \in raced
    BY DEF PhoneOfOneSubscriber, Holders
  <2>1. u \in Holders(p) /\ v \in Holders(p)
    OBVIOUS
  <2>2. QED
    BY <2>1 DEF PhoneInv, PhoneOfOneSubscriber, Holders
<1>3. QED
  BY <1>1, <1>2 DEF PhoneInv, Wanted

LEMMA PhoneFinish ==
    ASSUME AccountsTypeOK, PhoneInv, NEW r \in Handlers, Finish(r), UNCHANGED raced,
           \A p : Holders(p)' \subseteq Holders(p)
    PROVE  PhoneInv'
BY PhoneStays DEF Finish, Idle

LEMMA PhoneGoto ==
    ASSUME AccountsTypeOK, PhoneInv, NEW r \in Handlers, NEW pc, Goto(r, pc),
           UNCHANGED <<users, raced>>, pc = "insert" => handler[r].op = "register"
    PROVE  PhoneInv'
<1> DEFINE l == [handler[r] EXCEPT !.pc = pc]
<1>1. Move(r, l) /\ l.op = handler[r].op /\ l.row = handler[r].row /\ l.pc = pc
  BY DEF Goto, Move, AccountsTypeOK, Locals
<1>2. \A p : Holders(p)' = Holders(p)
  BY DEF Holders, IsUser
<1>3. QED
  BY <1>1, <1>2, PhoneStays

LEMMA SameHolders == UNCHANGED users => \A p : Holders(p)' = Holders(p)
BY DEF Holders, IsUser

LEMMA RegisterPhone ==
    ASSUME AccountsTypeOK, PhoneInv, NEW r \in Handlers, NEW s \in Spellings,
           NEW e \in Given \union {None}, Register(r, s, e)
    PROVE  PhoneInv'
<1> DEFINE p == Normal[s]
<1>1. /\ handler'[r].op = "register" /\ Wanted(r)' = p
      /\ \A q \in Handlers : q # r => handler'[q] = handler[q]
  BY DEF Register, Move, AccountsTypeOK, Idle, Wanted
<1>2. UNCHANGED users /\ raced \subseteq raced'
  BY DEF Register
<1>3. Holders(p) = {}
  BY DEF Register, Holders, WithPhone
<1>4. \A q \in Handlers : q # r /\ handler[q].op = "register" /\ Wanted(q) = p => p \in raced'
  BY DEF Register, Registering, Wanted
<1>5. PhoneOfOneSubscriber'
  BY <1>2 DEF PhoneInv, PhoneOfOneSubscriber, IsUser
<1>6. \A q \in Handlers : 
        handler'[q].op = "register" => \A n : Wanted(q)' = n => n \in raced' \/ Holders(n)' = {}
  BY <1>1, <1>2, <1>3, SameHolders DEF PhoneInv, Wanted
<1>7. \A q, t \in Handlers :
          /\ q # t /\ handler'[q].op = "register" /\ handler'[t].op = "register"
          /\ Wanted(q)' = Wanted(t)'
          => Wanted(q)' \in raced'
  BY <1>1, <1>2, <1>4 DEF PhoneInv, Wanted
<1>8. QED
  BY <1>1, <1>5, <1>6, <1>7 DEF PhoneInv, Wanted

LEMMA InsertPhone ==
    ASSUME AccountsTypeOK, PhoneInv, NEW r \in Handlers, Insert(r)
    PROVE  PhoneInv'
<1> DEFINE row == handler[r].row
<1>1. CASE ~Allowed({}, row)
  BY <1>1, PhoneFinish, SameHolders DEF Insert
<1>2. CASE Allowed({}, row) /\ row.writer = "admin"
  <2>1. \A p : Holders(p)' \subseteq Holders(p)
    BY <1>2, NewIdIsUnused DEF Insert, Holders, IsUser, AccountsTypeOK
  <2>2. QED
    BY <2>1, PhoneFinish DEF Insert
<1>3. CASE Allowed({}, row) /\ row.writer # "admin"
  <2>1. handler[r].op = "register"
    BY <1>3 DEF PhoneInv, Insert, At
  <2>2. users' = [users EXCEPT ![NewId] = row] /\ NewId \in Users
    BY <1>3, NewIdIsUnused DEF Insert
  <2>3. \A p : p # Wanted(r) => Holders(p)' \subseteq Holders(p)
    BY <2>2 DEF Holders, IsUser, Wanted, AccountsTypeOK
  <2>4. \A p : Holders(p)' \subseteq Holders(p) \union {NewId}
    BY <2>2 DEF Holders, IsUser, AccountsTypeOK
  <2>5. UNCHANGED raced /\ \A q \in Handlers : handler'[q] = IF q = r THEN Idle ELSE handler[q]
    BY DEF Insert, Finish, Move, AccountsTypeOK
  <2>6. PhoneOfOneSubscriber'
    <3> SUFFICES ASSUME NEW p, NEW u \in Holders(p)', NEW v \in Holders(p)', u # v
                 PROVE  p \in raced
      BY <2>5 DEF PhoneOfOneSubscriber, Holders
    <3>1. CASE p # Wanted(r)
      <4>1. u \in Holders(p) /\ v \in Holders(p)
        BY <2>3, <3>1
      <4>2. QED
        BY <4>1 DEF PhoneInv, PhoneOfOneSubscriber, Holders
    <3>2. CASE p = Wanted(r)
      <4>1. Holders(p) # {}
        BY <2>4
      <4>2. QED
        BY <2>1, <3>2, <4>1 DEF PhoneInv
    <3>3. QED
      BY <3>1, <3>2
  <2>7. \A q \in Handlers : 
        handler'[q].op = "register" => \A p : Wanted(q)' = p => p \in raced' \/ Holders(p)' = {}
    <3> SUFFICES ASSUME NEW q \in Handlers, handler'[q].op = "register", Wanted(q)' \notin raced,
                        NEW p, Wanted(q)' = p
                 PROVE  Holders(p)' = {}
      BY <2>5
    <3>1. q # r /\ handler'[q] = handler[q] /\ Wanted(q)' = Wanted(q)
      BY <2>5 DEF Idle, Wanted
    <3>2. Wanted(q) # Wanted(r) /\ Holders(Wanted(q)) = {}
      BY <2>1, <3>1 DEF PhoneInv
    <3>3. QED
      BY <2>3, <3>1, <3>2
  <2>8. QED
    BY <2>5, <2>6, <2>7 DEF PhoneInv, Wanted, Idle
<1>4. QED
  BY <1>1, <1>2, <1>3

\* A save leaves a number with the writer it had, or with the admin.
LEMMA SavePhone ==
    ASSUME AccountsTypeOK, PhoneInv, NEW r \in Handlers, Save(r)
    PROVE  PhoneInv'
<1> DEFINE u == handler[r].user
           row == handler[r].row
           who == IF IsUser(u) /\ users[u].phone = row.phone THEN users[u].writer ELSE "admin"
<1>1. u \in Users /\ row \in UserRows
  BY DEF AccountsTypeOK, Save, At, Held, Locals
<1>2. \A p : Holders(p)' \subseteq Holders(p)
  <2>1. CASE UNCHANGED users
    BY <2>1, SameHolders
  <2>2. CASE users' = [users EXCEPT ![u] = [row EXCEPT !.writer = who]]
    BY <1>1, <2>2 DEF Holders, IsUser, AccountsTypeOK, UserRows
  <2>3. QED
    BY <2>1, <2>2 DEF Save
<1>3. QED
  BY <1>2, PhoneFinish DEF Save

LEMMA DeletePhone ==
    ASSUME AccountsTypeOK, PhoneInv, NEW r \in Handlers, Delete(r)
    PROVE  PhoneInv'
<1>1. \A p : Holders(p)' \subseteq Holders(p)
  BY DEF Delete, Holders, IsUser, NoUser, AccountsTypeOK
<1>2. QED
  BY <1>1, PhoneFinish DEF Delete

\* The operations that only read, or take up a slot for something else.
LEMMA ReadsPhone ==
    ASSUME AccountsTypeOK, PhoneInv, NEW r \in Handlers,
           \/ \E s \in Spellings, e \in Given : CreateUser(r, s, e)
           \/ \E u \in Users, dto \in load.edits : EditRead(r, u, dto)
           \/ \E u \in Users : RemoveRead(r, u)
           \/ SeedByName(r) \/ SeedByEmail(r)
    PROVE  PhoneInv'
<1>0. UNCHANGED <<users, raced>> /\ \A p : Holders(p)' \subseteq Holders(p)
  BY SameHolders DEF CreateUser, EditRead, RemoveRead, SeedByName, SeedByEmail
<1>1. handler[r].pc = "seedByEmail" => handler[r].op = "seed"
  BY DEF AccountsTypeOK, Held
<1>2. ASSUME NEW l, Move(r, l), l.op \in {"create", "edit", "remove", "seed"},
             l.pc = "insert" => l.row.writer = "admin"
      PROVE  PhoneInv'
  BY <1>0, <1>2, PhoneStays
<1>3. CASE \E s \in Spellings, e \in Given : CreateUser(r, s, e)
  BY <1>2, <1>3 DEF CreateUser, Idle
<1>4. CASE \E u \in Users, dto \in load.edits : EditRead(r, u, dto)
  BY <1>2, <1>4 DEF EditRead, Idle
<1>5. CASE \E u \in Users : RemoveRead(r, u)
  BY <1>2, <1>5 DEF RemoveRead, Idle
<1>6. CASE SeedByName(r)
  BY <1>2, <1>6 DEF SeedByName, Idle
<1>7. CASE SeedByEmail(r)
  BY <1>1, <1>2, <1>7 DEF SeedByEmail, At, AdminRow, AccountsTypeOK, Locals
<1>8. QED
  BY <1>3, <1>4, <1>5, <1>6, <1>7

LEMMA PhoneStep == AccountsTypeOK /\ PhoneInv /\ AccountsNext => PhoneInv'
<1> SUFFICES ASSUME AccountsTypeOK, PhoneInv, AccountsNext PROVE PhoneInv'
  OBVIOUS
<1>1. ASSUME NEW r \in Handlers, AccountsArrive(r) PROVE PhoneInv'
  BY <1>1, RegisterPhone, ReadsPhone DEF AccountsArrive
<1>2. ASSUME NEW r \in Handlers, RegisterByEmail(r) PROVE PhoneInv'
  <2>1. UNCHANGED <<users, raced>> /\ \A p : Holders(p)' \subseteq Holders(p)
    BY <1>2, SameHolders DEF RegisterByEmail
  <2>2. handler[r].op = "register"
    BY <1>2 DEF RegisterByEmail, At, AccountsTypeOK, Held
  <2>3. QED
    BY <1>2, <2>1, <2>2, PhoneFinish, PhoneGoto DEF RegisterByEmail
<1>3. ASSUME NEW r \in Handlers, EditUnique(r) PROVE PhoneInv'
  <2>1. UNCHANGED <<users, raced>> /\ \A p : Holders(p)' \subseteq Holders(p)
    BY <1>3, SameHolders DEF EditUnique
  <2>2. QED
    BY <1>3, <2>1, PhoneFinish, PhoneGoto DEF EditUnique
<1>4. ASSUME NEW r \in Handlers, AccountsContinue(r) PROVE PhoneInv'
  BY <1>2, <1>3, <1>4, InsertPhone, SavePhone, DeletePhone, ReadsPhone DEF AccountsContinue
<1>5. ASSUME NEW r \in Handlers, Fault(r) PROVE PhoneInv'
  BY <1>5, PhoneFinish, SameHolders DEF Fault
<1>6. CASE (\E s \in Spellings : Login(s)) \/ AdminLogin
  BY <1>6, SameHolders DEF Login, AdminLogin, PhoneInv, PhoneOfOneSubscriber, Wanted, IsUser
<1>7. QED
  BY <1>1, <1>4, <1>5, <1>6 DEF AccountsNext

-----------------------------------------------------------------------------
(* Who an e-mail belongs to: the unique index gives a stored e-mail one     *)
(* user, and a token names its user's e-mail until a row has given it up.   *)

Owns(u, e) == IsUser(u) /\ users[u].email = e

MailInv ==
    /\ \A u, v \in Users, e \in Emails : Owns(u, e) /\ Owns(v, e) => u = v
    /\ \A u \in Users, e \in Emails : <<u, e>> \in tokens => e \in freed \/ Owns(u, e)

LEMMA MailInit == AccountsInit => MailInv
BY DEF AccountsInit, MailInv, Owns, IsUser, NoUser

LEMMA SignMail ==
    ASSUME MailInv, NEW u \in Users, NEW e \in Emails, Owns(u, e), Sign(u, e),
           UNCHANGED <<users, freed>>
    PROVE  MailInv'
BY DEF MailInv, Sign, Owns, IsUser

LEMMA InsertMail ==
    ASSUME AccountsTypeOK, MailInv, NEW r \in Handlers, Insert(r)
    PROVE  MailInv'
<1> DEFINE row == handler[r].row
<1>1. CASE ~Allowed({}, row)
  BY <1>1 DEF Insert, MailInv, Owns, IsUser
<1>2. CASE Allowed({}, row)
  <2>1. users' = [users EXCEPT ![NewId] = row] /\ NewId \in Users /\ ~IsUser(NewId)
    BY <1>2, NewIdIsUnused DEF Insert, Unused, IsUser
  <2>2. \A v \in Users : ~Owns(v, row.email)
    BY <1>2 DEF Allowed, WithEmail, Owns
  <2>3. row.is = "stored" /\ row.email \in Emails
    BY DEF AccountsTypeOK, Held, Insert, At
  <2>4. \A v \in Users, e \in Emails :
           Owns(v, e)' <=> IF v = NewId THEN e = row.email ELSE Owns(v, e)
    BY <2>1, <2>3 DEF Owns, IsUser, AccountsTypeOK
  <2>5. \A v \in Users, e \in Emails :
           <<v, e>> \in tokens' => <<v, e>> \in tokens \/ (v = NewId /\ e = row.email)
    BY <1>2 DEF Insert, Sign
  <2>6. UNCHANGED freed
    BY DEF Insert
  <2>7. \A v, w \in Users, e \in Emails : Owns(v, e)' /\ Owns(w, e)' => v = w
    BY <2>2, <2>4 DEF MailInv
  <2>8. \A v \in Users, e \in Emails : <<v, e>> \in tokens' => e \in freed' \/ Owns(v, e)'
    BY <2>1, <2>4, <2>5, <2>6 DEF MailInv, Owns
  <2>9. QED
    BY <2>7, <2>8 DEF MailInv
<1>3. QED
  BY <1>1, <1>2

LEMMA SaveMail ==
    ASSUME AccountsTypeOK, MailInv, NEW r \in Handlers, Save(r)
    PROVE  MailInv'
<1> DEFINE u == handler[r].user
           row == handler[r].row
           who == IF IsUser(u) /\ users[u].phone = row.phone THEN users[u].writer ELSE "admin"
<1>1. CASE ~Allowed({u}, row)
  BY <1>1 DEF Save, MailInv, Owns, IsUser
<1>2. CASE Allowed({u}, row)
  <2>1. u \in Users /\ row \in UserRows /\ row.is = "stored" /\ row.email \in Emails
    BY DEF AccountsTypeOK, Held, Save, At, Locals
  <2>2. users' = [users EXCEPT ![u] = [row EXCEPT !.writer = who]] /\ UNCHANGED tokens
    BY <1>2 DEF Save
  <2>3. \A v \in Users : Owns(v, row.email) => v = u
    BY <1>2 DEF Allowed, WithEmail, Owns
  <2>4. \A v \in Users, e \in Emails :
           Owns(v, e)' <=> IF v = u THEN e = row.email ELSE Owns(v, e)
    BY <2>1, <2>2 DEF Owns, IsUser, AccountsTypeOK, UserRows
  <2>5. \A e \in Emails : Owns(u, e) /\ e # row.email => e \in freed'
    BY <1>2 DEF Save, Owns
  <2>6. freed \subseteq freed'
    BY <1>2 DEF Save
  <2>7. \A v, w \in Users, e \in Emails : Owns(v, e)' /\ Owns(w, e)' => v = w
    BY <2>3, <2>4 DEF MailInv
  <2>8. \A v \in Users, e \in Emails : <<v, e>> \in tokens' => e \in freed' \/ Owns(v, e)'
    BY <2>2, <2>4, <2>5, <2>6 DEF MailInv
  <2>9. QED
    BY <2>7, <2>8 DEF MailInv
<1>3. QED
  BY <1>1, <1>2

LEMMA DeleteMail ==
    ASSUME AccountsTypeOK, MailInv, NEW r \in Handlers, Delete(r)
    PROVE  MailInv'
<1> DEFINE u == handler[r].user
<1>1. u \in Users
  BY DEF AccountsTypeOK, Held, Delete, At
<1>2. \A v \in Users, e \in Emails : Owns(v, e)' <=> v # u /\ Owns(v, e)
  BY <1>1 DEF Delete, Owns, IsUser, NoUser, AccountsTypeOK
<1>3. \A e \in Emails : Owns(u, e) => e \in freed'
  BY DEF Delete, Owns
<1>4. freed \subseteq freed' /\ UNCHANGED tokens
  BY DEF Delete
<1>5. QED
  BY <1>2, <1>3, <1>4 DEF MailInv

LEMMA MailStep == AccountsTypeOK /\ MailInv /\ AccountsNext => MailInv' /\ tokens \subseteq tokens'
                                                                     /\ freed \subseteq freed'
<1> SUFFICES ASSUME AccountsTypeOK, MailInv, AccountsNext
             PROVE  MailInv' /\ tokens \subseteq tokens' /\ freed \subseteq freed'
  OBVIOUS
<1>1. CASE UNCHANGED <<users, tokens, freed>>
  BY <1>1 DEF MailInv, Owns, IsUser
<1>2. ASSUME NEW r \in Handlers, Insert(r)
      PROVE  MailInv' /\ tokens \subseteq tokens' /\ freed \subseteq freed'
  BY <1>2, InsertMail DEF Insert, Sign
<1>3. ASSUME NEW r \in Handlers, Save(r)
      PROVE  MailInv' /\ tokens \subseteq tokens' /\ freed \subseteq freed'
  BY <1>3, SaveMail DEF Save
<1>4. ASSUME NEW r \in Handlers, Delete(r)
      PROVE  MailInv' /\ tokens \subseteq tokens' /\ freed \subseteq freed'
  BY <1>4, DeleteMail DEF Delete
<1>5. ASSUME NEW s \in Spellings, Login(s)
      PROVE  MailInv' /\ tokens \subseteq tokens' /\ freed \subseteq freed'
  <2>1. PICK u \in WithPhone(Normal[s]) : Sign(u, users[u].email)
    BY <1>5 DEF Login
  <2>2. u \in Users /\ users[u].email \in Emails /\ Owns(u, users[u].email)
    BY <2>1 DEF WithPhone, IsUser, Owns, AccountsTypeOK
  <2>3. QED
    BY <1>5, <2>1, <2>2, SignMail DEF Login, Sign
<1>6. ASSUME AdminLogin PROVE MailInv' /\ tokens \subseteq tokens' /\ freed \subseteq freed'
  <2>1. PICK u \in Users : IsUser(u) /\ Sign(u, users[u].email)
    BY <1>6 DEF AdminLogin
  <2>2. users[u].email \in Emails /\ Owns(u, users[u].email)
    BY <2>1 DEF IsUser, Owns, AccountsTypeOK
  <2>3. QED
    BY <1>6, <2>1, <2>2, SignMail DEF AdminLogin, Sign
<1>7. ASSUME NEW r \in Handlers, AccountsArrive(r) \/ Fault(r)
      PROVE  UNCHANGED <<users, tokens, freed>>
  BY <1>7 DEF AccountsArrive, Fault, Register, CreateUser, EditRead, RemoveRead, SeedByName
<1>8. ASSUME NEW r \in Handlers, RegisterByEmail(r) \/ EditUnique(r) \/ SeedByEmail(r)
      PROVE  UNCHANGED <<users, tokens, freed>>
  BY <1>8 DEF RegisterByEmail, EditUnique, SeedByEmail
<1>9. QED
  BY <1>1, <1>2, <1>3, <1>4, <1>5, <1>6, <1>7, <1>8 DEF AccountsNext, AccountsContinue

=============================================================================
