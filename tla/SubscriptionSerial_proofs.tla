---------------------- MODULE SubscriptionSerial_proofs ----------------------
(***************************************************************************)
(* Requests that do not disturb each other: while every subscriber has one *)
(* request in flight at most and no admin writes beside them, the three or *)
(* four awaits of a handler amount to one change of SubscriptionContract,  *)
(* whatever fails in between, a user never has two current rows, a row     *)
(* gets one initial shipment, and what the rows grant is what Stripe       *)
(* bills. Requests of different subscribers overlap as they like.          *)
(***************************************************************************)
EXTENDS SubscriptionLifecycle_proofs

\* At most one request is in flight.
OneAtATime == \A q, r \in Requests : q = r

\* No admin writes rows.
NoAdmin == AdminOps \intersect Ops = {}

\* The workloads of this module: either way no admin's write overlaps anything.
AdminApart == OneAtATime \/ NoAdmin

\* No subscriber has two requests in flight. Those of different subscribers overlap
\* as they like, and with one slot it holds of every state.
OwnTurn ==
    \A q, r \in Requests :
        q # r /\ ~At(q, "idle") /\ ~At(r, "idle") => req[q].user # req[r].user

LEMMA OneTakesTurns == OneAtATime => AdminApart /\ OwnTurn
BY DEF OneAtATime, AdminApart, OwnTurn

-----------------------------------------------------------------------------
(* The inductive invariant: what the first reads of a handler saw is still  *)
(* so when it writes.                                                       *)

WellFormed ==
    /\ \A s \in SubIds : Stored(s) => subs[s].user \in Users
    /\ \A s \in SubIds : s >= nextSub => subs[s].status = "UNUSED"

\* The status an update under way will leave.
NextStatus(l) == OrElse(l.dto.status, subs[l.sub].status)

StillTrue(l) ==
    /\ l.pc = "subInsert" => Current(l.user) = {}
    /\ l.pc = "adminInsert" /\ l.dto.status \in CurrentStatuses => Current(l.user) = {}
    /\ l.pc = "svcWrite" => l.sub \in Current(l.user)
    /\ l.pc \in {"updCheck", "updWrite"} =>
          /\ Stored(l.sub)
          /\ l.user = OrElse(l.dto.user, subs[l.sub].user)
    /\ l.pc = "updWrite" /\ NextStatus(l) \in CurrentStatuses => Current(l.user) \subseteq {l.sub}
    /\ l.pc \in {"subInsert", "subCheck"} => l.op \in {"subscribe", "confirm"}
    /\ l.pc \in {"adminInsert", "updCheck", "updWrite", "delete"} => AdminOps \intersect Ops # {}

SerialInv ==
    /\ WellFormed
    /\ AtMostOneCurrent
    /\ \A r \in Requests : StillTrue(req[r])

LEMMA SerialInit == Init => SerialInv
BY DEF Init, SerialInv, WellFormed, AtMostOneCurrent, StillTrue, IdleSlot, NoRow, Stored,
   NotStored, CurrentStatuses

-----------------------------------------------------------------------------
(* The slots. *)

\* A step that leaves the rows alone keeps what a slot knows that it does not
\* touch, and a fresh slot knows nothing.
LEMMA SlotKeeps ==
    ASSUME TypeOK, SerialInv, NEW r \in Requests, UNCHANGED <<subs, nextSub>>,
           NEW l \in Locals, req' = [req EXCEPT ![r] = l], StillTrue(l)
    PROVE  SerialInv'
<1>1. \A q \in Requests : req'[q] = IF q = r THEN l ELSE req[q]
  BY DEF TypeOK
<1>2. \A m : StillTrue(m) => StillTrue(m)'
  BY DEF StillTrue, Current, Stored, NextStatus
<1>3. ASSUME NEW q \in Requests PROVE StillTrue(req[q])'
  <2>1. PICK m : m = req'[q] /\ StillTrue(m)
    BY <1>1 DEF SerialInv
  <2>2. QED
    BY <1>2, <2>1 DEF StillTrue, Current, Stored, NextStatus
<1>4. QED
  BY <1>3 DEF SerialInv, WellFormed, AtMostOneCurrent, Stored

\* A slot that is free or at a step that remembers nothing.
Careless == {"idle", "shipFind", "shipInsert", "payInsert", "checkoutCreate", "stripeCall",
             "svcRead", "reread"}

LEMMA CarelessSlot ==
    ASSUME TypeOK, SerialInv, NEW r \in Requests, WellFormed', AtMostOneCurrent',
           \A q \in Requests \ {r} : StillTrue(req[q])',
           NEW l, req' = [req EXCEPT ![r] = l], l.pc \in Careless
    PROVE  SerialInv'
<1>1. req'[r] = l
  BY DEF TypeOK
<1>2. StillTrue(req[r])'
  BY <1>1 DEF StillTrue, Careless
<1>3. QED
  BY <1>2 DEF SerialInv

LEMMA IdleCareless == IdleSlot.pc \in Careless /\ IdleSlot \in Locals
BY DEF IdleSlot, Careless, Locals, Steps, NoSub, NoStripe, NoDto, Dtos

-----------------------------------------------------------------------------
(* The rows: what an INSERT and an UPDATE do to them and to the contract.   *)

Rules == WellFormed /\ AtMostOneCurrent

LEMMA OpenRow ==
    ASSUME TypeOK, Rules, NEW row \in Rows, Insert(row),
           row.user \in Users, row.status \in Statuses,
           row.status \in CurrentStatuses => Current(row.user) = {},
           row.status = "ACTIVE" \/ AdminOps \intersect Ops # {}
    PROVE  Rules' /\ Contract!Next
<1>1. nextSub \in SubIds /\ subs[nextSub].status = "UNUSED"
  BY ConstantsAssumption DEF TypeOK, Insert, SubIds, Rules, WellFormed
<1>2. subs' = [subs EXCEPT ![nextSub] = row] /\ nextSub' = nextSub + 1
  BY DEF Insert
<1>3. WellFormed'
  <2>1. ASSUME NEW s \in SubIds, Stored(s)' PROVE subs'[s].user \in Users
    BY <1>1, <1>2, <2>1 DEF Rules, WellFormed, Stored, TypeOK
  <2>2. ASSUME NEW s \in SubIds, s >= nextSub' PROVE subs'[s].status = "UNUSED"
    <3>1. s >= nextSub /\ s # nextSub
      BY <1>2, <2>2 DEF TypeOK, SubIds
    <3>2. QED
      BY <3>1, <1>2 DEF Rules, WellFormed, TypeOK
  <2>3. QED
    BY <2>1, <2>2 DEF WellFormed
<1>4. AtMostOneCurrent'
  BY <1>1, <1>2 DEF Rules, AtMostOneCurrent, Current, TypeOK
<1>5. Contract!Open(nextSub, row.user, row.status)
  <2>1. [s \in SubIds |-> [user |-> subs'[s].user, status |-> subs'[s].status]]
          = [[s \in SubIds |-> [user |-> subs[s].user, status |-> subs[s].status]]
               EXCEPT ![nextSub] = [user |-> row.user, status |-> row.status]]
    BY <1>1, <1>2 DEF TypeOK
  <2>2. QED
    BY <1>1, <2>1 DEF Contract!Open, Contract!HasOther, Contract!SubIds, Contract!Current,
       Current, CurrentStatuses, SubIds
<1>6. row.status \in Contract!Stored /\ nextSub \in Contract!SubIds
  BY <1>1 DEF Statuses, Contract!Stored, Contract!Current, Contract!SubIds, SubIds
<1>7. QED
  BY <1>3, <1>4, <1>5, <1>6 DEF Rules, Contract!Next

LEMMA WriteRow ==
    ASSUME TypeOK, Rules, NEW s \in SubIds, Stored(s), NEW row \in Rows,
           subs' = [subs EXCEPT ![s] = row], UNCHANGED nextSub,
           row.user \in Users, row.status \in Statuses,
           row.status \in CurrentStatuses => Current(row.user) \subseteq {s},
           \/ AdminOps \intersect Ops # {}
           \/ subs[s].status \in CurrentStatuses /\ row.user = subs[s].user
    PROVE  Rules' /\ Contract!Next
<1>1. WellFormed'
  BY DEF Rules, WellFormed, Stored, TypeOK, NotStored
<1>2. AtMostOneCurrent'
  BY DEF Rules, AtMostOneCurrent, Current, TypeOK
<1>3. [t \in SubIds |-> [user |-> subs'[t].user, status |-> subs'[t].status]]
        = [[t \in SubIds |-> [user |-> subs[t].user, status |-> subs[t].status]]
             EXCEPT ![s] = [user |-> row.user, status |-> row.status]]
  BY DEF TypeOK
<1>4. subs[s].status \in Statuses
  BY DEF TypeOK, Rows, Stored
<1>5. row.status \in Contract!Stored /\ s \in Contract!SubIds /\ subs[s].status \in Contract!Stored
  BY <1>4 DEF Statuses, Contract!Stored, Contract!Current, Contract!SubIds, SubIds
<1>6. CASE AdminOps \intersect Ops # {}
  <2>1. Contract!Edit(s, row.user, row.status)
    BY <1>3, <1>5, <1>6 DEF Contract!Edit, Contract!HasOther, Contract!SubIds, Contract!Current,
       Current, CurrentStatuses, SubIds
  <2>2. QED
    BY <1>1, <1>2, <1>5, <2>1 DEF Rules, Contract!Next
<1>7. CASE subs[s].status \in CurrentStatuses /\ row.user = subs[s].user
  <2>1. [[t \in SubIds |-> [user |-> subs[t].user, status |-> subs[t].status]]
           EXCEPT ![s] = [user |-> row.user, status |-> row.status]]
        = [[t \in SubIds |-> [user |-> subs[t].user, status |-> subs[t].status]]
             EXCEPT ![s].status = row.status]
    BY <1>7
  <2>2. Contract!Change(s, row.status)
    BY <1>3, <1>7, <2>1 DEF Contract!Change, Contract!Current, CurrentStatuses
  <2>3. QED
    BY <1>1, <1>2, <1>5, <2>2 DEF Rules, Contract!Next
<1>8. QED
  BY <1>6, <1>7

-----------------------------------------------------------------------------
(* The other requests.                                                      *)

Unwritten == UNCHANGED <<subs, nextSub>>

\* A step of a handler moves no slot but its own.
LEMMA OtherSlots ==
    ASSUME TypeOK, NEW r \in Requests, Continue(r), NEW q \in Requests, q # r
    PROVE  req'[q] = req[q]
<1> USE DEF TypeOK, Goto, Finish, AfterShipments
<1>1. CASE ConfirmCheck(r) \/ SubInsert(r) \/ ShipFind(r) \/ ShipInsert(r) \/ PayInsert(r)
  BY <1>1 DEF ConfirmCheck, SubInsert, ShipFind, ShipInsert, PayInsert
<1>2. CASE CheckoutCreate(r) \/ StripeCall(r) \/ SvcRead(r) \/ SvcWrite(r) \/ Reread(r)
  BY <1>2 DEF CheckoutCreate, StripeCall, SvcRead, SvcWrite, Reread
<1>3. CASE AdminInsert(r) \/ AdminUpdateCheck(r) \/ AdminUpdateWrite(r) \/ AdminRemove(r)
  BY <1>3 DEF AdminInsert, AdminUpdateCheck, AdminUpdateWrite, AdminRemove
<1>4. QED
  BY <1>1, <1>2, <1>3 DEF Continue

\* Without an admin a handler writes rows of its own user only.
LEMMA OwnRows ==
    ASSUME TypeOK, SerialInv, NoAdmin, NEW r \in Requests, Continue(r), NEW s \in SubIds
    PROVE  \/ subs'[s] = subs[s]
           \/ /\ ~At(r, "idle") /\ subs'[s].user = req[r].user
              /\ Stored(s) => subs[s].user = req[r].user
<1>1. StillTrue(req[r]) /\ Filled(req[r])
  BY DEF SerialInv, TypeOK
<1>2. CASE SubInsert(r)
  <2>1. subs[nextSub].status = "UNUSED"
    BY <1>2, ConstantsAssumption DEF SubInsert, Insert, TypeOK, SubIds, SerialInv, WellFormed
  <2>2. QED
    BY <1>2, <2>1 DEF SubInsert, Insert, TypeOK, At, Stored, NotStored
<1>3. CASE SvcWrite(r)
  BY <1>1, <1>3 DEF SvcWrite, At, StillTrue, Current, TypeOK, Rows
<1>4. ~AdminInsert(r) /\ ~AdminUpdateWrite(r) /\ ~AdminRemove(r)
  BY <1>1 DEF StillTrue, NoAdmin, AdminInsert, AdminUpdateWrite, AdminRemove, At
<1>5. CASE subs' = subs
  BY <1>5
<1>6. QED
  BY <1>2, <1>3, <1>4, <1>5 DEF Continue, ConfirmCheck, ShipFind, ShipInsert, PayInsert,
     CheckoutCreate, StripeCall, SvcRead, Reread, AdminUpdateCheck, db

LEMMA OthersCurrent ==
    ASSUME TypeOK, SerialInv, NoAdmin, NEW r \in Requests, Continue(r), NEW v, v # req[r].user
    PROVE  /\ Current(v)' = Current(v)
           /\ \A s \in Current(v) : subs'[s] = subs[s]
<1>1. ASSUME NEW s \in Current(v) PROVE subs'[s] = subs[s] /\ s \in Current(v)'
  <2>1. s \in SubIds /\ Stored(s) /\ subs[s].user = v
    BY DEF Current, Stored, CurrentStatuses, NotStored
  <2>2. subs'[s] = subs[s]
    BY <2>1, OwnRows
  <2>3. QED
    BY <2>1, <2>2 DEF Current
<1>2. ASSUME NEW s \in SubIds, s \in Current(v)' PROVE s \in Current(v)
  <2>1. subs'[s] = subs[s]
    BY <1>2, OwnRows DEF Current
  <2>2. QED
    BY <1>2, <2>1 DEF Current
<1>3. Current(v)' \subseteq SubIds
  BY DEF Current
<1>4. QED
  BY <1>1, <1>2, <1>3

\* What a request knows of its user's rows, no request of another user disturbs.
LEMMA OthersKnow ==
    ASSUME TypeOK, SerialInv, OwnTurn, AdminApart, NEW r \in Requests, Continue(r),
           NEW q \in Requests \ {r}
    PROVE  StillTrue(req[q])'
<1> DEFINE m == req[q]
<1>1. req'[q] = m /\ StillTrue(m) /\ NoAdmin
  BY OtherSlots DEF SerialInv, AdminApart, OneAtATime
<1>2. CASE Unwritten
  BY <1>1, <1>2 DEF Unwritten, StillTrue, Current, Stored, NextStatus
<1>3. CASE m.pc = "idle"
  BY <1>1, <1>3 DEF StillTrue
<1>4. CASE ~Unwritten /\ m.pc # "idle"
  <2>1. ~At(r, "idle")
    BY <1>4 DEF Continue, ConfirmCheck, SubInsert, ShipFind, ShipInsert, PayInsert,
       CheckoutCreate, StripeCall, SvcRead, SvcWrite, Reread, AdminInsert, AdminUpdateCheck,
       AdminUpdateWrite, AdminRemove, At
  <2>2. m.user # req[r].user
    BY <1>4, <2>1 DEF OwnTurn, At
  <2>3. Current(m.user)' = Current(m.user)
    BY <1>1, <2>2, OthersCurrent
  <2>4. m.pc \notin {"adminInsert", "updCheck", "updWrite", "delete"}
    BY <1>1 DEF StillTrue, NoAdmin
  <2>5. Current(req[q].user)' = Current(m.user)
    BY <1>1, <2>3 DEF Current
  <2>6. QED
    BY <1>1, <2>4, <2>5 DEF StillTrue
<1>5. QED
  BY <1>2, <1>3, <1>4

-----------------------------------------------------------------------------
(* Every step.                                                              *)

LEMMA SerialArrive ==
    ASSUME TypeOK, SerialInv, NEW r \in Requests, Arrive(r)
    PROVE  SerialInv' /\ Unwritten
<1> USE DEF IdleSlot, NoSub, NoStripe, NoDto
<1>1. ASSUME NEW op \in Ops, NEW l, Accept(r, op, l), [l EXCEPT !.op = op] \in Locals,
             StillTrue([l EXCEPT !.op = op]), UNCHANGED <<db, pay, fails>>
      PROVE  SerialInv' /\ Unwritten
  BY <1>1, SlotKeeps DEF Accept, Unwritten, db
<1>2. ASSUME NEW u \in Users, NEW p \in Plans, SubscribeCheck(r, u, p)
      PROVE  SerialInv' /\ Unwritten
  <2> DEFINE l == [IdleSlot EXCEPT !.pc = "subInsert", !.user = u, !.plan = p]
  <2>1. Current(u) = {} /\ Accept(r, "subscribe", l) /\ UNCHANGED <<db, pay, fails>>
    BY <1>2 DEF SubscribeCheck
  <2>2. [l EXCEPT !.op = "subscribe"] \in Locals
    BY DEF Locals, Steps, Dtos, UserOps
  <2>3. StillTrue([l EXCEPT !.op = "subscribe"])
    BY <2>1 DEF StillTrue
  <2> HIDE DEF l
  <2>4. QED
    BY <2>1, <2>2, <2>3, <1>1 DEF Accept
<1>3. ASSUME NEW u \in Users, NEW p \in Plans, CheckoutCheck(r, u, p)
      PROVE  SerialInv' /\ Unwritten
  <2> DEFINE l == [IdleSlot EXCEPT !.pc = "checkoutCreate", !.user = u, !.plan = p]
  <2>1. Accept(r, "checkout", l) /\ UNCHANGED <<db, pay, fails>>
    BY <1>3 DEF CheckoutCheck
  <2>2. [l EXCEPT !.op = "checkout"] \in Locals
    BY DEF Locals, Steps, Dtos, UserOps
  <2>3. StillTrue([l EXCEPT !.op = "checkout"])
    BY DEF StillTrue
  <2> HIDE DEF l
  <2>4. QED
    BY <2>1, <2>2, <2>3, <1>1 DEF Accept
<1>4. ASSUME NEW u \in Users, NEW p \in Plans, NEW i \in StripeIds, ConfirmRead(r, u, p, i)
      PROVE  SerialInv' /\ Unwritten
  <2> DEFINE l == [IdleSlot EXCEPT !.pc = "subCheck", !.user = u, !.plan = p, !.stripe = i]
  <2>1. Accept(r, "confirm", l) /\ UNCHANGED <<db, pay, fails>>
    BY <1>4 DEF ConfirmRead
  <2>2. [l EXCEPT !.op = "confirm"] \in Locals
    BY DEF Locals, Steps, Dtos, UserOps
  <2>3. StillTrue([l EXCEPT !.op = "confirm"])
    BY DEF StillTrue
  <2> HIDE DEF l
  <2>4. QED
    BY <2>1, <2>2, <2>3, <1>1 DEF Accept
<1>5. ASSUME NEW u \in Users, NEW op \in {"pause", "resume", "cancel"}, CurrentRead(r, u, op)
      PROVE  SerialInv' /\ Unwritten
  <2>1. PICK s \in Current(u) :
          Accept(r, op, [IdleSlot EXCEPT
                           !.pc = IF subs[s].stripe = NoStripe THEN "svcRead" ELSE "stripeCall",
                           !.user = u, !.stripe = subs[s].stripe])
    BY <1>5 DEF CurrentRead
  <2> DEFINE step == IF subs[s].stripe = NoStripe THEN "svcRead" ELSE "stripeCall"
  <2> DEFINE l == [IdleSlot EXCEPT !.pc = step, !.user = u, !.stripe = subs[s].stripe]
  <2>2. subs[s].stripe \in StripeIds \union {NoStripe}
    BY DEF TypeOK, Current, Rows
  <2>3. step \in {"svcRead", "stripeCall"}
    OBVIOUS
  <2>4. Accept(r, op, l)
    BY <2>1
  <2>5. [l EXCEPT !.op = op] \in Locals
    <3> HIDE DEF step
    <3>1. QED
      BY <2>2, <2>3 DEF Locals, Steps, Dtos, UserOps
  <2>6. StillTrue([l EXCEPT !.op = op])
    <3> HIDE DEF step
    <3>1. QED
      BY <2>3 DEF StillTrue
  <2> HIDE DEF l
  <2>7. QED
    BY <2>4, <2>5, <2>6, <1>1, <1>5 DEF Accept, CurrentRead
<1>6. ASSUME NEW u \in Users, DashboardRead(r, u)
      PROVE  SerialInv' /\ Unwritten
  <2> DEFINE active == {s \in Current(u) : subs[s].status = "ACTIVE"}
  <2> DEFINE l == [IdleSlot EXCEPT !.pc = "shipFind", !.user = u, !.todo = active]
  <2>1. Accept(r, "dashboard", l) /\ UNCHANGED <<db, pay, fails>>
    BY <1>6 DEF DashboardRead
  <2>2. [l EXCEPT !.op = "dashboard"] \in Locals
    BY DEF Locals, Steps, Dtos, UserOps, Current
  <2>3. StillTrue([l EXCEPT !.op = "dashboard"])
    BY DEF StillTrue
  <2> HIDE DEF l
  <2>4. QED
    BY <2>1, <2>2, <2>3, <1>1 DEF Accept
<1>7. ASSUME NEW u \in Users, NEW p \in Plans, NEW st \in Statuses, AdminCreateCheck(r, u, p, st)
      PROVE  SerialInv' /\ Unwritten
  <2> DEFINE l == [IdleSlot EXCEPT !.pc = "adminInsert", !.user = u, !.plan = p,
                                   !.dto.status = st]
  <2>1. /\ st \in CurrentStatuses => Current(u) = {}
        /\ Accept(r, "adminCreate", l) /\ UNCHANGED <<db, pay, fails>>
    BY <1>7 DEF AdminCreateCheck
  <2>2. [l EXCEPT !.op = "adminCreate"] \in Locals
    BY DEF Locals, Steps, Dtos, AdminOps
  <2>3. "adminCreate" \in Ops
    BY <2>1 DEF Accept
  <2>4. StillTrue([l EXCEPT !.op = "adminCreate"])
    BY <2>1, <2>3 DEF StillTrue, AdminOps
  <2> HIDE DEF l
  <2>5. QED
    BY <2>1, <2>2, <2>3, <2>4, <1>1
<1>8. ASSUME NEW s \in SubIds, NEW dto \in Edits, AdminUpdateRead(r, s, dto)
      PROVE  SerialInv' /\ Unwritten
  <2> DEFINE next == OrElse(dto.status, subs[s].status)
  <2> DEFINE step == IF next \in CurrentStatuses THEN "updCheck" ELSE "updWrite"
  <2> DEFINE target == OrElse(dto.user, subs[s].user)
  <2> DEFINE l == [IdleSlot EXCEPT !.pc = step, !.user = target, !.sub = s, !.dto = dto]
  <2>1. Stored(s) /\ Accept(r, "adminUpdate", l) /\ UNCHANGED <<db, pay, fails>>
    BY <1>8 DEF AdminUpdateRead
  <2>2. dto \in Dtos
    BY EditsAssumption
  <2>3. target \in Users \union {None}
    BY <2>2 DEF OrElse, TypeOK, Rows, Dtos
  <2>4. step \in {"updCheck", "updWrite"} /\ (step = "updWrite" => next \notin CurrentStatuses)
    OBVIOUS
  <2>5. [l EXCEPT !.op = "adminUpdate"] \in Locals
    <3> HIDE DEF step, target
    <3>1. QED
      BY <2>2, <2>3, <2>4 DEF Locals, Steps, AdminOps
  <2>6. "adminUpdate" \in Ops
    BY <2>1 DEF Accept
  <2>7. StillTrue([l EXCEPT !.op = "adminUpdate"])
    <3> HIDE DEF step
    <3>1. QED
      BY <2>1, <2>4, <2>6 DEF StillTrue, NextStatus, AdminOps
  <2> HIDE DEF l
  <2>8. QED
    BY <2>1, <2>5, <2>6, <2>7, <1>1
<1>9. ASSUME NEW s \in SubIds, AdminRemoveRead(r, s)
      PROVE  SerialInv' /\ Unwritten
  <2> DEFINE l == [IdleSlot EXCEPT !.pc = "delete", !.sub = s]
  <2>1. Accept(r, "adminRemove", l) /\ UNCHANGED <<db, pay, fails>>
    BY <1>9 DEF AdminRemoveRead
  <2>2. [l EXCEPT !.op = "adminRemove"] \in Locals
    BY DEF Locals, Steps, Dtos, AdminOps
  <2>3. "adminRemove" \in Ops
    BY <2>1 DEF Accept
  <2>4. StillTrue([l EXCEPT !.op = "adminRemove"])
    BY <2>3 DEF StillTrue, AdminOps
  <2> HIDE DEF l
  <2>5. QED
    BY <2>1, <2>2, <2>3, <2>4, <1>1
<1>10. QED
  BY <1>2, <1>3, <1>4, <1>5, <1>6, <1>7, <1>8, <1>9 DEF Arrive

LEMMA SerialContinue ==
    ASSUME TypeOK, SerialInv, OwnTurn, AdminApart, NEW r \in Requests, Continue(r)
    PROVE  SerialInv' /\ (Contract!Next \/ Unwritten)
<1> DEFINE l == req[r]
<1>l. l \in Locals /\ Filled(l) /\ StillTrue(l) /\ Rules
  BY DEF TypeOK, SerialInv, Rules
<1>u. Unwritten => Rules'
  BY <1>l DEF Unwritten, Rules, WellFormed, AtMostOneCurrent, Stored
<1>o. \A q \in Requests \ {r} : StillTrue(req[q])'
  BY OthersKnow
<1>f. Finish(r) /\ Rules' => SerialInv'
  BY <1>o, CarelessSlot, IdleCareless DEF Finish, Rules
<1>g. ASSUME NEW step \in Careless, Goto(r, step), Rules' PROVE SerialInv'
  <2>1. req' = [req EXCEPT ![r] = [l EXCEPT !.pc = step]]
    BY <1>g DEF Goto, TypeOK
  <2>2. [l EXCEPT !.pc = step].pc = step
    BY <1>l DEF Locals
  <2>3. QED
    BY <1>g, <1>o, <2>1, <2>2, CarelessSlot DEF Rules
<1>n. ASSUME NEW s, req' = [req EXCEPT ![r].pc = "shipFind", ![r].sub = s, ![r].todo = {s}], Rules'
      PROVE  SerialInv'
  <2> DEFINE m == [l EXCEPT !.pc = "shipFind", !.sub = s, !.todo = {s}]
  <2>1. req' = [req EXCEPT ![r] = m]
    BY <1>n DEF TypeOK
  <2>2. m.pc \in Careless
    BY <1>l DEF Locals, Careless
  <2> HIDE DEF m
  <2>3. QED
    BY <1>n, <1>o, <2>1, <2>2, CarelessSlot DEF Rules
<1>a. AfterShipments(r) /\ Rules' => SerialInv'
  BY <1>f, <1>g DEF AfterShipments, Careless
<1>1. CASE ConfirmCheck(r)
  <2>1. Unwritten
    BY <1>1 DEF ConfirmCheck, Unwritten, db
  <2>2. CASE Current(l.user) = {}
    <3> DEFINE m == [l EXCEPT !.pc = "subInsert"]
    <3>1. req' = [req EXCEPT ![r] = m]
      BY <1>1, <2>2 DEF ConfirmCheck, Goto, TypeOK
    <3>2. m \in Locals
      BY <1>l DEF Locals, Steps
    <3>3. StillTrue(m)
      BY <1>1, <1>l, <2>2 DEF StillTrue, Locals, ConfirmCheck, At
    <3> HIDE DEF m
    <3>4. QED
      BY <2>1, <3>1, <3>2, <3>3, SlotKeeps DEF Unwritten
  <2>3. CASE Current(l.user) # {}
    BY <1>1, <2>1, <2>3, <1>u, <1>f DEF ConfirmCheck
  <2>4. QED
    BY <2>1, <2>2, <2>3
<1>2. CASE SubInsert(r)
  <2> DEFINE row == [user |-> l.user, plan |-> l.plan, status |-> "ACTIVE",
                     stripe |-> l.stripe]
  <2>1. l.pc = "subInsert" /\ l.user \in Users /\ l.plan \in Plans /\ Current(l.user) = {}
    BY <1>2, <1>l DEF SubInsert, At, Filled, StillTrue
  <2>2. row \in Rows /\ row.user = l.user /\ row.status = "ACTIVE"
    BY <1>l DEF Rows, Locals, Statuses
  <2>3. Insert(row)
    BY <1>2 DEF SubInsert
  <2> HIDE DEF row
  <2>4. Rules' /\ Contract!Next
    BY <1>l, <2>1, <2>2, <2>3, OpenRow DEF Statuses
  <2>5. QED
    BY <1>2, <2>4, <1>n DEF SubInsert
<1>3. CASE ShipFind(r)
  <2>1. Unwritten /\ Rules'
    BY <1>3, <1>u DEF ShipFind, Unwritten, db
  <2>2. CASE AfterShipments(r)
    BY <2>1, <2>2, <1>a
  <2>3. CASE ~AfterShipments(r)
    <3> DEFINE missing == {s \in l.todo : ships[s] = 0}
    <3> DEFINE m == [l EXCEPT !.pc = "shipInsert", !.todo = missing]
    <3>1. req' = [req EXCEPT ![r] = m]
      BY <1>3, <2>3 DEF ShipFind, TypeOK
    <3>2. m.pc \in Careless
      BY <1>l DEF Locals, Careless
    <3> HIDE DEF m
    <3>3. QED
      BY <1>o, <2>1, <3>1, <3>2, CarelessSlot DEF Rules
  <2>4. QED
    BY <2>2, <2>3
<1>4. CASE ShipInsert(r)
  <2>1. Unwritten
    BY <1>4 DEF ShipInsert, Unwritten
  <2>2. QED
    BY <1>4, <2>1, <1>u, <1>f, <1>a DEF ShipInsert
<1>5. CASE PayInsert(r)
  BY <1>5, <1>u, <1>f DEF PayInsert, Unwritten
<1>6. CASE CheckoutCreate(r)
  BY <1>6, <1>u, <1>f DEF CheckoutCreate, Unwritten, db
<1>7. CASE StripeCall(r)
  BY <1>7, <1>u, <1>f, <1>g DEF StripeCall, Unwritten, db, Careless
<1>8. CASE SvcRead(r)
  <2>1. Unwritten
    BY <1>8 DEF SvcRead, Unwritten, db
  <2>2. CASE Finish(r)
    BY <2>1, <2>2, <1>u, <1>f
  <2>3. ASSUME NEW s \in Current(l.user), req' = [req EXCEPT ![r].pc = "svcWrite", ![r].sub = s]
        PROVE  SerialInv'
    <3> DEFINE m == [l EXCEPT !.pc = "svcWrite", !.sub = s]
    <3>1. req' = [req EXCEPT ![r] = m]
      BY <2>3 DEF TypeOK
    <3>2. m \in Locals
      BY <1>l DEF Locals, Steps, Current
    <3>3. StillTrue(m)
      BY <1>l DEF StillTrue, Locals, Current
    <3> HIDE DEF m
    <3>4. QED
      BY <2>1, <3>1, <3>2, <3>3, SlotKeeps DEF Unwritten
  <2>4. QED
    BY <1>8, <2>1, <2>2, <2>3 DEF SvcRead
<1>9. CASE SvcWrite(r)
  <2> DEFINE row == [subs[l.sub] EXCEPT !.status = Target(l.op)]
  <2>1. l.sub \in SubIds /\ subs[l.sub].status \in CurrentStatuses
    BY <1>9, <1>l DEF SvcWrite, At, StillTrue, Current
  <2>2. Stored(l.sub)
    BY <2>1 DEF Stored, CurrentStatuses, NotStored
  <2>3. Target(l.op) \in Statuses
    BY DEF Target, Statuses
  <2>4. row \in Rows /\ row.user = subs[l.sub].user /\ row.status = Target(l.op)
    BY <2>1, <2>3 DEF TypeOK, Rows
  <2>5. Current(row.user) \subseteq {l.sub} /\ row.user \in Users
    BY <2>1, <2>2, <2>4, <1>l DEF Current, Rules, AtMostOneCurrent, WellFormed
  <2>6. subs' = [subs EXCEPT ![l.sub] = row] /\ UNCHANGED nextSub
    BY <1>9, <2>1, <2>2 DEF SvcWrite, TypeOK
  <2> HIDE DEF row
  <2>7. Rules' /\ Contract!Next
    BY <1>l, <2>1, <2>2, <2>3, <2>4, <2>5, <2>6, WriteRow
  <2>8. QED
    BY <1>9, <2>7, <1>f, <1>g DEF SvcWrite, Careless
<1>10. CASE Reread(r)
  <2>1. Unwritten /\ Rules'
    BY <1>10, <1>u DEF Reread, Unwritten, db
  <2>2. CASE Finish(r)
    BY <2>1, <2>2, <1>f
  <2>3. CASE ~Finish(r)
    <3> DEFINE m == [l EXCEPT !.pc = "shipFind", !.todo = {l.sub}]
    <3>1. req' = [req EXCEPT ![r] = m]
      BY <1>10, <2>3 DEF Reread, TypeOK
    <3>2. m.pc \in Careless
      BY <1>l DEF Locals, Careless
    <3> HIDE DEF m
    <3>3. QED
      BY <1>o, <2>1, <3>1, <3>2, CarelessSlot DEF Rules
  <2>4. QED
    BY <2>2, <2>3
<1>11. CASE AdminInsert(r)
  <2> DEFINE row == [user |-> l.user, plan |-> l.plan, status |-> l.dto.status,
                     stripe |-> NoStripe]
  <2>1. /\ l.pc = "adminInsert" /\ l.user \in Users /\ l.plan \in Plans
        /\ l.dto.status \in Statuses
        /\ l.dto.status \in CurrentStatuses => Current(l.user) = {}
        /\ AdminOps \intersect Ops # {}
    BY <1>11, <1>l DEF AdminInsert, At, Filled, StillTrue
  <2>2. row \in Rows /\ row.user = l.user /\ row.status = l.dto.status
    BY <2>1 DEF Rows
  <2>3. Insert(row)
    BY <1>11 DEF AdminInsert
  <2> HIDE DEF row
  <2>4. Rules' /\ Contract!Next
    BY <1>l, <2>1, <2>2, <2>3, OpenRow
  <2>5. QED
    BY <1>11, <2>4, <1>n, <1>f DEF AdminInsert
<1>12. CASE AdminUpdateCheck(r)
  <2>1. Unwritten
    BY <1>12 DEF AdminUpdateCheck, Unwritten, db
  <2>2. CASE Current(l.user) \subseteq {l.sub}
    <3> DEFINE m == [l EXCEPT !.pc = "updWrite"]
    <3>1. req' = [req EXCEPT ![r] = m]
      BY <1>12, <2>2 DEF AdminUpdateCheck, Goto, TypeOK
    <3>2. m \in Locals
      BY <1>l DEF Locals, Steps
    <3>3. StillTrue(m)
      BY <1>12, <1>l, <2>2 DEF StillTrue, Locals, AdminUpdateCheck, At
    <3> HIDE DEF m
    <3>4. QED
      BY <2>1, <3>1, <3>2, <3>3, SlotKeeps DEF Unwritten
  <2>3. CASE ~(Current(l.user) \subseteq {l.sub})
    BY <1>12, <2>1, <2>3, <1>u, <1>f DEF AdminUpdateCheck
  <2>4. QED
    BY <2>1, <2>2, <2>3
<1>13. CASE AdminUpdateWrite(r)
  <2> DEFINE old == subs[l.sub]
  <2> DEFINE row == [old EXCEPT !.status = OrElse(l.dto.status, old.status),
                                !.user   = OrElse(l.dto.user, old.user),
                                !.plan   = OrElse(l.dto.plan, old.plan)]
  <2>1. /\ l.pc = "updWrite" /\ l.sub \in SubIds /\ Stored(l.sub)
        /\ l.user = OrElse(l.dto.user, old.user)
        /\ OrElse(l.dto.status, old.status) \in CurrentStatuses => Current(l.user) \subseteq {l.sub}
        /\ AdminOps \intersect Ops # {}
    BY <1>13, <1>l DEF AdminUpdateWrite, At, Filled, StillTrue, NextStatus
  <2>2. old \in Rows /\ old.user \in Users /\ old.status \in Statuses /\ l.dto \in Dtos
    BY <2>1, <1>l DEF TypeOK, Rows, Stored, Locals, Rules, WellFormed
  <2>3. row \in Rows /\ row.user = l.user /\ row.status = OrElse(l.dto.status, old.status)
    BY <2>1, <2>2 DEF Rows, Dtos, OrElse
  <2>4. row.user \in Users /\ row.status \in Statuses
    BY <2>1, <2>2, <2>3 DEF OrElse, Dtos
  <2>5. subs' = [subs EXCEPT ![l.sub] = row] /\ UNCHANGED nextSub
    BY <1>13, <2>1 DEF AdminUpdateWrite, TypeOK
  <2> HIDE DEF row
  <2>6. Rules' /\ Contract!Next
    BY <1>l, <2>1, <2>3, <2>4, <2>5, WriteRow
  <2>7. QED
    BY <1>13, <2>6, <1>g DEF AdminUpdateWrite, Careless
<1>14. CASE AdminRemove(r)
  <2> DEFINE gone == [NoRow EXCEPT !.status = "DELETED"]
  <2>1. l.pc = "delete" /\ l.sub \in SubIds /\ AdminOps \intersect Ops # {}
    BY <1>14, <1>l DEF AdminRemove, At, Filled, StillTrue
  <2>2. CASE Unwritten
    BY <1>14, <2>2, <1>u, <1>f DEF AdminRemove
  <2>3. CASE ~Unwritten
    <3>1. subs' = [subs EXCEPT ![l.sub] = gone] /\ UNCHANGED nextSub /\ Stored(l.sub)
      BY <1>14, <2>3 DEF AdminRemove, Unwritten
    <3>2. gone.user = None /\ gone.status = "DELETED"
      BY DEF NoRow
    <3> HIDE DEF gone
    <3>3. Rules'
      BY <1>l, <2>1, <3>1, <3>2 DEF Rules, WellFormed, AtMostOneCurrent, Stored, NotStored,
         CurrentStatuses, TypeOK
    <3>4. PICK s \in SubIds : s = l.sub
      BY <2>1
    <3>5. [t \in SubIds |-> [user |-> subs'[t].user, status |-> subs'[t].status]]
            = [[t \in SubIds |-> [user |-> subs[t].user, status |-> subs[t].status]]
                 EXCEPT ![s] = [user |-> None, status |-> "DELETED"]]
      BY <3>1, <3>2, <3>4 DEF TypeOK
    <3>6. subs[s].status \in Statuses
      BY <3>1, <3>4 DEF TypeOK, Rows, Stored
    <3>7. Contract!Remove(s) /\ s \in Contract!SubIds
      BY <2>1, <3>5, <3>6 DEF Contract!Remove, Contract!Stored, Contract!Current, Statuses,
         Contract!SubIds, SubIds
    <3>8. Contract!Next
      BY <3>7 DEF Contract!Next
    <3>9. QED
      BY <1>14, <3>3, <3>8, <1>f DEF AdminRemove
  <2>4. QED
    BY <2>2, <2>3
<1>15. QED
  BY <1>1, <1>2, <1>3, <1>4, <1>5, <1>6, <1>7, <1>8, <1>9, <1>10, <1>11, <1>12, <1>13, <1>14
     DEF Continue

LEMMA SerialNext ==
    ASSUME OwnTurn, AdminApart, TypeOK, SerialInv, [Next]_vars
    PROVE  SerialInv' /\ (Contract!Next \/ Unwritten)
<1>1. ASSUME NEW r \in Requests, Fail(r) PROVE SerialInv' /\ Unwritten
  <2>1. UNCHANGED <<subs, nextSub>> /\ req' = [req EXCEPT ![r] = IdleSlot]
    BY <1>1 DEF Fail, Finish, db
  <2>2. StillTrue(IdleSlot)
    BY DEF StillTrue, IdleSlot
  <2>3. QED
    BY <2>1, <2>2, IdleCareless, SlotKeeps DEF Unwritten
<1>2. ASSUME UNCHANGED <<subs, nextSub, req>> PROVE SerialInv' /\ Unwritten
  BY <1>2 DEF Unwritten, SerialInv, WellFormed, AtMostOneCurrent, StillTrue, Stored, Current,
     NextStatus
<1>3. ASSUME NEW i \in StripeIds, StripeActs(i) PROVE UNCHANGED <<subs, nextSub, req>>
  BY <1>3 DEF StripeActs, CustomerPays, Expire, Dunning, StripeMoves, db
<1>4. UNCHANGED vars => UNCHANGED <<subs, nextSub, req>>
  BY DEF vars
<1>5. QED
  BY <1>1, <1>2, <1>3, <1>4, SerialArrive, SerialContinue DEF Next

-----------------------------------------------------------------------------
(* The theorems.                                                            *)

LEMMA InitMaps == Init => Contract!Init
BY DEF Init, Contract!Init, NoRow, SubIds, Contract!SubIds

LEMMA UnwrittenMaps ==
    Unwritten => UNCHANGED [s \in SubIds |-> [user |-> subs[s].user, status |-> subs[s].status]]
BY DEF Unwritten

\* While no subscriber has two requests in flight he never has two current rows:
\* requests of different subscribers overlap, and any call may fail.
THEOREM ApartOneCurrent == AdminApart => (Spec /\ []OwnTurn => []AtMostOneCurrent)
<1> SUFFICES ASSUME AdminApart PROVE Spec /\ []OwnTurn => []AtMostOneCurrent
  OBVIOUS
<1>1. SerialInv /\ OwnTurn /\ TypeOK /\ [Next]_vars => SerialInv'
  BY SerialNext
<1>2. SerialInv => AtMostOneCurrent
  BY DEF SerialInv
<1>3. QED
  BY <1>1, <1>2, TypeInit, TypeNext, SerialInit, PTL DEF Spec

\* Under the same premise the handlers implement the contract.
THEOREM ApartImplementsContract == AdminApart => (Spec /\ []OwnTurn => ImplementsContract)
<1> SUFFICES ASSUME AdminApart PROVE Spec /\ []OwnTurn => ImplementsContract
  OBVIOUS
<1>1. SerialInv /\ OwnTurn /\ TypeOK /\ [Next]_vars => SerialInv'
  BY SerialNext
<1>2. SerialInv /\ OwnTurn /\ TypeOK /\ [Next]_vars
        => [Contract!Next]_[s \in SubIds |-> [user |-> subs[s].user, status |-> subs[s].status]]
  BY SerialNext, UnwrittenMaps
<1>3. QED
  BY <1>1, <1>2, TypeInit, TypeNext, SerialInit, InitMaps, PTL
     DEF Spec, ImplementsContract, Contract!Spec

\* Requests that do not overlap never give a user a second current row, whatever
\* fails and whatever an admin edits.
COROLLARY SerialOneCurrent == OneAtATime => (Spec => []AtMostOneCurrent)
<1> SUFFICES ASSUME OneAtATime PROVE Spec => []AtMostOneCurrent
  OBVIOUS
<1>1. OwnTurn
  BY OneTakesTurns
<1>2. Spec /\ []OwnTurn => []AtMostOneCurrent
  BY OneTakesTurns, ApartOneCurrent
<1>3. QED
  BY <1>1, <1>2, PTL

\* Requests that do not overlap implement the contract, those of an admin included.
COROLLARY SerialImplementsContract == OneAtATime => (Spec => ImplementsContract)
<1> SUFFICES ASSUME OneAtATime PROVE Spec => ImplementsContract
  OBVIOUS
<1>1. OwnTurn
  BY OneTakesTurns
<1>2. Spec /\ []OwnTurn => ImplementsContract
  BY OneTakesTurns, ApartImplementsContract
<1>3. QED
  BY <1>1, <1>2, PTL

-----------------------------------------------------------------------------
(* One initial shipment: what the find saw is still so at the save.         *)

SingleInv ==
    /\ SingleInitialShipment
    /\ \A r \in Requests : req[r].pc = "shipInsert" => \A s \in req[r].todo : ships[s] = 0

\* The step a request begins at.
LEMMA FirstStep ==
    ASSUME TypeOK, NEW r \in Requests, Arrive(r)
    PROVE  /\ req'[r].pc \notin {"shipInsert", "payInsert", "svcWrite", "reread"}
           /\ req'[r].pc = "shipFind" => \E u \in Users : DashboardRead(r, u)
<1> USE DEF TypeOK, Accept, IdleSlot
<1>1. ASSUME NEW u \in Users, NEW p \in Plans, SubscribeCheck(r, u, p)
      PROVE  req'[r].pc = "subInsert"
  BY <1>1 DEF SubscribeCheck
<1>2. ASSUME NEW u \in Users, NEW p \in Plans, CheckoutCheck(r, u, p)
      PROVE  req'[r].pc = "checkoutCreate"
  BY <1>2 DEF CheckoutCheck
<1>3. ASSUME NEW u \in Users, NEW p \in Plans, NEW i \in StripeIds, ConfirmRead(r, u, p, i)
      PROVE  req'[r].pc = "subCheck"
  BY <1>3 DEF ConfirmRead
<1>4. ASSUME NEW u \in Users, NEW op \in {"pause", "resume", "cancel"}, CurrentRead(r, u, op)
      PROVE  req'[r].pc \in {"svcRead", "stripeCall"}
  BY <1>4 DEF CurrentRead
<1>5. ASSUME NEW u \in Users, DashboardRead(r, u) PROVE req'[r].pc = "shipFind"
  BY <1>5 DEF DashboardRead
<1>6. ASSUME NEW u \in Users, NEW p \in Plans, NEW st \in Statuses, AdminCreateCheck(r, u, p, st)
      PROVE  req'[r].pc = "adminInsert"
  BY <1>6 DEF AdminCreateCheck
<1>7. ASSUME NEW s \in SubIds, NEW dto \in Edits, AdminUpdateRead(r, s, dto)
      PROVE  req'[r].pc \in {"updCheck", "updWrite"}
  BY <1>7 DEF AdminUpdateRead
<1>8. ASSUME NEW s \in SubIds, AdminRemoveRead(r, s) PROVE req'[r].pc = "delete"
  BY <1>8 DEF AdminRemoveRead
<1>9. QED
  <2> HIDE DEF TypeOK, Accept, IdleSlot
  <2>1. QED
    BY <1>1, <1>2, <1>3, <1>4, <1>5, <1>6, <1>7, <1>8 DEF Arrive

\* The rows a request is about to look after are stored and its user's, where no
\* admin moves or removes rows.
Owns(l) ==
    /\ l.pc \in {"shipFind", "shipInsert"} => \A s \in l.todo : Stored(s) /\ subs[s].user = l.user
    /\ l.pc = "reread" => Stored(l.sub) /\ subs[l.sub].user = l.user

OwnInv == NoAdmin => \A r \in Requests : Owns(req[r])

LEMMA OwnInit == Init => OwnInv
BY DEF Init, OwnInv, Owns, IdleSlot

\* Only a handler writes rows.
LEMMA RowWriters ==
    ASSUME [Next]_vars
    PROVE  subs' = subs \/ \E r \in Requests : Continue(r)
BY DEF Next, vars, db, Arrive, Fail, SubscribeCheck, CheckoutCheck, ConfirmRead, AdminCreateCheck,
   CurrentRead, DashboardRead, AdminUpdateRead, AdminRemoveRead, StripeActs, CustomerPays, Expire,
   Dunning, StripeMoves

LEMMA RowsStay ==
    ASSUME TypeOK, SerialInv, NoAdmin, [Next]_vars, NEW s \in SubIds, Stored(s)
    PROVE  Stored(s)' /\ subs'[s].user = subs[s].user
<1>1. CASE subs' = subs
  BY <1>1 DEF Stored
<1>2. ASSUME NEW r \in Requests, Continue(r) PROVE Stored(s)' /\ subs'[s].user = subs[s].user
  <2>1. CASE SubInsert(r)
    <3>1. subs[nextSub].status = "UNUSED"
      BY <2>1, ConstantsAssumption DEF SubInsert, Insert, TypeOK, SubIds, SerialInv, WellFormed
    <3>2. QED
      BY <2>1, <3>1 DEF SubInsert, Insert, TypeOK, Stored, NotStored
  <2>2. CASE SvcWrite(r)
    <3>1. Target(req[r].op) \notin NotStored
      BY DEF Target, NotStored
    <3>2. QED
      BY <2>2, <3>1 DEF SvcWrite, TypeOK, Rows, Stored
  <2>3. StillTrue(req[r])
    BY DEF SerialInv
  <2>4. ~AdminInsert(r) /\ ~AdminUpdateWrite(r) /\ ~AdminRemove(r)
    BY <2>3 DEF StillTrue, NoAdmin, AdminInsert, AdminUpdateWrite, AdminRemove, At
  <2>5. QED
    BY <1>1, <1>2, <2>1, <2>2, <2>4 DEF Continue, ConfirmCheck, ShipFind, ShipInsert, PayInsert,
       CheckoutCreate, StripeCall, SvcRead, Reread, AdminUpdateCheck, db
<1>3. QED
  BY <1>1, <1>2, RowWriters

LEMMA OwnContinue ==
    ASSUME TypeOK, SerialInv, NoAdmin, NEW r \in Requests, Owns(req[r]), Continue(r),
           \A s \in SubIds : Stored(s) => Stored(s)' /\ subs'[s].user = subs[s].user
    PROVE  Owns(req[r])'
<1> DEFINE l == req[r]
<1>1. l \in Locals /\ Filled(l) /\ StillTrue(l)
  BY DEF TypeOK, SerialInv
<1>2. l.todo \subseteq SubIds /\ (l.pc = "reread" => l.sub \in SubIds)
  BY <1>1 DEF Locals, Filled
<1>3. CASE req'[r].pc \notin {"shipFind", "shipInsert", "reread"}
  BY <1>3 DEF Owns
<1>4. CASE SubInsert(r)
  <2>1. /\ req'[r].pc = "shipFind" /\ req'[r].todo = {nextSub} /\ req'[r].user = l.user
        /\ subs'[nextSub].user = l.user /\ subs'[nextSub].status = "ACTIVE"
    BY <1>1, <1>4, ConstantsAssumption DEF SubInsert, Insert, TypeOK, SubIds, Locals
  <2>2. QED
    BY <2>1 DEF Owns, Stored, NotStored
<1>5. CASE ShipFind(r)
  <2>1. \/ req'[r].pc \in {"payInsert", "idle"}
        \/ /\ req'[r].pc = "shipInsert" /\ req'[r].todo \subseteq l.todo
           /\ req'[r].user = l.user
    BY <1>1, <1>5 DEF ShipFind, AfterShipments, Goto, Finish, IdleSlot, TypeOK, Locals
  <2>2. l.pc = "shipFind"
    BY <1>5 DEF ShipFind, At
  <2>3. QED
    BY <1>2, <2>1, <2>2 DEF Owns
<1>6. CASE SvcWrite(r)
  <2>1. l.sub \in Current(l.user)
    BY <1>1, <1>6 DEF SvcWrite, At, StillTrue
  <2>2. l.sub \in SubIds /\ Stored(l.sub) /\ subs[l.sub].user = l.user
    BY <2>1 DEF Current, Stored, CurrentStatuses, NotStored
  <2>3. \/ req'[r].pc = "idle"
        \/ req'[r].pc = "reread" /\ req'[r].sub = l.sub /\ req'[r].user = l.user
    BY <1>1, <1>6 DEF SvcWrite, Goto, Finish, IdleSlot, TypeOK, Locals
  <2>4. QED
    BY <2>2, <2>3 DEF Owns, Stored
<1>7. CASE Reread(r)
  <2>1. \/ req'[r].pc = "idle"
        \/ req'[r].pc = "shipFind" /\ req'[r].todo = {l.sub} /\ req'[r].user = l.user
    BY <1>1, <1>7 DEF Reread, Finish, IdleSlot, TypeOK, Locals
  <2>2. l.pc = "reread"
    BY <1>7 DEF Reread, At
  <2>3. QED
    BY <1>2, <2>1, <2>2 DEF Owns, Stored
<1>8. ~AdminInsert(r) /\ ~AdminUpdateWrite(r) /\ ~AdminUpdateCheck(r) /\ ~AdminRemove(r)
  BY <1>1 DEF StillTrue, NoAdmin, AdminInsert, AdminUpdateCheck, AdminUpdateWrite, AdminRemove, At
<1>9. CASE \/ ConfirmCheck(r) \/ ShipInsert(r) \/ PayInsert(r) \/ CheckoutCreate(r)
           \/ StripeCall(r) \/ SvcRead(r)
  <2>1. req'[r].pc \notin {"shipFind", "shipInsert", "reread"}
    BY <1>1, <1>9 DEF ConfirmCheck, ShipInsert, AfterShipments, PayInsert, CheckoutCreate,
       StripeCall, SvcRead, Goto, Finish, IdleSlot, TypeOK, Locals
  <2>2. QED
    BY <1>3, <2>1
<1>10. QED
  BY <1>4, <1>5, <1>6, <1>7, <1>8, <1>9 DEF Continue

LEMMA OwnNext ==
    ASSUME TypeOK, SerialInv, OwnInv, [Next]_vars
    PROVE  OwnInv'
<1> SUFFICES ASSUME NoAdmin, NEW r \in Requests PROVE Owns(req[r])'
  BY DEF OwnInv, NoAdmin
<1>1. Owns(req[r])
  BY DEF OwnInv
<1>2. \A s \in SubIds : Stored(s) => Stored(s)' /\ subs'[s].user = subs[s].user
  BY RowsStay
<1>3. CASE req'[r] = req[r]
  <2>1. /\ req[r].todo \subseteq SubIds
        /\ req[r].pc = "reread" => req[r].sub \in SubIds
    BY DEF TypeOK, Locals, Filled
  <2>2. QED
    BY <1>1, <1>2, <1>3, <2>1 DEF Owns, Stored
<1>4. CASE Continue(r)
  BY <1>1, <1>2, <1>4, OwnContinue
<1>5. CASE Arrive(r)
  <2>1. CASE req'[r].pc # "shipFind"
    BY <1>5, <2>1, FirstStep DEF Owns
  <2>2. ASSUME NEW u \in Users, DashboardRead(r, u) PROVE Owns(req[r])'
    <3>1. /\ req'[r].pc = "shipFind" /\ req'[r].user = u /\ req'[r].todo \subseteq Current(u)
          /\ subs' = subs
      BY <2>2 DEF DashboardRead, Accept, IdleSlot, TypeOK, db
    <3>2. QED
      BY <3>1 DEF Owns, Current, Stored, CurrentStatuses, NotStored
  <2>3. QED
    BY <1>5, <2>1, <2>2, FirstStep
<1>6. CASE Fail(r)
  BY <1>6 DEF Fail, Finish, IdleSlot, TypeOK, Owns
<1>7. ASSUME NEW q \in Requests, q # r, Arrive(q) \/ Fail(q) PROVE req'[r] = req[r]
  BY <1>7 DEF Arrive, SubscribeCheck, CheckoutCheck, ConfirmRead, AdminCreateCheck, CurrentRead,
     DashboardRead, AdminUpdateRead, AdminRemoveRead, Accept, Fail, Finish, TypeOK
<1>8. ASSUME NEW i \in StripeIds, StripeActs(i) PROVE req' = req
  BY <1>8 DEF StripeActs, CustomerPays, Expire, Dunning, StripeMoves
<1>9. CASE UNCHANGED vars
  BY <1>3, <1>9 DEF vars
<1>10. CASE Next
  <2>1. ASSUME NEW q \in Requests, Arrive(q) \/ Continue(q) \/ Fail(q) PROVE Owns(req[r])'
    BY <1>3, <1>4, <1>5, <1>6, <1>7, <2>1, OtherSlots
  <2>2. QED
    BY <1>3, <1>8, <1>10, <2>1 DEF Next
<1>11. QED
  BY <1>9, <1>10

\* Two requests never save shipments of the same row.
LEMMA TodoApart ==
    ASSUME OwnTurn, AdminApart, OwnInv, NEW q \in Requests, NEW r \in Requests, q # r,
           req[q].pc = "shipInsert", req[r].pc = "shipInsert"
    PROVE  req[q].todo \intersect req[r].todo = {}
<1>1. Owns(req[q]) /\ Owns(req[r])
  BY DEF OwnInv, AdminApart, OneAtATime
<1>2. req[q].user # req[r].user
  BY DEF OwnTurn, At
<1>3. QED
  BY <1>1, <1>2 DEF Owns

LEMMA SingleNext ==
    ASSUME OwnTurn, AdminApart, TypeOK, OwnInv, SingleInv, [Next]_vars
    PROVE  SingleInv'
<1> USE DEF TypeOK, SingleInv, SingleInitialShipment, Goto, Finish, At, IdleSlot, Locals
<1>1. ASSUME NEW r \in Requests, ShipFind(r) PROVE SingleInv'
  <2>1. UNCHANGED ships
    BY <1>1 DEF ShipFind, db
  <2>2. CASE AfterShipments(r)
    BY <2>1, <2>2 DEF AfterShipments
  <2>3. CASE req' = [req EXCEPT ![r].pc = "shipInsert",
                                ![r].todo = {s \in req[r].todo : ships[s] = 0}]
    BY <2>1, <2>3
  <2>4. QED
    BY <1>1, <2>2, <2>3 DEF ShipFind
<1>2. ASSUME NEW r \in Requests, ShipInsert(r) PROVE SingleInv'
  <2>1. req[r].pc = "shipInsert" /\ req'[r].pc # "shipInsert"
        /\ \A q \in Requests \ {r} : req'[q] = req[q]
    BY <1>2 DEF ShipInsert, AfterShipments
  <2>2. \A s \in SubIds : ships'[s] = ships[s] \/ (s \in req[r].todo /\ ships'[s] = 1)
    BY <1>2 DEF ShipInsert
  <2>3. ASSUME NEW q \in Requests, req'[q].pc = "shipInsert", NEW s \in req'[q].todo
        PROVE  ships'[s] = 0
    <3>1. q # r /\ req'[q] = req[q] /\ s \in SubIds /\ ships[s] = 0
      BY <2>1, <2>3
    <3>2. s \notin req[r].todo
      BY <2>1, <2>3, <3>1, TodoApart
    <3>3. QED
      BY <2>2, <3>1, <3>2
  <2>4. QED
    BY <2>2, <2>3
<1>3. ASSUME NEW r \in Requests, req'[r].pc # "shipInsert", ships' = ships,
             \A q \in Requests \ {r} : req'[q] = req[q]
      PROVE  SingleInv'
  BY <1>3
<1>4. ASSUME NEW r \in Requests, Continue(r), ~ShipFind(r), ~ShipInsert(r) PROVE SingleInv'
  <2>1. UNCHANGED ships
    BY <1>4 DEF Continue, ConfirmCheck, SubInsert, PayInsert, CheckoutCreate, StripeCall, SvcRead,
       SvcWrite, Reread, AdminInsert, AdminUpdateCheck, AdminUpdateWrite, AdminRemove, db
  <2>2. req'[r].pc # "shipInsert"
    BY <1>4 DEF Continue, ConfirmCheck, SubInsert, PayInsert, CheckoutCreate, StripeCall, SvcRead,
       SvcWrite, Reread, AdminInsert, AdminUpdateCheck, AdminUpdateWrite, AdminRemove
  <2>3. QED
    BY <1>3, <1>4, <2>1, <2>2, OtherSlots
<1>5. ASSUME NEW r \in Requests, Arrive(r) \/ Fail(r) PROVE SingleInv'
  <2>1. UNCHANGED ships /\ \A q \in Requests \ {r} : req'[q] = req[q]
    BY <1>5 DEF Arrive, Fail, SubscribeCheck, CheckoutCheck, ConfirmRead, AdminCreateCheck,
       CurrentRead, DashboardRead, AdminUpdateRead, AdminRemoveRead, Accept, db
  <2>2. req'[r].pc # "shipInsert"
    BY <1>5, FirstStep DEF Fail
  <2>3. QED
    BY <1>3, <2>1, <2>2
<1>6. CASE UNCHANGED <<ships, req>>
  BY <1>6
<1>7. QED
  BY <1>1, <1>2, <1>4, <1>5, <1>6 DEF Next, vars, db, StripeActs, CustomerPays, Expire, Dunning,
     StripeMoves

\* While no subscriber has two requests in flight a row gets one initial shipment,
\* also when a request is repeated after a failure.
THEOREM ApartOneShipment == AdminApart => (Spec /\ []OwnTurn => []SingleInitialShipment)
<1> SUFFICES ASSUME AdminApart PROVE Spec /\ []OwnTurn => []SingleInitialShipment
  OBVIOUS
<1>1. Init => SingleInv
  BY DEF Init, SingleInv, SingleInitialShipment, IdleSlot
<1>2. SerialInv /\ OwnTurn /\ TypeOK /\ [Next]_vars => SerialInv'
  BY SerialNext
<1>3. TypeOK /\ SerialInv /\ OwnInv /\ [Next]_vars => OwnInv'
  BY OwnNext
<1>4. TypeOK /\ OwnTurn /\ OwnInv /\ SingleInv /\ [Next]_vars => SingleInv'
  BY SingleNext
<1>5. SingleInv => SingleInitialShipment
  BY DEF SingleInv
<1>6. QED
  BY <1>1, <1>2, <1>3, <1>4, <1>5, TypeInit, TypeNext, SerialInit, OwnInit, PTL DEF Spec

\* A request repeated after a failure never adds a second initial shipment, to whatever
\* row, where an admin's requests too run one at a time.
COROLLARY SerialOneShipment == OneAtATime => (Spec => []SingleInitialShipment)
<1> SUFFICES ASSUME OneAtATime PROVE Spec => []SingleInitialShipment
  OBVIOUS
<1>1. OwnTurn
  BY OneTakesTurns
<1>2. Spec /\ []OwnTurn => []SingleInitialShipment
  BY OneTakesTurns, ApartOneShipment
<1>3. QED
  BY <1>1, <1>2, PTL

-----------------------------------------------------------------------------
(* What the rows grant is what Stripe bills, as long as no admin writes.    *)

Agrees(s) ==
    /\ subs[s].status \in CurrentStatuses
    /\ subs[s].stripe # NoStripe /\ ~Shared(subs[s].stripe)
    => (stripe[subs[s].stripe].paused <=> subs[s].status = "PAUSED")

\* A pause or a resume that has reached Stripe and not yet the row.
Mends(l, s) ==
    l.pc \in {"svcRead", "svcWrite"} /\ l.op # "cancel" /\ s \in Current(l.user)

\* What a handler has learnt of its user's rows and of its Stripe subscription: a
\* confirm that none of them uses the latter, the three others which current row it
\* backs and, unless another user's request has come in between, what their call has
\* made of it.
Bills(l) ==
    /\ l.pc = "subCheck"
         => \A s \in SubIds : subs[s].stripe = l.stripe /\ subs[s].user = l.user
                                => subs[s].status \in CurrentStatuses
    /\ l.pc = "subInsert" /\ l.stripe # NoStripe
         => \A s \in SubIds : ~(subs[s].stripe = l.stripe /\ subs[s].user = l.user)
    /\ l.pc \in {"stripeCall", "svcRead", "svcWrite"}
         => \E s \in Current(l.user) : subs[s].stripe = l.stripe
    /\ l.pc = "svcWrite" => l.sub \in Current(l.user)
    /\ l.pc \in {"svcRead", "svcWrite"} /\ l.stripe # NoStripe
         => IF l.op = "cancel"
            THEN stripe[l.stripe].status = "canceled"
            ELSE Shared(l.stripe) \/ (stripe[l.stripe].paused <=> l.op = "pause")

\* A Stripe subscription that is paused backs a row, and a row it backs is stored.
BackedInv ==
    /\ \A s \in SubIds : subs[s].stripe # NoStripe => subs[s].status \in Statuses
    /\ \A i \in StripeIds : stripe[i].paused => \E s \in SubIds : subs[s].stripe = i

BillInv ==
    /\ CancelledNotBilled /\ StripeBacksOneRow /\ BackedInv
    /\ \A r \in Requests : Bills(req[r])
    /\ fails = 0 => \A s \in SubIds : Agrees(s) \/ \E r \in Requests : Mends(req[r], s)

LEMMA BillInit == Init => BillInv
BY DEF Init, BillInv, CancelledNotBilled, StripeBacksOneRow, BackedInv, Bills, Agrees, NoRow,
   NoObject, IdleSlot, CurrentStatuses

\* A step that writes nothing but a slot keeps the invariant if the slot knows what
\* it must and drops no row that it has to mend.
LEMMA BillSlot ==
    ASSUME TypeOK, BillInv, NEW r \in Requests, UNCHANGED <<subs, stripe, fails>>,
           NEW l, req' = [req EXCEPT ![r] = l], Bills(l),
           \A s \in SubIds : Mends(req[r], s) => Agrees(s) \/ Mends(l, s)
    PROVE  BillInv'
<1>1. \A q \in Requests : req'[q] = IF q = r THEN l ELSE req[q]
  BY DEF TypeOK
<1>2. /\ \A m : Bills(m) => Bills(m)'
      /\ \A s \in SubIds : Agrees(s)' = Agrees(s)
      /\ \A m : \A s \in SubIds : Mends(m, s) => Mends(m, s)'
  BY DEF Bills, Agrees, Mends, Current, Shared
<1>3. ASSUME NEW q \in Requests PROVE Bills(req[q])'
  <2>1. PICK m : m = req'[q] /\ Bills(m)
    BY <1>1 DEF BillInv
  <2>2. QED
    BY <1>2, <2>1 DEF Bills, Current, Shared
<1>4. (CancelledNotBilled /\ StripeBacksOneRow /\ BackedInv)'
  BY DEF BillInv, CancelledNotBilled, StripeBacksOneRow, BackedInv
<1>5. ASSUME fails' = 0, NEW s \in SubIds PROVE Agrees(s)' \/ \E q \in Requests : Mends(req[q], s)'
  <2>1. Agrees(s) \/ \E q \in Requests : Mends(req'[q], s)
    BY <1>1, <1>5 DEF BillInv
  <2>2. ASSUME NEW q \in Requests, Mends(req'[q], s) PROVE Mends(req[q], s)'
    BY <2>2 DEF Mends, Current
  <2>3. QED
    BY <1>2, <2>1, <2>2
<1>6. QED
  BY <1>3, <1>4, <1>5 DEF BillInv

\* Where a handler knows nothing of the kind.
Unaware == {"idle", "shipFind", "shipInsert", "payInsert", "checkoutCreate", "reread"}

LEMMA BillUnaware ==
    ASSUME TypeOK, BillInv, NEW r \in Requests, UNCHANGED <<subs, stripe, fails>>,
           req[r].pc \notin {"svcRead", "svcWrite"},
           NEW l, req' = [req EXCEPT ![r] = l], l.pc \in Unaware
    PROVE  BillInv'
<1>1. Bills(l)
  BY DEF Bills, Unaware
<1>2. \A s \in SubIds : ~Mends(req[r], s)
  BY DEF Mends
<1>3. QED
  BY <1>1, <1>2, BillSlot

-----------------------------------------------------------------------------

LEMMA BillArrive ==
    ASSUME TypeOK, NoAdmin, BillInv, NEW r \in Requests, Arrive(r)
    PROVE  BillInv'
<1>0. ASSUME NEW op \in Ops, NEW l, Accept(r, op, l), UNCHANGED <<db, pay, fails>>,
             Bills([l EXCEPT !.op = op])
      PROVE  BillInv'
  <2>1. \A s \in SubIds : ~Mends(req[r], s)
    BY <1>0 DEF Accept, At, Mends
  <2> DEFINE m == [l EXCEPT !.op = op]
  <2>2. req' = [req EXCEPT ![r] = m] /\ UNCHANGED <<subs, stripe, fails>> /\ Bills(m)
    BY <1>0 DEF Accept, db, pay
  <2> HIDE DEF m
  <2>3. QED
    BY <2>1, <2>2, BillSlot
<1>1. ASSUME NEW u \in Users, NEW p \in Plans, SubscribeCheck(r, u, p) PROVE BillInv'
  <2> DEFINE l == [IdleSlot EXCEPT !.pc = "subInsert", !.user = u, !.plan = p]
  <2>1. Accept(r, "subscribe", l) /\ UNCHANGED <<db, pay, fails>>
    BY <1>1 DEF SubscribeCheck
  <2>2. Bills([l EXCEPT !.op = "subscribe"])
    BY DEF Bills, IdleSlot
  <2> HIDE DEF l
  <2>3. QED
    BY <1>0, <2>1, <2>2 DEF Accept
<1>2. ASSUME NEW u \in Users, NEW p \in Plans, CheckoutCheck(r, u, p) PROVE BillInv'
  <2> DEFINE l == [IdleSlot EXCEPT !.pc = "checkoutCreate", !.user = u, !.plan = p]
  <2>1. Accept(r, "checkout", l) /\ UNCHANGED <<db, pay, fails>>
    BY <1>2 DEF CheckoutCheck
  <2>2. Bills([l EXCEPT !.op = "checkout"])
    BY DEF Bills, IdleSlot
  <2> HIDE DEF l
  <2>3. QED
    BY <1>0, <2>1, <2>2 DEF Accept
<1>3. ASSUME NEW u \in Users, NEW p \in Plans, NEW i \in StripeIds, ConfirmRead(r, u, p, i)
      PROVE  BillInv'
  <2> DEFINE l == [IdleSlot EXCEPT !.pc = "subCheck", !.user = u, !.plan = p, !.stripe = i]
  <2>1. Accept(r, "confirm", l) /\ UNCHANGED <<db, pay, fails>> /\ stripe[i].status = "active"
    BY <1>3 DEF ConfirmRead
  <2>2. ASSUME NEW s \in SubIds, subs[s].stripe = i PROVE subs[s].status \in CurrentStatuses
    <3>1. subs[s].stripe # NoStripe
      BY <2>2 DEF StripeIds, NoStripe
    <3>2. QED
      BY <2>1, <2>2, <3>1 DEF BillInv, BackedInv, CancelledNotBilled, Statuses, CurrentStatuses
  <2>3. Bills([l EXCEPT !.op = "confirm"])
    BY <2>2 DEF Bills, IdleSlot
  <2> HIDE DEF l
  <2>4. QED
    BY <1>0, <2>1, <2>3 DEF Accept
<1>4. ASSUME NEW u \in Users, NEW op \in {"pause", "resume", "cancel"}, CurrentRead(r, u, op)
      PROVE  BillInv'
  <2> DEFINE step(s) == IF subs[s].stripe = NoStripe THEN "svcRead" ELSE "stripeCall"
  <2>1. PICK s \in Current(u) :
          Accept(r, op, [IdleSlot EXCEPT !.pc = step(s), !.user = u, !.stripe = subs[s].stripe])
    BY <1>4 DEF CurrentRead
  <2> DEFINE l == [IdleSlot EXCEPT !.pc = step(s), !.user = u, !.stripe = subs[s].stripe]
  <2>2. Bills([l EXCEPT !.op = op])
    BY DEF Bills, IdleSlot
  <2>3. Accept(r, op, l) /\ UNCHANGED <<db, pay, fails>>
    BY <1>4, <2>1 DEF CurrentRead
  <2> HIDE DEF l
  <2>4. QED
    BY <1>0, <2>2, <2>3 DEF Accept
<1>5. ASSUME NEW u \in Users, DashboardRead(r, u) PROVE BillInv'
  <2> DEFINE l == [IdleSlot EXCEPT !.pc = "shipFind", !.user = u,
                                   !.todo = {s \in Current(u) : subs[s].status = "ACTIVE"}]
  <2>1. Accept(r, "dashboard", l) /\ UNCHANGED <<db, pay, fails>>
    BY <1>5 DEF DashboardRead
  <2>2. Bills([l EXCEPT !.op = "dashboard"])
    BY DEF Bills, IdleSlot
  <2> HIDE DEF l
  <2>3. QED
    BY <1>0, <2>1, <2>2 DEF Accept
<1>6. ASSUME NEW u \in Users, NEW p \in Plans, NEW st \in Statuses, AdminCreateCheck(r, u, p, st)
      PROVE  FALSE
  BY <1>6 DEF AdminCreateCheck, Accept, NoAdmin, AdminOps
<1>7. ASSUME NEW s \in SubIds, NEW dto \in Edits, AdminUpdateRead(r, s, dto) PROVE FALSE
  BY <1>7 DEF AdminUpdateRead, Accept, NoAdmin, AdminOps
<1>8. ASSUME NEW s \in SubIds, AdminRemoveRead(r, s) PROVE FALSE
  BY <1>8 DEF AdminRemoveRead, Accept, NoAdmin, AdminOps
<1>9. QED
  BY <1>1, <1>2, <1>3, <1>4, <1>5, <1>6, <1>7, <1>8 DEF Arrive

\* A confirm whose user has no current row: no row of the user has its Stripe
\* subscription, since a cancelled one would have ended it.
LEMMA BillConfirm ==
    ASSUME TypeOK, BillInv, NEW r \in Requests, ConfirmCheck(r)
    PROVE  BillInv'
<1> DEFINE l == req[r]
<1>1. /\ UNCHANGED <<subs, stripe, fails>>
      /\ l.pc = "subCheck" /\ l \in Locals /\ l.stripe \in StripeIds
  BY DEF ConfirmCheck, At, db, pay, TypeOK, Filled
<1>2. CASE Finish(r)
  BY <1>1, <1>2, BillUnaware, IdleCareless DEF Finish, Unaware, IdleSlot
<1>3. CASE Current(l.user) = {} /\ Goto(r, "subInsert")
  <2> DEFINE m == [l EXCEPT !.pc = "subInsert"]
  <2>1. req' = [req EXCEPT ![r] = m]
    BY <1>3 DEF Goto, TypeOK
  <2>2. m.pc = "subInsert" /\ m.stripe = l.stripe /\ m.user = l.user
    BY <1>1 DEF Locals
  <2>3. ASSUME NEW s \in SubIds, subs[s].stripe = l.stripe, subs[s].user = l.user PROVE FALSE
    <3>1. subs[s].status \in CurrentStatuses
      BY <1>1, <2>3 DEF BillInv, Bills
    <3>2. QED
      BY <1>3, <2>3, <3>1 DEF Current
  <2>4. Bills(m)
    BY <2>2, <2>3 DEF Bills
  <2>5. \A s \in SubIds : ~Mends(l, s)
    BY <1>1 DEF Mends
  <2> HIDE DEF m
  <2>6. QED
    BY <1>1, <2>1, <2>4, <2>5, BillSlot
<1>4. QED
  BY <1>2, <1>3 DEF ConfirmCheck

\* The other requests: what they know is still so, and what they will mend they will.
OthersBilled(r) ==
    \A q \in Requests \ {r} :
        Bills(req[q])' /\ \A s \in SubIds : Mends(req[q], s) => Mends(req[q], s)'

\* A row that is stored keeps its user and its Stripe subscription.
LEMMA BackedKept ==
    ASSUME TypeOK, SerialInv, BillInv, NoAdmin, NEW r \in Requests, Continue(r),
           NEW s \in SubIds, subs[s].stripe # NoStripe
    PROVE  subs'[s].stripe = subs[s].stripe /\ subs'[s].user = subs[s].user
<1>1. subs[s].status \in Statuses
  BY DEF BillInv, BackedInv
<1>2. CASE SubInsert(r)
  <2>1. subs[nextSub].status = "UNUSED"
    BY <1>2, ConstantsAssumption DEF SubInsert, Insert, TypeOK, SubIds, SerialInv, WellFormed
  <2>2. QED
    BY <1>1, <1>2, <2>1 DEF SubInsert, Insert, TypeOK, Statuses
<1>3. CASE SvcWrite(r)
  BY <1>3 DEF SvcWrite, TypeOK, Rows
<1>4. StillTrue(req[r])
  BY DEF SerialInv
<1>5. ~AdminInsert(r) /\ ~AdminUpdateWrite(r) /\ ~AdminRemove(r)
  BY <1>4 DEF StillTrue, NoAdmin, AdminInsert, AdminUpdateWrite, AdminRemove, At
<1>6. CASE subs' = subs
  BY <1>6
<1>7. QED
  BY <1>2, <1>3, <1>5, <1>6 DEF Continue, ConfirmCheck, ShipFind, ShipInsert, PayInsert,
     CheckoutCreate, StripeCall, SvcRead, Reread, AdminUpdateCheck, db

LEMMA SharedStays ==
    ASSUME NEW i, Shared(i),
           \A s \in SubIds :
               subs[s].stripe = i
                 => subs'[s].stripe = subs[s].stripe /\ subs'[s].user = subs[s].user
    PROVE  Shared(i)'
BY DEF Shared

\* No handler calls Stripe for another user's subscription that its own user's row does
\* not name too.
LEMMA OthersStripe ==
    ASSUME TypeOK, PaidInv, BillInv, NEW r \in Requests, Continue(r), NEW s \in SubIds,
           subs[s].user # req[r].user, subs[s].stripe # NoStripe, ~Shared(subs[s].stripe)
    PROVE  stripe'[subs[s].stripe] = stripe[subs[s].stripe]
<1> DEFINE i == subs[s].stripe
<1>1. i \in StripeIds /\ stripe[i].status # "none"
  BY DEF PaidInv, Paid, EverPaid, TypeOK, Rows
<1>2. CASE CheckoutCreate(r)
  <2>1. nextStripe \in StripeIds /\ stripe[nextStripe].status = "none"
    BY <1>2, ConstantsAssumption DEF CheckoutCreate, TypeOK, StripeIds, PaidInv
  <2>2. QED
    BY <1>1, <1>2, <2>1 DEF CheckoutCreate, TypeOK
<1>3. CASE StripeCall(r)
  <2>1. req[r].pc = "stripeCall" /\ req[r].stripe \in StripeIds
    BY <1>3 DEF StripeCall, At, TypeOK, Filled
  <2>2. PICK t \in Current(req[r].user) : subs[t].stripe = req[r].stripe
    BY <2>1 DEF BillInv, Bills
  <2>3. i # req[r].stripe
    BY <2>2 DEF Shared, Current
  <2>4. QED
    BY <1>1, <1>3, <2>1, <2>3 DEF StripeCall, TypeOK
<1>4. CASE stripe' = stripe
  BY <1>4
<1>5. QED
  BY <1>2, <1>3, <1>4 DEF Continue, ConfirmCheck, SubInsert, ShipFind, ShipInsert, PayInsert,
     SvcRead, SvcWrite, Reread, AdminInsert, AdminUpdateCheck, AdminUpdateWrite, AdminRemove, pay

\* What Stripe has cancelled stays so.
LEMMA CanceledStays ==
    ASSUME TypeOK, PaidInv, NEW r \in Requests, Continue(r), NEW i \in StripeIds,
           stripe[i].status = "canceled"
    PROVE  stripe'[i].status = "canceled"
<1>1. CASE CheckoutCreate(r)
  <2>1. nextStripe \in StripeIds /\ stripe[nextStripe].status = "none"
    BY <1>1, ConstantsAssumption DEF CheckoutCreate, TypeOK, StripeIds, PaidInv
  <2>2. QED
    BY <1>1, <2>1 DEF CheckoutCreate, TypeOK
<1>2. CASE StripeCall(r)
  <2>1. req[r].stripe \in StripeIds
    BY <1>2 DEF StripeCall, At, TypeOK, Filled
  <2>2. QED
    BY <1>2, <2>1 DEF StripeCall, TypeOK, StripeObjects
<1>3. CASE stripe' = stripe
  BY <1>3
<1>4. QED
  BY <1>1, <1>2, <1>3 DEF Continue, ConfirmCheck, SubInsert, ShipFind, ShipInsert, PayInsert,
     SvcRead, SvcWrite, Reread, AdminInsert, AdminUpdateCheck, AdminUpdateWrite, AdminRemove, pay

LEMMA BillOthers ==
    ASSUME TypeOK, OwnTurn, NoAdmin, SerialInv, PaidInv, BillInv, NEW r \in Requests, Continue(r)
    PROVE  OthersBilled(r)
<1> SUFFICES ASSUME NEW q \in Requests \ {r}
             PROVE  Bills(req[q])' /\ \A s \in SubIds : Mends(req[q], s) => Mends(req[q], s)'
  BY DEF OthersBilled
<1> DEFINE m == req[q]
<1>1. req'[q] = m /\ m \in Locals /\ Bills(m)
  BY OtherSlots DEF BillInv, TypeOK
<1>2. CASE m.pc = "idle"
  BY <1>1, <1>2 DEF Bills, Mends
<1>3. CASE m.pc # "idle"
  <2>1. ~At(r, "idle")
    BY DEF Continue, ConfirmCheck, SubInsert, ShipFind, ShipInsert, PayInsert, CheckoutCreate,
       StripeCall, SvcRead, SvcWrite, Reread, AdminInsert, AdminUpdateCheck, AdminUpdateWrite,
       AdminRemove, At
  <2>2. m.user # req[r].user
    BY <1>3, <2>1 DEF OwnTurn, At
  <2>3. Current(m.user)' = Current(m.user) /\ \A s \in Current(m.user) : subs'[s] = subs[s]
    <3>1. PICK v : v = m.user
      OBVIOUS
    <3>2. Current(v)' = Current(v) /\ \A s \in Current(v) : subs'[s] = subs[s]
      BY <2>2, <3>1, OthersCurrent
    <3>3. Current(m.user)' = Current(v)'
      BY <1>1, <3>1 DEF Current
    <3>4. QED
      BY <3>1, <3>2, <3>3
  <2>4. Current(req[q].user)' = Current(m.user)
    BY <1>1, <2>3 DEF Current
  <2>5. \A s \in SubIds : Mends(req[q], s) => Mends(req[q], s)'
    BY <1>1, <2>4 DEF Mends
  <2>6. ASSUME NEW s \in SubIds, subs'[s].user = m.user PROVE subs'[s] = subs[s]
    BY <2>2, <2>6, OwnRows
  <2>7. ASSUME m.pc = "subCheck", NEW s \in SubIds, subs'[s].stripe = m.stripe,
               subs'[s].user = m.user
        PROVE  subs'[s].status \in CurrentStatuses
    BY <1>1, <2>6, <2>7 DEF Bills
  <2>8. ASSUME m.pc = "subInsert", m.stripe # NoStripe, NEW s \in SubIds
        PROVE  ~(subs'[s].stripe = m.stripe /\ subs'[s].user = m.user)
    BY <1>1, <2>6, <2>8 DEF Bills
  <2>9. ASSUME m.pc \in {"stripeCall", "svcRead", "svcWrite"}
        PROVE  \E s \in Current(m.user) : subs'[s].stripe = m.stripe
    BY <1>1, <2>3, <2>9 DEF Bills
  <2>10. ASSUME m.pc \in {"svcRead", "svcWrite"}, m.stripe # NoStripe
         PROVE  IF m.op = "cancel"
                THEN stripe'[m.stripe].status = "canceled"
                ELSE Shared(m.stripe)' \/ (stripe'[m.stripe].paused <=> m.op = "pause")
    <3>1. PICK s \in Current(m.user) : subs[s].stripe = m.stripe
      BY <1>1, <2>10 DEF Bills
    <3>2. s \in SubIds /\ subs[s].user # req[r].user /\ m.stripe \in StripeIds
      BY <1>1, <2>2, <2>10 DEF Current, Locals
    <3>3. CASE m.op = "cancel"
      BY <1>1, <2>10, <3>2, <3>3, CanceledStays DEF Bills
    <3>4. CASE m.op # "cancel" /\ ~Shared(m.stripe)
      <4>1. stripe'[m.stripe] = stripe[m.stripe]
        BY <2>10, <3>1, <3>2, <3>4, OthersStripe
      <4>2. QED
        BY <1>1, <2>10, <3>4, <4>1 DEF Bills
    <3>5. CASE m.op # "cancel" /\ Shared(m.stripe)
      <4>1. PICK i : i = m.stripe
        OBVIOUS
      <4>2. Shared(i)'
        BY <2>10, <3>5, <4>1, BackedKept, SharedStays
      <4>3. QED
        BY <1>1, <3>5, <4>1, <4>2 DEF Shared
    <3>6. QED
      BY <3>3, <3>4, <3>5
  <2>11. Bills(req[q])'
    BY <1>1, <2>4, <2>7, <2>8, <2>9, <2>10 DEF Bills
  <2>12. QED
    BY <2>5, <2>11
<1>4. QED
  BY <1>2, <1>3

\* A row that the handler itself does not mend agrees, or is mended by another.
LEMMA MendedByOthers ==
    ASSUME BillInv, NEW r \in Requests, OthersBilled(r), fails = 0, NEW s \in SubIds,
           ~Mends(req[r], s)
    PROVE  Agrees(s) \/ \E q \in Requests : Mends(req[q], s)'
<1>1. ASSUME NEW q \in Requests, Mends(req[q], s) PROVE Mends(req[q], s)'
  BY <1>1 DEF OthersBilled
<1>2. QED
  BY <1>1 DEF BillInv

\* The row a confirm inserts is its user's only one of its Stripe subscription, which
\* nobody has paused unless another user's row names it.
LEMMA BillInsert ==
    ASSUME TypeOK, SerialInv, BillInv, NEW r \in Requests, SubInsert(r), OthersBilled(r)
    PROVE  BillInv'
<1> DEFINE l == req[r]
<1> DEFINE row == [user |-> l.user, plan |-> l.plan, status |-> "ACTIVE", stripe |-> l.stripe]
<1>1. /\ l.pc = "subInsert" /\ l \in Locals
      /\ subs' = [subs EXCEPT ![nextSub] = row]
      /\ UNCHANGED <<stripe, fails>>
  BY DEF SubInsert, At, Insert, TypeOK, pay
<1>2. nextSub \in SubIds /\ subs[nextSub].status = "UNUSED"
  BY ConstantsAssumption DEF TypeOK, SubInsert, Insert, SubIds, SerialInv, WellFormed
<1>3. subs[nextSub].stripe = NoStripe
  BY <1>2 DEF BillInv, BackedInv, Statuses
<1>4. /\ subs'[nextSub].stripe = l.stripe /\ subs'[nextSub].status = "ACTIVE"
      /\ subs'[nextSub].user = l.user
      /\ \A s \in SubIds : s # nextSub => subs'[s] = subs[s]
  BY <1>1, <1>2 DEF TypeOK
<1>5. l.stripe # NoStripe
        => \A s \in SubIds : ~(subs[s].stripe = l.stripe /\ subs[s].user = l.user)
  BY <1>1 DEF BillInv, Bills
<1>6. l.stripe \in StripeIds \union {NoStripe}
  BY <1>1 DEF Locals
<1> HIDE DEF row
<1>7. (CancelledNotBilled /\ StripeBacksOneRow)'
  BY <1>1, <1>4, <1>5 DEF BillInv, CancelledNotBilled, StripeBacksOneRow
<1>8. BackedInv'
  <2>1. ASSUME NEW s \in SubIds, subs'[s].stripe # NoStripe PROVE subs'[s].status \in Statuses
    BY <1>4, <2>1 DEF BillInv, BackedInv, Statuses
  <2>2. ASSUME NEW i \in StripeIds, stripe'[i].paused PROVE \E s \in SubIds : subs'[s].stripe = i
    <3>1. PICK s \in SubIds : subs[s].stripe = i
      BY <1>1, <2>2 DEF BillInv, BackedInv
    <3>2. s # nextSub
      BY <1>3, <3>1 DEF StripeIds, NoStripe
    <3>3. QED
      BY <1>4, <3>1, <3>2
  <2>3. QED
    BY <2>1, <2>2 DEF BackedInv
<1>9. ASSUME NEW q \in Requests PROVE Bills(req[q])'
  <2>1. req'[r].pc = "shipFind"
    BY <1>1 DEF SubInsert, TypeOK, Locals
  <2>2. QED
    BY <2>1 DEF Bills, OthersBilled
<1>10. ASSUME fails' = 0, NEW s \in SubIds
       PROVE  Agrees(s)' \/ \E q \in Requests : Mends(req[q], s)'
  <2>1. CASE s = nextSub
    <3>1. CASE \A t \in SubIds : subs[t].stripe # l.stripe
      <4>1. l.stripe # NoStripe => ~stripe[l.stripe].paused
        BY <1>6, <3>1 DEF BillInv, BackedInv
      <4>2. QED
        BY <1>1, <1>4, <2>1, <4>1 DEF Agrees
    <3>2. ASSUME NEW t \in SubIds, subs[t].stripe = l.stripe, l.stripe # NoStripe
          PROVE  Agrees(s)'
      <4>1. t # nextSub /\ subs[t].user # l.user
        BY <1>3, <1>5, <3>2
      <4>2. Shared(subs[s].stripe)'
        BY <1>2, <1>4, <2>1, <3>2, <4>1 DEF Shared
      <4>3. QED
        BY <4>2 DEF Agrees
    <3>3. CASE l.stripe = NoStripe
      BY <1>4, <2>1, <3>3 DEF Agrees
    <3>4. QED
      BY <3>1, <3>2, <3>3
  <2>2. CASE s # nextSub
    <3>1. Agrees(s) \/ \E q \in Requests : Mends(req[q], s)'
      BY <1>1, <1>10, MendedByOthers DEF Mends
    <3>2. ASSUME Agrees(s) PROVE Agrees(s)'
      <4>1. PICK i : i = subs[s].stripe
        OBVIOUS
      <4>2. CASE i = NoStripe
        BY <1>4, <2>2, <4>1, <4>2 DEF Agrees
      <4>3. CASE i # NoStripe
        <5>1. Shared(i) => Shared(i)'
          BY <1>3, <1>4, <4>3, SharedStays
        <5>2. Shared(subs[s].stripe)' = Shared(i)'
          BY <1>4, <2>2, <4>1 DEF Shared
        <5>3. QED
          BY <1>1, <1>4, <2>2, <3>2, <4>1, <5>1, <5>2 DEF Agrees
      <4>4. QED
        BY <4>2, <4>3
    <3>3. QED
      BY <3>1, <3>2
  <2>3. QED
    BY <2>1, <2>2
<1>11. QED
  BY <1>7, <1>8, <1>9, <1>10 DEF BillInv

\* The call of a pause, a resume or a cancel changes the Stripe subscription of its
\* own row, and of no other row of its user.
LEMMA BillCall ==
    ASSUME TypeOK, BillInv, NEW r \in Requests, StripeCall(r), OthersBilled(r)
    PROVE  BillInv'
<1> DEFINE l == req[r]
<1> DEFINE i == l.stripe
<1>1. /\ l.pc = "stripeCall" /\ l \in Locals /\ i \in StripeIds
      /\ l.op \in {"pause", "resume", "cancel"}
      /\ UNCHANGED <<subs, fails>>
  BY DEF StripeCall, At, TypeOK, Filled, db
<1>2. CASE Finish(r) /\ UNCHANGED stripe
  BY <1>1, <1>2, BillUnaware DEF Finish, Unaware, IdleSlot
<1>3. CASE /\ stripe[i].status \notin Ended /\ Goto(r, "svcRead")
           /\ stripe' = CASE l.op = "pause"  -> [stripe EXCEPT ![i].paused = TRUE]
                          [] l.op = "resume" -> [stripe EXCEPT ![i].paused = FALSE]
                          [] OTHER           -> [stripe EXCEPT ![i].status = "canceled"]
  <2>1. PICK t \in Current(l.user) : subs[t].stripe = i
    BY <1>1 DEF BillInv, Bills
  <2>2. t \in SubIds /\ subs[t].status \in CurrentStatuses /\ i # NoStripe
    BY <1>1, <2>1 DEF Current, StripeIds, NoStripe
  <2>3. \A s \in SubIds : subs[s].stripe = i => s = t \/ Shared(i)
    BY <2>1, <2>2 DEF BillInv, StripeBacksOneRow, Shared
  <2>4. /\ \A j \in StripeIds : j # i => stripe'[j] = stripe[j]
        /\ l.op = "cancel" => /\ stripe'[i].status = "canceled"
                              /\ stripe'[i].paused = stripe[i].paused
        /\ l.op # "cancel" => stripe'[i].paused = (l.op = "pause")
    BY <1>1, <1>3 DEF TypeOK, StripeObjects
  <2>5. \A s \in SubIds : subs[s].stripe \in StripeIds \union {NoStripe}
    BY DEF TypeOK, Rows
  <2>6. req'[r] = [l EXCEPT !.pc = "svcRead"]
    BY <1>3 DEF Goto, TypeOK
  <2>7. [l EXCEPT !.pc = "svcRead"].pc = "svcRead" /\ [l EXCEPT !.pc = "svcRead"].op = l.op
        /\ [l EXCEPT !.pc = "svcRead"].user = l.user /\ [l EXCEPT !.pc = "svcRead"].stripe = i
    BY <1>1 DEF Locals
  <2>8. CancelledNotBilled'
    BY <1>1, <1>3, <2>4, <2>5 DEF BillInv, CancelledNotBilled, Ended
  <2>9. StripeBacksOneRow'
    BY <1>1 DEF BillInv, StripeBacksOneRow
  <2>10. BackedInv'
    BY <1>1, <2>1, <2>2, <2>4 DEF BillInv, BackedInv
  <2>11. ASSUME NEW q \in Requests PROVE Bills(req[q])'
    <3>1. /\ req'[r].pc = "svcRead" /\ req'[r].op = l.op /\ req'[r].user = l.user
          /\ req'[r].stripe = i
      BY <2>6, <2>7
    <3>2. t \in Current(req[r].user)'
      BY <1>1, <2>1, <2>2, <3>1 DEF Current
    <3>3. subs'[t].stripe = req'[r].stripe
      BY <1>1, <2>1, <3>1
    <3>4. IF req'[r].op = "cancel"
          THEN stripe'[req'[r].stripe].status = "canceled"
          ELSE stripe'[req'[r].stripe].paused <=> req'[r].op = "pause"
      BY <2>4, <3>1
    <3>5. Bills(req[r])'
      BY <3>1, <3>2, <3>3, <3>4 DEF Bills
    <3>6. QED
      BY <3>5 DEF OthersBilled
  <2>12. ASSUME fails' = 0, NEW s \in SubIds
         PROVE  Agrees(s)' \/ \E q \in Requests : Mends(req[q], s)'
    <3>1. Agrees(s) \/ \E q \in Requests : Mends(req[q], s)'
      BY <1>1, <2>12, MendedByOthers DEF Mends
    <3>2. CASE s # t \/ l.op = "cancel"
      <4>1. \A j : Shared(j)' = Shared(j)
        BY <1>1 DEF Shared
      <4>2. Agrees(s) => Agrees(s)'
        BY <1>1, <2>3, <2>4, <2>5, <3>2, <4>1 DEF Agrees, Shared
      <4>3. QED
        BY <3>1, <4>2
    <3>3. CASE s = t /\ l.op # "cancel"
      <4>1. /\ req'[r].pc = "svcRead" /\ req'[r].op = l.op /\ req'[r].user = l.user
        BY <2>6, <2>7
      <4>2. t \in Current(req[r].user)'
        BY <1>1, <2>1, <2>2, <4>1 DEF Current
      <4>3. QED
        BY <3>3, <4>1, <4>2 DEF Mends
    <3>4. QED
      BY <3>2, <3>3
  <2>13. QED
    BY <2>8, <2>9, <2>10, <2>11, <2>12 DEF BillInv
<1>4. QED
  BY <1>2, <1>3 DEF StripeCall

\* The user's current row, as a handler that has called Stripe knows it.
LEMMA BilledRow ==
    ASSUME TypeOK, SerialInv, BillInv, NEW r \in Requests,
           req[r].pc \in {"svcRead", "svcWrite"}, NEW s \in Current(req[r].user)
    PROVE  /\ s \in SubIds /\ subs[s].status \in CurrentStatuses
           /\ subs[s].stripe = req[r].stripe
           /\ \A t \in Current(req[r].user) : t = s
           /\ req[r].stripe # NoStripe =>
                IF req[r].op = "cancel"
                THEN stripe[req[r].stripe].status = "canceled"
                ELSE \/ Shared(req[r].stripe)
                     \/ stripe[req[r].stripe].paused <=> req[r].op = "pause"
<1>1. \A t \in Current(req[r].user) : t = s
  BY DEF SerialInv, AtMostOneCurrent, Current
<1>2. Bills(req[r])
  BY DEF BillInv
<1>3. QED
  BY <1>1, <1>2 DEF Bills, Current

LEMMA BillRead ==
    ASSUME TypeOK, SerialInv, BillInv, NEW r \in Requests, SvcRead(r)
    PROVE  BillInv'
<1> DEFINE l == req[r]
<1>1. /\ l.pc = "svcRead" /\ l \in Locals /\ l.op \in {"pause", "resume", "cancel"}
      /\ UNCHANGED <<subs, stripe, fails>>
  BY DEF SvcRead, At, TypeOK, Filled, db, pay
<1>2. PICK t \in Current(l.user) : subs[t].stripe = l.stripe
  BY <1>1 DEF BillInv, Bills
<1>3. ASSUME NEW s \in Current(l.user), subs[s].status = Target(l.op), Finish(r) PROVE BillInv'
  <2>1. Bills(IdleSlot)
    BY DEF Bills, IdleSlot
  <2>2. ASSUME NEW u \in SubIds, Mends(l, u) PROVE Agrees(u)
    <3>1. u = s /\ l.op \in {"pause", "resume"}
      BY <1>1, <1>3, <2>2, BilledRow DEF Mends
    <3>2. QED
      BY <1>1, <1>3, <3>1, BilledRow DEF Agrees, Target
  <2>3. QED
    BY <1>1, <1>3, <2>1, <2>2, BillSlot DEF Finish
<1>4. ASSUME NEW s \in Current(l.user), req' = [req EXCEPT ![r].pc = "svcWrite", ![r].sub = s]
      PROVE  BillInv'
  <2> DEFINE m == [l EXCEPT !.pc = "svcWrite", !.sub = s]
  <2>1. req' = [req EXCEPT ![r] = m]
    BY <1>4 DEF TypeOK
  <2>2. /\ m.pc = "svcWrite" /\ m.sub = s /\ m.op = l.op /\ m.user = l.user
        /\ m.stripe = l.stripe
    BY <1>1 DEF Locals
  <2> HIDE DEF m
  <2>3. Bills(m)
    BY <1>1, <1>4, <2>2, BilledRow DEF Bills
  <2>4. \A u \in SubIds : Mends(l, u) => Mends(m, u)
    BY <2>2 DEF Mends
  <2>5. QED
    BY <1>1, <2>1, <2>3, <2>4, BillSlot
<1>5. QED
  BY <1>2, <1>3, <1>4 DEF SvcRead

LEMMA BillWrite ==
    ASSUME TypeOK, SerialInv, BillInv, NEW r \in Requests, SvcWrite(r), OthersBilled(r)
    PROVE  BillInv'
<1> DEFINE l == req[r]
<1> DEFINE s == l.sub
<1>1. /\ l.pc = "svcWrite" /\ l \in Locals /\ l.op \in {"pause", "resume", "cancel"}
      /\ UNCHANGED <<stripe, fails>>
  BY DEF SvcWrite, At, TypeOK, Filled, pay
<1>2. s \in Current(l.user)
  BY <1>1 DEF BillInv, Bills
<1>3. PICK t \in SubIds : t = s
  BY <1>2 DEF Current
<1>4. /\ subs[t].status \in CurrentStatuses /\ subs[t].stripe = l.stripe
      /\ \A u \in Current(l.user) : u = t
      /\ l.stripe # NoStripe =>
           IF l.op = "cancel"
           THEN stripe[l.stripe].status = "canceled"
           ELSE Shared(l.stripe) \/ (stripe[l.stripe].paused <=> l.op = "pause")
  BY <1>1, <1>2, <1>3, BilledRow
<1>5. /\ subs'[t].status = Target(l.op) /\ subs'[t].stripe = subs[t].stripe
      /\ subs'[t].user = subs[t].user
      /\ \A u \in SubIds : u # t => subs'[u] = subs[u]
  BY <1>3, <1>4 DEF SvcWrite, TypeOK, Rows, Stored, NotStored, CurrentStatuses
<1>6. Target(l.op) \in Statuses
      /\ (Target(l.op) = "CANCELLED" <=> l.op = "cancel")
      /\ (Target(l.op) = "PAUSED" <=> l.op = "pause")
  BY <1>1 DEF Target, Statuses
<1>7. (CancelledNotBilled /\ StripeBacksOneRow /\ BackedInv)'
  <2>1. CancelledNotBilled'
    BY <1>1, <1>4, <1>5, <1>6 DEF BillInv, CancelledNotBilled
  <2>2. \A u \in SubIds : subs'[u].stripe = subs[u].stripe /\ subs'[u].user = subs[u].user
    BY <1>5
  <2>3. StripeBacksOneRow'
    BY <2>2 DEF BillInv, StripeBacksOneRow
  <2>4. BackedInv'
    BY <1>1, <1>5, <1>6, <2>2 DEF BillInv, BackedInv
  <2>5. QED
    BY <2>1, <2>3, <2>4
<1>8. ASSUME NEW q \in Requests PROVE Bills(req[q])'
  <2>1. req'[r].pc \in {"reread", "idle"}
    BY <1>1 DEF SvcWrite, TypeOK, Locals, Goto, Finish, IdleSlot
  <2>2. QED
    BY <2>1 DEF Bills, OthersBilled
<1>9. ASSUME fails' = 0, NEW u \in SubIds
      PROVE  Agrees(u)' \/ \E q \in Requests : Mends(req[q], u)'
  <2>0. \A i : Shared(i)' <=> Shared(i)
    <3>1. \A v \in SubIds : subs'[v].stripe = subs[v].stripe /\ subs'[v].user = subs[v].user
      BY <1>5
    <3>2. QED
      BY <3>1 DEF Shared
  <2>1. CASE u = t
    <3>1. PICK i : i = l.stripe
      OBVIOUS
    <3>2. subs'[u].stripe = i /\ subs'[u].status = Target(l.op) /\ (Shared(i)' <=> Shared(i))
      BY <1>4, <1>5, <2>0, <2>1, <3>1
    <3>3. Shared(subs[u].stripe)' <=> Shared(i)
      BY <3>2 DEF Shared
    <3>4. QED
      BY <1>1, <1>4, <1>6, <3>1, <3>2, <3>3 DEF Agrees, CurrentStatuses
  <2>2. CASE u # t
    <3>1. Agrees(u) \/ \E q \in Requests : Mends(req[q], u)'
      <4>1. ~Mends(l, u)
        BY <1>4, <2>2 DEF Mends
      <4>2. QED
        BY <1>1, <1>9, <4>1, MendedByOthers
    <3>2. PICK i : i = subs[u].stripe
      OBVIOUS
    <3>3. Shared(subs[u].stripe)' <=> Shared(i)
      BY <1>5, <2>0, <2>2, <3>2 DEF Shared
    <3>4. QED
      BY <1>1, <1>5, <2>2, <3>1, <3>2, <3>3 DEF Agrees
  <2>3. QED
    BY <2>1, <2>2
<1>10. QED
  BY <1>7, <1>8, <1>9 DEF BillInv

\* What changes Stripe's objects behind the rows' back neither pauses one nor takes
\* an end back.
LEMMA BillStripe ==
    ASSUME TypeOK, BillInv, UNCHANGED <<subs, fails>>,
           \A i \in StripeIds : /\ stripe'[i].paused <=> stripe[i].paused
                                /\ stripe[i].status = "canceled" => stripe'[i].status = "canceled"
    PROVE  /\ (CancelledNotBilled /\ StripeBacksOneRow /\ BackedInv)'
           /\ \A s \in SubIds : Agrees(s) => Agrees(s)'
           /\ \A l \in Locals : Bills(l) => Bills(l)'
           /\ \A l, s : Mends(l, s) => Mends(l, s)'
<1>1. \A s \in SubIds : subs[s].stripe \in StripeIds \union {NoStripe}
  BY DEF TypeOK, Rows
<1>2. (CancelledNotBilled /\ StripeBacksOneRow /\ BackedInv)'
  <2>1. CancelledNotBilled'
    BY <1>1 DEF BillInv, CancelledNotBilled
  <2>2. StripeBacksOneRow'
    BY DEF BillInv, StripeBacksOneRow
  <2>3. BackedInv'
    BY DEF BillInv, BackedInv
  <2>4. QED
    BY <2>1, <2>2, <2>3
<1>3. \A s \in SubIds : Agrees(s) => Agrees(s)'
  BY <1>1 DEF Agrees, Shared
<1>4. ASSUME NEW l \in Locals, Bills(l) PROVE Bills(l)'
  <2>1. l.stripe \in StripeIds \union {NoStripe}
    BY DEF Locals
  <2>2. QED
    BY <1>4, <2>1 DEF Bills, Current, Shared
<1>5. \A l, s : Mends(l, s) => Mends(l, s)'
  BY DEF Mends, Current
<1>6. QED
  BY <1>2, <1>3, <1>4, <1>5

LEMMA BillActs ==
    ASSUME TypeOK, BillInv, NEW i \in StripeIds, StripeActs(i)
    PROVE  BillInv'
<1>1. PICK from \in {"incomplete", "active", "past_due"}, to \in StripeStatuses :
        StripeMoves(i, from, to)
  BY DEF StripeActs, CustomerPays, Expire, Dunning, StripeStatuses
<1>2. UNCHANGED <<subs, req, fails>>
  BY <1>1 DEF StripeMoves, db
<1>3. \A j \in StripeIds : /\ stripe'[j].paused <=> stripe[j].paused
                           /\ stripe[j].status = "canceled" => stripe'[j].status = "canceled"
  BY <1>1 DEF StripeMoves, TypeOK, StripeObjects
<1>4. /\ (CancelledNotBilled /\ StripeBacksOneRow /\ BackedInv)'
      /\ \A s \in SubIds : Agrees(s) => Agrees(s)'
      /\ \A l \in Locals : Bills(l) => Bills(l)'
      /\ \A l, s : Mends(l, s) => Mends(l, s)'
  BY <1>2, <1>3, BillStripe
<1>5. ASSUME NEW r \in Requests PROVE Bills(req[r])'
  <2>1. PICK l \in Locals : l = req[r] /\ Bills(l)
    BY DEF TypeOK, BillInv
  <2>2. Bills(l)' /\ req'[r] = l
    BY <1>2, <1>4, <2>1
  <2>3. QED
    BY <2>2 DEF Bills, Current, Shared
<1>6. ASSUME fails' = 0, NEW s \in SubIds PROVE Agrees(s)' \/ \E r \in Requests : Mends(req[r], s)'
  <2>1. CASE Agrees(s)
    BY <1>4, <2>1
  <2>2. ASSUME NEW r \in Requests, Mends(req[r], s) PROVE Mends(req[r], s)'
    BY <1>2, <2>2 DEF Mends, Current
  <2>3. QED
    BY <1>2, <1>6, <2>1, <2>2 DEF BillInv
<1>7. QED
  BY <1>4, <1>5, <1>6 DEF BillInv

\* The object a checkout creates backs no row yet.
LEMMA BillCheckout ==
    ASSUME TypeOK, PaidInv, BillInv, NEW r \in Requests, CheckoutCreate(r), OthersBilled(r)
    PROVE  BillInv'
<1>1. /\ req[r].pc = "checkoutCreate" /\ req' = [req EXCEPT ![r] = IdleSlot]
      /\ UNCHANGED <<subs, fails>>
  BY DEF CheckoutCreate, At, Finish, db
<1>2. nextStripe \in StripeIds /\ stripe[nextStripe].status = "none"
  BY ConstantsAssumption DEF CheckoutCreate, TypeOK, StripeIds, PaidInv
<1>3. /\ ~stripe'[nextStripe].paused
      /\ \A i \in StripeIds : i # nextStripe => stripe'[i] = stripe[i]
  BY <1>2 DEF CheckoutCreate, TypeOK
<1>4. \A s \in SubIds : /\ subs[s].stripe # nextStripe
                        /\ subs[s].stripe \in StripeIds \union {NoStripe}
  BY <1>2 DEF PaidInv, Paid, EverPaid, TypeOK, Rows, StripeIds, NoStripe
<1>5. (CancelledNotBilled /\ StripeBacksOneRow /\ BackedInv)'
  BY <1>1, <1>3, <1>4 DEF BillInv, CancelledNotBilled, StripeBacksOneRow, BackedInv
<1>6. ASSUME NEW q \in Requests PROVE Bills(req[q])'
  <2>1. req'[r].pc = "idle"
    BY <1>1 DEF TypeOK, IdleSlot
  <2>2. QED
    BY <2>1 DEF Bills, OthersBilled
<1>7. ASSUME fails' = 0, NEW s \in SubIds
      PROVE  Agrees(s)' \/ \E q \in Requests : Mends(req[q], s)'
  <2>1. Agrees(s) \/ \E q \in Requests : Mends(req[q], s)'
    BY <1>1, <1>7, MendedByOthers DEF Mends
  <2>2. QED
    BY <1>1, <1>3, <1>4, <2>1 DEF Agrees, Shared
<1>8. QED
  BY <1>5, <1>6, <1>7 DEF BillInv

LEMMA BillContinue ==
    ASSUME TypeOK, OwnTurn, NoAdmin, SerialInv, PaidInv, BillInv, NEW r \in Requests, Continue(r)
    PROVE  BillInv'
<1>1. CASE ShipFind(r) \/ ShipInsert(r) \/ PayInsert(r) \/ Reread(r)
  <2>1. UNCHANGED <<subs, stripe, fails>> /\ req[r].pc \notin {"svcRead", "svcWrite"}
    BY <1>1 DEF ShipFind, ShipInsert, PayInsert, Reread, At, db, pay
  <2>2. req'[r].pc \in Unaware
    BY <1>1 DEF ShipFind, ShipInsert, PayInsert, Reread, AfterShipments, Goto, Finish, TypeOK,
       Locals, IdleSlot, Unaware
  <2>3. \E l : req' = [req EXCEPT ![r] = l]
    BY <1>1 DEF ShipFind, ShipInsert, PayInsert, Reread, AfterShipments, Goto, Finish, TypeOK
  <2>4. PICK l : req' = [req EXCEPT ![r] = l]
    BY <2>3
  <2>5. l.pc \in Unaware
    BY <2>2, <2>4 DEF TypeOK
  <2>6. QED
    BY <2>1, <2>4, <2>5, BillUnaware
<1>2. CASE AdminInsert(r) \/ AdminUpdateCheck(r) \/ AdminUpdateWrite(r) \/ AdminRemove(r)
  BY <1>2 DEF AdminInsert, AdminUpdateCheck, AdminUpdateWrite, AdminRemove, At, SerialInv,
     StillTrue, NoAdmin
<1>3. OthersBilled(r)
  BY BillOthers
<1>4. QED
  BY <1>1, <1>2, <1>3, BillConfirm, BillInsert, BillCheckout, BillCall, BillRead, BillWrite
     DEF Continue

LEMMA BillNext ==
    ASSUME OwnTurn, NoAdmin, TypeOK, SerialInv, PaidInv, BillInv, [Next]_vars
    PROVE  BillInv'
<1>1. ASSUME NEW r \in Requests, Fail(r) PROVE BillInv'
  <2>1. UNCHANGED <<subs, stripe>> /\ req' = [req EXCEPT ![r] = IdleSlot] /\ fails' # 0
    BY <1>1 DEF Fail, Finish, TypeOK, db, pay
  <2>2. ASSUME NEW q \in Requests PROVE Bills(req[q])'
    <3>1. \/ req'[q].pc = "idle"
          \/ req'[q] = req[q] /\ Bills(req[q])
      BY <2>1 DEF TypeOK, IdleSlot, BillInv
    <3>2. QED
      BY <2>1, <3>1 DEF Bills, Current, Shared
  <2>3. (CancelledNotBilled /\ StripeBacksOneRow /\ BackedInv)'
    BY <2>1 DEF BillInv, CancelledNotBilled, StripeBacksOneRow, BackedInv
  <2>4. QED
    BY <2>1, <2>2, <2>3 DEF BillInv
<1>2. CASE UNCHANGED vars
  <2>1. \A l : Bills(l)' = Bills(l)
    BY <1>2 DEF vars, Bills, Current, Shared
  <2>2. QED
    BY <1>2 DEF vars, BillInv, Bills, CancelledNotBilled, StripeBacksOneRow, BackedInv, Agrees,
       Mends, Current, Shared
<1>3. QED
  BY <1>1, <1>2, BillArrive, BillContinue, BillActs DEF Next

\* Without an admin, while no subscriber has two requests in flight, whatever fails: a
\* cancelled row is no longer billed, a Stripe subscription pays for one row of a user
\* at most, and, if nothing has failed, Stripe collects for a current row exactly when
\* it is not paused, unless a row of another user names its Stripe subscription too.
THEOREM ApartRowsAgree == NoAdmin => (Spec /\ []OwnTurn => []RowsAgreeWithStripe)
<1> SUFFICES ASSUME NoAdmin PROVE Spec /\ []OwnTurn => []RowsAgreeWithStripe
  OBVIOUS
<1>1. AdminApart
  BY DEF NoAdmin, AdminApart
<1>2. SerialInv /\ OwnTurn /\ TypeOK /\ [Next]_vars => SerialInv'
  BY <1>1, SerialNext
<1>3. OwnTurn /\ TypeOK /\ SerialInv /\ PaidInv /\ BillInv /\ [Next]_vars => BillInv'
  BY BillNext
<1>4. BillInv => RowsAgreeWithStripe
  BY DEF BillInv, RowsAgreeWithStripe, PauseAgrees, Quiet, At, Mends, Agrees
<1>5. QED
  BY <1>2, <1>3, <1>4, TypeInit, TypeNext, SerialInit, PaidInit, PaidNext, BillInit, PTL DEF Spec

\* The same with one request at a time.
COROLLARY SerialRowsAgree == OneAtATime /\ NoAdmin => (Spec => []RowsAgreeWithStripe)
<1> SUFFICES ASSUME OneAtATime, NoAdmin PROVE Spec => []RowsAgreeWithStripe
  OBVIOUS
<1>1. OwnTurn
  BY OneTakesTurns
<1>2. Spec /\ []OwnTurn => []RowsAgreeWithStripe
  BY ApartRowsAgree
<1>3. QED
  BY <1>1, <1>2, PTL

=============================================================================
