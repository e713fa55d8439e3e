-------------------- MODULE SubscriptionLifecycle_proofs --------------------
(***************************************************************************)
(* Theorems about SubscriptionLifecycle, for every set of users, plans and *)
(* request slots, every workload and every bound.                          *)
(***************************************************************************)
EXTENDS SubscriptionLifecycle, TLAPS

-----------------------------------------------------------------------------
(* Type correctness. *)

\* The locals a slot may hold.
Good == {l \in Locals : Filled(l)}

\* Freeing a slot, or giving it good locals, leaves every slot with good locals.
LEMMA SlotTypes ==
    ASSUME TypeOK, NEW r \in Requests
    PROVE  /\ req \in [Requests -> Good]
           /\ \A l \in Good : req' = [req EXCEPT ![r] = l] => req' \in [Requests -> Good]
           /\ Finish(r) => req' \in [Requests -> Good]
<1>1. IdleSlot \in Good
  BY DEF Good, Filled, IdleSlot, Locals, Steps, NoSub, NoStripe, NoDto, Dtos
<1>2. req \in [Requests -> Good]
  BY DEF TypeOK, Good
<1>3. QED
  BY <1>1, <1>2 DEF Finish

\* A step that writes nothing but a slot.
LEMMA OnlySlot ==
    ASSUME TypeOK, req' \in [Requests -> Good], UNCHANGED <<db, pay, fails>>
    PROVE  TypeOK'
BY DEF TypeOK, db, pay, Good

THEOREM TypeInit == Init => TypeOK
<1> SUFFICES ASSUME Init PROVE TypeOK
  OBVIOUS
<1>1. NoRow \in Rows
  BY DEF NoRow, Rows, NotStored, NoStripe
<1>2. NoObject \in StripeObjects
  BY DEF NoObject, StripeObjects, StripeStatuses
<1>3. IdleSlot \in Locals /\ Filled(IdleSlot)
  BY DEF IdleSlot, Locals, Filled, Steps, NoSub, NoStripe, NoDto, Dtos
<1>4. QED
  BY <1>1, <1>2, <1>3, ConstantsAssumption DEF Init, TypeOK, SubIds, StripeIds

\* The locals a request starts with are good ones.
LEMMA TypeArrive ==
    ASSUME TypeOK, NEW r \in Requests, Arrive(r)
    PROVE  TypeOK'
<1> USE DEF IdleSlot, Good, Filled, Locals, Steps, NoSub, NoStripe, NoDto, Dtos
<1>0. ASSUME NEW op \in UserOps \union AdminOps, NEW l,
             [l EXCEPT !.op = op] \in Good, Accept(r, op, l)
      PROVE  req' \in [Requests -> Good]
  <2> HIDE DEF Good
  <2>1. QED
    BY <1>0, SlotTypes DEF Accept
<1>1. ASSUME NEW u \in Users, NEW p \in Plans, SubscribeCheck(r, u, p)
      PROVE  TypeOK'
  <2> DEFINE l == [IdleSlot EXCEPT !.pc = "subInsert", !.user = u, !.plan = p]
  <2>1. [l EXCEPT !.op = "subscribe"] \in Good
    BY DEF UserOps
  <2>2. Accept(r, "subscribe", l) /\ UNCHANGED <<db, pay, fails>>
    BY <1>1 DEF SubscribeCheck
  <2> HIDE DEF l, Good
  <2>3. QED
    BY <2>1, <2>2, <1>0, OnlySlot DEF UserOps
<1>2. ASSUME NEW u \in Users, NEW p \in Plans, CheckoutCheck(r, u, p)
      PROVE  TypeOK'
  <2> DEFINE l == [IdleSlot EXCEPT !.pc = "checkoutCreate", !.user = u, !.plan = p]
  <2>1. [l EXCEPT !.op = "checkout"] \in Good
    BY DEF UserOps
  <2>2. Accept(r, "checkout", l) /\ UNCHANGED <<db, pay, fails>>
    BY <1>2 DEF CheckoutCheck
  <2> HIDE DEF l, Good
  <2>3. QED
    BY <2>1, <2>2, <1>0, OnlySlot DEF UserOps
<1>3. ASSUME NEW u \in Users, NEW p \in Plans, NEW i \in StripeIds, ConfirmRead(r, u, p, i)
      PROVE  TypeOK'
  <2> DEFINE l == [IdleSlot EXCEPT !.pc = "subCheck", !.user = u, !.plan = p, !.stripe = i]
  <2>1. [l EXCEPT !.op = "confirm"] \in Good
    BY DEF UserOps
  <2>2. Accept(r, "confirm", l) /\ UNCHANGED <<db, pay, fails>>
    BY <1>3 DEF ConfirmRead
  <2> HIDE DEF l, Good
  <2>3. QED
    BY <2>1, <2>2, <1>0, OnlySlot DEF UserOps
<1>4. ASSUME NEW u \in Users, NEW p \in Plans, NEW st \in Statuses, AdminCreateCheck(r, u, p, st)
      PROVE  TypeOK'
  <2> DEFINE l == [IdleSlot EXCEPT !.pc = "adminInsert", !.user = u, !.plan = p,
                                   !.dto.status = st]
  <2>1. [l EXCEPT !.op = "adminCreate"] \in Good
    BY DEF AdminOps
  <2>2. Accept(r, "adminCreate", l) /\ UNCHANGED <<db, pay, fails>>
    BY <1>4 DEF AdminCreateCheck
  <2> HIDE DEF l, Good
  <2>3. QED
    BY <2>1, <2>2, <1>0, OnlySlot DEF AdminOps
<1>5. ASSUME NEW u \in Users, NEW op \in {"pause", "resume", "cancel"}, CurrentRead(r, u, op)
      PROVE  TypeOK'
  <2>1. PICK s \in Current(u) :
          Accept(r, op, [IdleSlot EXCEPT
                           !.pc = IF subs[s].stripe = NoStripe THEN "svcRead" ELSE "stripeCall",
                           !.user = u, !.stripe = subs[s].stripe])
    BY <1>5 DEF CurrentRead
  <2> DEFINE l == [IdleSlot EXCEPT
                           !.pc = IF subs[s].stripe = NoStripe THEN "svcRead" ELSE "stripeCall",
                           !.user = u, !.stripe = subs[s].stripe]
  <2>2. subs[s].stripe \in StripeIds \union {NoStripe}
    BY DEF TypeOK, Current, Rows
  <2>3. op \in UserOps \union AdminOps
    BY DEF UserOps
  <2>4. [l EXCEPT !.op = op] \in Good
    BY <2>2, <2>3
  <2>5. Accept(r, op, l)
    BY <2>1
  <2> HIDE DEF l, Good
  <2>6. QED
    BY <2>3, <2>4, <2>5, <1>0, <1>5, OnlySlot DEF CurrentRead
<1>6. ASSUME NEW u \in Users, DashboardRead(r, u)
      PROVE  TypeOK'
  <2> DEFINE active == {s \in Current(u) : subs[s].status = "ACTIVE"}
  <2> DEFINE l == [IdleSlot EXCEPT !.pc = "shipFind", !.user = u, !.todo = active]
  <2>1. [l EXCEPT !.op = "dashboard"] \in Good
    BY DEF Current, UserOps
  <2>2. Accept(r, "dashboard", l) /\ UNCHANGED <<db, pay, fails>>
    BY <1>6 DEF DashboardRead
  <2> HIDE DEF l, Good
  <2>3. QED
    BY <2>1, <2>2, <1>0, OnlySlot DEF UserOps
<1>7. ASSUME NEW s \in SubIds, NEW dto \in Edits, AdminUpdateRead(r, s, dto)
      PROVE  TypeOK'
  <2> DEFINE step == IF OrElse(dto.status, subs[s].status) \in CurrentStatuses
                     THEN "updCheck" ELSE "updWrite"
  <2> DEFINE target == OrElse(dto.user, subs[s].user)
  <2> DEFINE l == [IdleSlot EXCEPT !.pc = step, !.user = target, !.sub = s, !.dto = dto]
  <2>1. dto \in Dtos
    BY EditsAssumption
  <2>2. target \in Users \union {None}
    BY <2>1 DEF OrElse, TypeOK, Rows
  <2>3. step \in {"updCheck", "updWrite"}
    OBVIOUS
  <2>4. [l EXCEPT !.op = "adminUpdate"] \in Good
    <3> HIDE DEF step, target
    <3>1. QED
      BY <2>1, <2>2, <2>3 DEF AdminOps
  <2>5. Accept(r, "adminUpdate", l) /\ UNCHANGED <<db, pay, fails>>
    BY <1>7 DEF AdminUpdateRead
  <2> HIDE DEF l, Good
  <2>6. QED
    BY <2>4, <2>5, <1>0, OnlySlot DEF AdminOps
<1>8. ASSUME NEW s \in SubIds, AdminRemoveRead(r, s)
      PROVE  TypeOK'
  <2> DEFINE l == [IdleSlot EXCEPT !.pc = "delete", !.sub = s]
  <2>1. [l EXCEPT !.op = "adminRemove"] \in Good
    BY DEF AdminOps
  <2>2. Accept(r, "adminRemove", l) /\ UNCHANGED <<db, pay, fails>>
    BY <1>8 DEF AdminRemoveRead
  <2> HIDE DEF l, Good
  <2>3. QED
    BY <2>1, <2>2, <1>0, OnlySlot DEF AdminOps
<1>9. QED
  BY <1>1, <1>2, <1>3, <1>4, <1>5, <1>6, <1>7, <1>8 DEF Arrive

\* Each await leaves the slot with the locals its next step needs, and writes rows
\* and Stripe objects of the right shape.
LEMMA TypeContinue ==
    ASSUME TypeOK, NEW r \in Requests, Continue(r)
    PROVE  TypeOK'
<1> DEFINE l == req[r]
<1>l. l \in Locals /\ Filled(l) /\ l \in Good
  BY SlotTypes DEF TypeOK
<1>f. Finish(r) => req' \in [Requests -> Good]
  BY SlotTypes
<1>e. \A m \in Good : req' = [req EXCEPT ![r] = m] => req' \in [Requests -> Good]
  BY SlotTypes
<1>g. \A step \in Steps :
        Goto(r, step) /\ Filled([l EXCEPT !.pc = step]) => req' \in [Requests -> Good]
  <2> SUFFICES ASSUME NEW step \in Steps, Goto(r, step), Filled([l EXCEPT !.pc = step])
               PROVE  req' \in [Requests -> Good]
    OBVIOUS
  <2>1. [l EXCEPT !.pc = step] \in Locals
    BY <1>l DEF Locals
  <2>2. req' = [req EXCEPT ![r] = [l EXCEPT !.pc = step]]
    BY DEF Goto, TypeOK
  <2>3. QED
    BY <2>1, <2>2, <1>e DEF Good
<1>i. ASSUME NEW row \in Rows, Insert(row)
      PROVE  /\ subs' \in [SubIds -> Rows]
             /\ nextSub' \in 1 .. MaxSubs + 1
             /\ nextSub \in SubIds
  BY <1>i, ConstantsAssumption DEF TypeOK, Insert, SubIds
<1>n. ASSUME NEW s \in SubIds
      PROVE  [l EXCEPT !.pc = "shipFind", !.sub = s, !.todo = {s}] \in Good
  <2> DEFINE m == [l EXCEPT !.pc = "shipFind", !.sub = s, !.todo = {s}]
  <2>1. m \in Locals
    BY <1>l DEF Locals, Steps
  <2>2. m.pc = "shipFind" /\ m.sub = s /\ m.todo = {s}
    BY <1>l DEF Locals
  <2>3. m \in Good
    <3> HIDE DEF m
    <3>1. QED
      BY <2>1, <2>2 DEF Good, Filled
  <2>4. QED
    BY <2>3
<1>1. CASE ConfirmCheck(r)
  <2>1. Filled([l EXCEPT !.pc = "subInsert"])
    BY <1>1, <1>l DEF ConfirmCheck, At, Filled, Locals
  <2>2. QED
    BY <2>1, <1>1, <1>f, <1>g, OnlySlot DEF ConfirmCheck, Steps
<1>2. CASE SubInsert(r)
  <2> DEFINE row == [user |-> l.user, plan |-> l.plan, status |-> "ACTIVE",
                     stripe |-> l.stripe]
  <2> DEFINE m == [l EXCEPT !.pc = "shipFind", !.sub = nextSub, !.todo = {nextSub}]
  <2>1. row \in Rows
    BY <1>l DEF Rows, Locals, Statuses
  <2>2. Insert(row)
    BY <1>2 DEF SubInsert
  <2>3. nextSub \in SubIds
    BY <2>1, <2>2, <1>i
  <2>4. m \in Good
    BY <2>3, <1>n
  <2>5. req' = [req EXCEPT ![r] = m]
    BY <1>2 DEF SubInsert, TypeOK
  <2>6. req' \in [Requests -> Good]
    BY <2>4, <2>5, <1>e
  <2> HIDE DEF row, m
  <2>7. QED
    BY <1>2, <1>i, <2>1, <2>2, <2>6 DEF SubInsert, TypeOK, Good, pay
<1>a. ASSUME At(r, "shipFind") \/ At(r, "shipInsert"), AfterShipments(r)
      PROVE  req' \in [Requests -> Good]
  <2>1. l.op = "confirm" => Filled([l EXCEPT !.pc = "payInsert"])
    BY <1>a, <1>l DEF At, Filled, Locals
  <2>2. QED
    BY <2>1, <1>a, <1>f, <1>g DEF AfterShipments, Steps
<1>3. CASE ShipFind(r)
  <2> DEFINE missing == {s \in l.todo : ships[s] = 0}
  <2> DEFINE m == [l EXCEPT !.pc = "shipInsert", !.todo = missing]
  <2>1. CASE missing = {}
    BY <2>1, <1>3, <1>a, OnlySlot DEF ShipFind
  <2>2. CASE missing # {}
    <3>1. missing \in SUBSET SubIds /\ (l.todo = {l.sub} => missing = {l.sub})
      BY <1>l, <2>2 DEF Locals
    <3>2. req' = [req EXCEPT ![r] = m]
      BY <1>3, <2>2 DEF ShipFind, TypeOK
    <3> HIDE DEF missing
    <3>3. m \in Good
      BY <3>1, <1>3, <1>l DEF Good, Filled, Locals, Steps, ShipFind, At
    <3> HIDE DEF m
    <3>4. QED
      BY <3>2, <3>3, <1>e, <1>3, OnlySlot DEF ShipFind
  <2>3. QED
    BY <2>1, <2>2
<1>4. CASE ShipInsert(r)
  <2>1. req' \in [Requests -> Good]
    BY <1>4, <1>f, <1>a DEF ShipInsert
  <2>2. ships' \in [SubIds -> Nat]
    BY <1>4 DEF ShipInsert, TypeOK
  <2>3. QED
    BY <2>1, <2>2, <1>4 DEF ShipInsert, TypeOK, Good, pay
<1>5. CASE PayInsert(r)
  <2>1. req' \in [Requests -> Good]
    BY <1>5, <1>f DEF PayInsert
  <2>2. pays' \in [SubIds -> Nat]
    BY <1>5, <1>l DEF PayInsert, At, Filled, TypeOK
  <2>3. QED
    BY <2>1, <2>2, <1>5 DEF PayInsert, TypeOK, Good, pay
<1>6. CASE CheckoutCreate(r)
  <2> DEFINE object == [user |-> l.user, price |-> PriceOf[l.plan],
                        status |-> "incomplete", paused |-> FALSE]
  <2>1. object \in StripeObjects
    BY <1>6, <1>l DEF CheckoutCreate, At, Filled, StripeObjects, StripeStatuses
  <2>2. /\ stripe' = [stripe EXCEPT ![nextStripe] = object]
        /\ nextStripe' = nextStripe + 1
        /\ nextStripe <= MaxStripe
    BY <1>6 DEF CheckoutCreate
  <2> HIDE DEF object
  <2>3. stripe' \in [StripeIds -> StripeObjects] /\ nextStripe' \in 1 .. MaxStripe + 1
    BY <2>1, <2>2, ConstantsAssumption DEF TypeOK, StripeIds
  <2>4. req' \in [Requests -> Good]
    BY <1>6, <1>f DEF CheckoutCreate
  <2>5. QED
    BY <2>3, <2>4, <1>6 DEF CheckoutCreate, TypeOK, Good, db
<1>7. CASE StripeCall(r)
  <2>1. Filled([l EXCEPT !.pc = "svcRead"])
    BY <1>7, <1>l DEF StripeCall, At, Filled, Locals
  <2>2. req' \in [Requests -> Good]
    BY <2>1, <1>7, <1>f, <1>g DEF StripeCall, Steps
  <2>3. stripe' \in [StripeIds -> StripeObjects]
    <3>1. \A o \in StripeObjects : /\ [o EXCEPT !.paused = TRUE] \in StripeObjects
                                   /\ [o EXCEPT !.paused = FALSE] \in StripeObjects
                                   /\ [o EXCEPT !.status = "canceled"] \in StripeObjects
      BY DEF StripeObjects, StripeStatuses
    <3>2. l.op \in {"pause", "resume", "cancel"} /\ l.stripe \in StripeIds
      BY <1>7, <1>l DEF StripeCall, At, Filled
    <3>3. \/ stripe' = stripe
          \/ stripe' = [stripe EXCEPT ![l.stripe].paused = TRUE]
          \/ stripe' = [stripe EXCEPT ![l.stripe].paused = FALSE]
          \/ stripe' = [stripe EXCEPT ![l.stripe].status = "canceled"]
      BY <1>7, <3>2 DEF StripeCall
    <3>4. QED
      BY <3>1, <3>2, <3>3 DEF TypeOK
  <2>4. QED
    BY <2>2, <2>3, <1>7 DEF StripeCall, TypeOK, Good, db
<1>8. CASE SvcRead(r)
  <2>1. CASE Finish(r)
    BY <2>1, <1>8, <1>f, OnlySlot DEF SvcRead
  <2>2. ASSUME NEW s \in Current(l.user), req' = [req EXCEPT ![r].pc = "svcWrite", ![r].sub = s]
        PROVE  TypeOK'
    <3> DEFINE m == [l EXCEPT !.pc = "svcWrite", !.sub = s]
    <3>1. req' = [req EXCEPT ![r] = m]
      BY <2>2 DEF TypeOK
    <3>2. m \in Good
      BY <1>8, <1>l DEF SvcRead, At, Current, Good, Filled, Locals, Steps
    <3> HIDE DEF m
    <3>3. QED
      BY <3>1, <3>2, <1>e, <1>8, OnlySlot DEF SvcRead
  <2>3. QED
    BY <2>1, <2>2, <1>8 DEF SvcRead
<1>9. CASE SvcWrite(r)
  <2>1. Filled([l EXCEPT !.pc = "reread"])
    BY <1>9, <1>l DEF SvcWrite, At, Filled, Locals
  <2>2. req' \in [Requests -> Good]
    BY <2>1, <1>9, <1>f, <1>g DEF SvcWrite, Steps
  <2>3. Target(l.op) \in Statuses
    BY DEF Target, Statuses
  <2>4. subs' \in [SubIds -> Rows]
    <3> DEFINE new == [subs[l.sub] EXCEPT !.status = Target(l.op)]
    <3>1. l.sub \in SubIds
      BY <1>9, <1>l DEF SvcWrite, At, Filled
    <3>2. new \in Rows
      BY <3>1, <2>3 DEF TypeOK, Rows
    <3>3. subs' = subs \/ subs' = [subs EXCEPT ![l.sub] = new]
      BY <1>9, <3>1 DEF SvcWrite, TypeOK
    <3> HIDE DEF new
    <3>4. QED
      BY <3>1, <3>2, <3>3 DEF TypeOK
  <2>5. QED
    BY <2>2, <2>4, <1>9 DEF SvcWrite, TypeOK, Good, pay
<1>10. CASE Reread(r)
  <2> DEFINE m == [l EXCEPT !.pc = "shipFind", !.todo = {l.sub}]
  <2>1. CASE Finish(r)
    BY <2>1, <1>10, <1>f, OnlySlot DEF Reread
  <2>2. CASE ~Finish(r)
    <3>1. req' = [req EXCEPT ![r] = m]
      BY <2>2, <1>10 DEF Reread, TypeOK
    <3>2. m \in Good
      BY <1>10, <1>l DEF Reread, At, Good, Filled, Locals, Steps
    <3> HIDE DEF m
    <3>3. QED
      BY <3>1, <3>2, <1>e, <1>10, OnlySlot DEF Reread
  <2>3. QED
    BY <2>1, <2>2
<1>11. CASE AdminInsert(r)
  <2> DEFINE row == [user |-> l.user, plan |-> l.plan, status |-> l.dto.status,
                     stripe |-> NoStripe]
  <2> DEFINE m == [l EXCEPT !.pc = "shipFind", !.sub = nextSub, !.todo = {nextSub}]
  <2>1. row \in Rows
    BY <1>11, <1>l DEF AdminInsert, At, Filled, Rows, Locals
  <2>2. Insert(row)
    BY <1>11 DEF AdminInsert
  <2>3. nextSub \in SubIds
    BY <2>1, <2>2, <1>i
  <2>4. m \in Good
    BY <2>3, <1>n
  <2>5. req' = [req EXCEPT ![r] = m] \/ Finish(r)
    BY <1>11 DEF AdminInsert, TypeOK
  <2>6. req' \in [Requests -> Good]
    BY <2>4, <2>5, <1>e, <1>f
  <2> HIDE DEF row, m
  <2>7. QED
    BY <1>11, <1>i, <2>1, <2>2, <2>6 DEF AdminInsert, TypeOK, Good, pay
<1>12. CASE AdminUpdateCheck(r)
  <2>1. Filled([l EXCEPT !.pc = "updWrite"])
    BY <1>12, <1>l DEF AdminUpdateCheck, At, Filled, Locals
  <2>2. QED
    BY <2>1, <1>12, <1>f, <1>g, OnlySlot DEF AdminUpdateCheck, Steps
<1>13. CASE AdminUpdateWrite(r)
  <2>1. Filled([l EXCEPT !.pc = "reread"])
    BY <1>13, <1>l DEF AdminUpdateWrite, At, Filled, Locals
  <2>2. req' \in [Requests -> Good]
    BY <2>1, <1>13, <1>g DEF AdminUpdateWrite, Steps
  <2>3. l.sub \in SubIds /\ l.dto \in Dtos
    BY <1>13, <1>l DEF AdminUpdateWrite, At, Filled, Locals
  <2>4. subs' \in [SubIds -> Rows]
    <3> DEFINE old == subs[l.sub]
    <3> DEFINE new == [old EXCEPT !.status = OrElse(l.dto.status, old.status),
                                  !.user   = OrElse(l.dto.user, old.user),
                                  !.plan   = OrElse(l.dto.plan, old.plan)]
    <3>1. old \in Rows
      BY <2>3 DEF TypeOK
    <3>2. new \in Rows
      BY <3>1, <2>3 DEF Rows, Dtos, OrElse
    <3>3. subs' = subs \/ subs' = [subs EXCEPT ![l.sub] = new]
      BY <1>13, <2>3 DEF AdminUpdateWrite, TypeOK
    <3> HIDE DEF new
    <3>4. QED
      BY <3>2, <3>3 DEF TypeOK
  <2>5. QED
    BY <2>2, <2>4, <1>13 DEF AdminUpdateWrite, TypeOK, Good, pay
<1>14. CASE AdminRemove(r)
  <2>1. [NoRow EXCEPT !.status = "DELETED"] \in Rows
    BY DEF NoRow, Rows, NotStored, NoStripe
  <2>2. subs' \in [SubIds -> Rows]
    BY <2>1, <1>14 DEF AdminRemove, TypeOK
  <2>3. req' \in [Requests -> Good]
    BY <1>14, <1>f DEF AdminRemove
  <2>4. QED
    BY <2>2, <2>3, <1>14 DEF AdminRemove, TypeOK, Good, pay
<1>15. QED
  BY <1>1, <1>2, <1>3, <1>4, <1>5, <1>6, <1>7, <1>8, <1>9, <1>10, <1>11, <1>12, <1>13, <1>14
     DEF Continue

LEMMA TypeNext == TypeOK /\ [Next]_vars => TypeOK'
<1> SUFFICES ASSUME TypeOK, [Next]_vars PROVE TypeOK'
  OBVIOUS
<1>1. ASSUME NEW r \in Requests, Fail(r) PROVE TypeOK'
  <2>1. req' \in [Requests -> Good]
    BY <1>1, SlotTypes DEF Fail
  <2>2. fails' \in 0 .. MaxFails
    BY <1>1, ConstantsAssumption DEF Fail, TypeOK
  <2>3. QED
    BY <2>1, <2>2, <1>1 DEF Fail, TypeOK, Good, db, pay
<1>2. ASSUME NEW i \in StripeIds, StripeActs(i) PROVE TypeOK'
  <2>1. PICK from \in StripeStatuses, to \in StripeStatuses : StripeMoves(i, from, to)
    BY <1>2 DEF StripeActs, CustomerPays, Expire, Dunning, StripeStatuses
  <2>2. [stripe[i] EXCEPT !.status = to] \in StripeObjects
    BY DEF TypeOK, StripeObjects
  <2>3. stripe' = [stripe EXCEPT ![i] = [stripe[i] EXCEPT !.status = to]]
    BY <2>1 DEF StripeMoves, TypeOK
  <2>4. stripe' \in [StripeIds -> StripeObjects]
    BY <2>2, <2>3 DEF TypeOK
  <2>5. QED
    BY <2>1, <2>4 DEF StripeMoves, TypeOK, db
<1>3. CASE UNCHANGED vars
  BY <1>3 DEF TypeOK, vars
<1>4. QED
  BY <1>1, <1>2, <1>3, TypeArrive, TypeContinue DEF Next

\* Every row, slot and Stripe object is well formed, and every handler has the
\* locals the rest of its code relies on.
THEOREM TypeCorrect == Spec => []TypeOK
BY TypeInit, TypeNext, PTL DEF Spec

-----------------------------------------------------------------------------
(* A row is never created for a Stripe subscription that was not paid.      *)

Paid(i) == i # NoStripe => stripe[i].status \in EverPaid

\* What makes it inductive: a confirm under way has seen a paid subscription, one
\* that is paused, resumed or cancelled backs a row, a paid one never becomes
\* unpaid, and an id that Stripe gives next is not in use.
PaidInv ==
    /\ \A s \in SubIds : Paid(subs[s].stripe)
    /\ \A r \in Requests : req[r].pc \in {"subCheck", "subInsert", "stripeCall"}
         => Paid(req[r].stripe)
    /\ \A i \in StripeIds : i >= nextStripe => stripe[i].status = "none"

LEMMA PaidInit == Init => PaidInv
BY DEF Init, PaidInv, Paid, NoRow, IdleSlot, NoObject

\* Only a checkout, a pause, resume or cancel, and Stripe itself write there.
LEMMA StripeWriters ==
    ASSUME [Next]_vars
    PROVE  \/ UNCHANGED pay
           \/ \E r \in Requests : CheckoutCreate(r) \/ StripeCall(r)
           \/ \E i \in StripeIds : StripeActs(i)
<1>1. ASSUME NEW r \in Requests, Arrive(r) PROVE UNCHANGED pay
  BY <1>1 DEF Arrive, SubscribeCheck, CheckoutCheck, ConfirmRead, AdminCreateCheck, CurrentRead,
     DashboardRead, AdminUpdateRead, AdminRemoveRead
<1>2. ASSUME NEW r \in Requests, Continue(r), ~CheckoutCreate(r), ~StripeCall(r)
      PROVE  UNCHANGED pay
  BY <1>2 DEF Continue, ConfirmCheck, SubInsert, ShipFind, ShipInsert, PayInsert, SvcRead,
     SvcWrite, Reread, AdminInsert, AdminUpdateCheck, AdminUpdateWrite, AdminRemove
<1>3. QED
  BY <1>1, <1>2 DEF Next, Fail, vars, pay

\* Stripe never takes back that a subscription was paid.
LEMMA PaidStays ==
    ASSUME TypeOK, PaidInv, [Next]_vars, NEW i \in StripeIds \union {NoStripe}, Paid(i)
    PROVE  Paid(i)'
<1>1. ASSUME NEW r \in Requests, CheckoutCreate(r) PROVE Paid(i)'
  BY <1>1 DEF CheckoutCreate, Paid, PaidInv, TypeOK, StripeIds, EverPaid, NoStripe
<1>2. ASSUME NEW r \in Requests, StripeCall(r) PROVE Paid(i)'
  <2>1. req[r].stripe \in StripeIds
    BY <1>2 DEF StripeCall, At, TypeOK, Filled
  <2>2. \/ stripe' = stripe
        \/ stripe' = [stripe EXCEPT ![req[r].stripe].paused = TRUE]
        \/ stripe' = [stripe EXCEPT ![req[r].stripe].paused = FALSE]
        \/ stripe' = [stripe EXCEPT ![req[r].stripe].status = "canceled"]
    BY <1>2 DEF StripeCall, At, TypeOK, Filled
  <2>3. QED
    BY <2>1, <2>2 DEF Paid, TypeOK, StripeObjects, EverPaid
<1>3. ASSUME NEW j \in StripeIds, StripeActs(j) PROVE Paid(i)'
  BY <1>3 DEF StripeActs, CustomerPays, Expire, Dunning, StripeMoves, Paid, TypeOK,
     StripeObjects, EverPaid
<1>4. CASE UNCHANGED pay
  BY <1>4 DEF Paid, pay
<1>5. QED
  BY <1>1, <1>2, <1>3, <1>4, StripeWriters

\* The rows: only SubInsert gives a row a Stripe subscription.
LEMMA RowsKeepStripe ==
    ASSUME TypeOK, [Next]_vars, NEW s \in SubIds
    PROVE  \/ subs'[s].stripe = subs[s].stripe
           \/ subs'[s].stripe = NoStripe
           \/ \E r \in Requests : At(r, "subInsert") /\ subs'[s].stripe = req[r].stripe
<1>1. ASSUME NEW r \in Requests, Continue(r)
      PROVE  \/ subs'[s].stripe = subs[s].stripe
             \/ subs'[s].stripe = NoStripe
             \/ At(r, "subInsert") /\ subs'[s].stripe = req[r].stripe
  <2>1. CASE SubInsert(r)
    BY <2>1 DEF SubInsert, Insert, TypeOK
  <2>2. CASE SvcWrite(r)
    BY <2>2 DEF SvcWrite, TypeOK, Rows
  <2>3. CASE AdminInsert(r)
    BY <2>3 DEF AdminInsert, Insert, TypeOK
  <2>4. CASE AdminUpdateWrite(r)
    BY <2>4 DEF AdminUpdateWrite, TypeOK, Rows
  <2>5. CASE AdminRemove(r)
    BY <2>5 DEF AdminRemove, TypeOK, NoRow
  <2>6. CASE UNCHANGED subs
    BY <2>6
  <2>7. QED
    BY <1>1, <2>1, <2>2, <2>3, <2>4, <2>5, <2>6 DEF Continue, ConfirmCheck, ShipFind, ShipInsert,
       PayInsert, CheckoutCreate, StripeCall, SvcRead, Reread, AdminUpdateCheck, db
<1>2. ASSUME NEW r \in Requests, Arrive(r) PROVE UNCHANGED subs
  BY <1>2 DEF Arrive, SubscribeCheck, CheckoutCheck, ConfirmRead, AdminCreateCheck, CurrentRead,
     DashboardRead, AdminUpdateRead, AdminRemoveRead, db
<1>3. ASSUME NEW i \in StripeIds, StripeActs(i) PROVE UNCHANGED subs
  BY <1>3 DEF StripeActs, CustomerPays, Expire, Dunning, StripeMoves, db
<1>4. QED
  BY <1>1, <1>2, <1>3 DEF Next, Fail, db, vars

LEMMA PaidNext == TypeOK /\ PaidInv /\ [Next]_vars => PaidInv'
<1> SUFFICES ASSUME TypeOK, PaidInv, [Next]_vars PROVE PaidInv'
  OBVIOUS
<1>1. ASSUME NEW s \in SubIds PROVE Paid(subs[s].stripe)'
  <2>1. CASE subs'[s].stripe = subs[s].stripe
    <3>1. subs[s].stripe \in StripeIds \union {NoStripe} /\ Paid(subs[s].stripe)
      BY DEF TypeOK, Rows, PaidInv
    <3>2. \A i \in StripeIds \union {NoStripe} : Paid(i) => Paid(i)'
      BY PaidStays
    <3>3. QED
      BY <2>1, <3>1, <3>2 DEF Paid
  <2>2. CASE subs'[s].stripe = NoStripe
    BY <2>2 DEF Paid
  <2>3. ASSUME NEW r \in Requests, At(r, "subInsert"), subs'[s].stripe = req[r].stripe
        PROVE  Paid(subs[s].stripe)'
    <3>1. req[r].stripe \in StripeIds \union {NoStripe} /\ Paid(req[r].stripe)
      BY <2>3 DEF TypeOK, Locals, PaidInv, At
    <3>2. \A i \in StripeIds \union {NoStripe} : Paid(i) => Paid(i)'
      BY PaidStays
    <3>3. QED
      BY <2>3, <3>1, <3>2 DEF Paid
  <2>4. QED
    BY <2>1, <2>2, <2>3, RowsKeepStripe
<1>2. ASSUME NEW r \in Requests, req'[r].pc \in {"subCheck", "subInsert", "stripeCall"}
      PROVE  Paid(req[r].stripe)'
  <2> DEFINE before == /\ req[r].pc \in {"subCheck", "subInsert", "stripeCall"}
                       /\ req'[r].stripe = req[r].stripe
  <2>1. \/ before
        \/ req'[r].stripe = NoStripe
        \/ /\ req'[r].stripe \in StripeIds \union {NoStripe}
           /\ Paid(req'[r].stripe)
    <3> USE <1>2 DEF TypeOK, IdleSlot, At, Goto, Finish, Locals
    <3>1. ASSUME NEW q \in Requests, Continue(q) PROVE before
      <4>1. q # r => req'[r] = req[r]
        BY <3>1 DEF Continue, ConfirmCheck, SubInsert, ShipFind, ShipInsert, AfterShipments,
           PayInsert, CheckoutCreate, StripeCall, SvcRead, SvcWrite, Reread, AdminInsert,
           AdminUpdateCheck, AdminUpdateWrite, AdminRemove
      <4>2. CASE q = r /\ ConfirmCheck(q)
        BY <4>2 DEF ConfirmCheck
      <4>3. CASE q = r /\ ~ConfirmCheck(q)
        BY <4>3, <3>1 DEF Continue, SubInsert, ShipFind, ShipInsert, AfterShipments,
           PayInsert, CheckoutCreate, StripeCall, SvcRead, SvcWrite, Reread, AdminInsert,
           AdminUpdateCheck, AdminUpdateWrite, AdminRemove
      <4>4. QED
        BY <4>1, <4>2, <4>3
    <3>2. ASSUME NEW q \in Requests, Arrive(q) PROVE <2>1
      <4>1. q # r => req'[r] = req[r]
        BY <3>2 DEF Arrive, Accept, SubscribeCheck, CheckoutCheck, ConfirmRead,
           AdminCreateCheck, CurrentRead, DashboardRead, AdminUpdateRead, AdminRemoveRead
      <4>2. CASE q = r /\ \E u \in Users, p \in Plans, i \in StripeIds : ConfirmRead(q, u, p, i)
        BY <4>2 DEF ConfirmRead, Accept, Paid, EverPaid
      <4>3. CASE q = r /\ \E u \in Users, op \in {"pause", "resume", "cancel"} : CurrentRead(q, u, op)
        BY <4>3 DEF CurrentRead, Accept, Current, PaidInv, Rows
      <4>4. CASE q = r /\ \E u \in Users : DashboardRead(q, u)
        BY <4>4 DEF DashboardRead, Accept
      <4>5. CASE q = r /\ \E u \in Users, p \in Plans : SubscribeCheck(q, u, p) \/ CheckoutCheck(q, u, p)
        <5>1. PICK u \in Users, p \in Plans : SubscribeCheck(q, u, p) \/ CheckoutCheck(q, u, p)
          BY <4>5
        <5>2. CASE SubscribeCheck(q, u, p)
          BY <4>5, <5>2 DEF SubscribeCheck, Accept
        <5>3. CASE CheckoutCheck(q, u, p)
          BY <4>5, <5>3 DEF CheckoutCheck, Accept
        <5>4. QED
          BY <5>1, <5>2, <5>3
      <4>6. CASE q = r /\ \E u \in Users, p \in Plans, st \in Statuses : AdminCreateCheck(q, u, p, st)
        BY <4>6 DEF AdminCreateCheck, Accept
      <4>7. CASE q = r /\ \E s \in SubIds, dto \in Edits : AdminUpdateRead(q, s, dto)
        BY <4>7 DEF AdminUpdateRead, Accept
      <4>8. CASE q = r /\ \E s \in SubIds : AdminRemoveRead(q, s)
        BY <4>8 DEF AdminRemoveRead, Accept
      <4>9. QED
        BY <3>2, <4>1, <4>2, <4>3, <4>4, <4>5, <4>6, <4>7, <4>8 DEF Arrive
    <3>3. ASSUME NEW q \in Requests, Fail(q) PROVE before
      BY <3>3 DEF Fail
    <3>4. CASE UNCHANGED req
      BY <3>4
    <3>5. QED
      BY <3>1, <3>2, <3>3, <3>4 DEF Next, vars, StripeActs, CustomerPays, Expire, Dunning,
         StripeMoves
  <2>2. \A i \in StripeIds \union {NoStripe} : Paid(i) => Paid(i)'
    BY PaidStays
  <2>3. CASE before
    BY <2>3, <2>2 DEF PaidInv, Paid, TypeOK, Locals
  <2>4. CASE req'[r].stripe = NoStripe
    BY <2>4 DEF Paid
  <2>5. CASE req'[r].stripe \in StripeIds \union {NoStripe} /\ Paid(req'[r].stripe)
    BY <2>5, <2>2 DEF Paid
  <2>6. QED
    BY <2>1, <2>3, <2>4, <2>5
<1>3. ASSUME NEW i \in StripeIds, i >= nextStripe' PROVE stripe'[i].status = "none"
  <2>1. ASSUME NEW r \in Requests, CheckoutCreate(r) PROVE stripe'[i].status = "none"
    <3>1. i >= nextStripe /\ i # nextStripe
      BY <1>3, <2>1 DEF CheckoutCreate, TypeOK, StripeIds
    <3>2. QED
      BY <3>1, <2>1 DEF CheckoutCreate, PaidInv, TypeOK
  <2>2. ASSUME NEW r \in Requests, StripeCall(r) PROVE stripe'[i].status = "none"
    <3>1. /\ req[r].stripe \in StripeIds
          /\ stripe[req[r].stripe].status # "none"
          /\ nextStripe' = nextStripe
      <4>1. req[r].pc = "stripeCall" /\ nextStripe' = nextStripe
        BY <2>2 DEF StripeCall, At
      <4>2. req[r].stripe \in StripeIds
        BY <4>1 DEF TypeOK, Filled
      <4>3. req[r].stripe # NoStripe
        BY <4>2 DEF StripeIds, NoStripe
      <4>4. Paid(req[r].stripe)
        BY <4>1 DEF PaidInv
      <4>5. QED
        BY <4>1, <4>2, <4>3, <4>4 DEF Paid, EverPaid
    <3>2. \/ stripe' = stripe
          \/ stripe' = [stripe EXCEPT ![req[r].stripe].paused = TRUE]
          \/ stripe' = [stripe EXCEPT ![req[r].stripe].paused = FALSE]
          \/ stripe' = [stripe EXCEPT ![req[r].stripe].status = "canceled"]
      BY <2>2 DEF StripeCall
    <3>3. QED
      BY <1>3, <3>1, <3>2 DEF PaidInv, TypeOK
  <2>3. ASSUME NEW j \in StripeIds, StripeActs(j) PROVE stripe'[i].status = "none"
    <3>1. PICK from \in StripeStatuses \ {"none"}, to \in StripeStatuses : StripeMoves(j, from, to)
      BY <2>3 DEF StripeActs, CustomerPays, Expire, Dunning, StripeStatuses
    <3>2. QED
      BY <1>3, <3>1 DEF StripeMoves, PaidInv, TypeOK
  <2>4. CASE UNCHANGED pay
    BY <1>3, <2>4 DEF pay, PaidInv
  <2>5. QED
    BY <2>1, <2>2, <2>3, <2>4, StripeWriters
<1>4. QED
  BY <1>1, <1>2, <1>3 DEF PaidInv

\* No row is ever backed by a Stripe subscription that was not paid.
THEOREM PaidBeforeAccess == Spec => []ConfirmedWasPaid
<1>1. PaidInv => ConfirmedWasPaid
  BY DEF PaidInv, Paid, ConfirmedWasPaid
<1>2. QED
  BY <1>1, TypeInit, TypeNext, PaidInit, PaidNext, PTL DEF Spec

-----------------------------------------------------------------------------
(* A row is never recorded as paid twice, nor one that no confirm created.  *)

\* Where a confirm is before its INSERT, and after it, when it still owes the row
\* its payment.
Asking    == {"subCheck", "subInsert"}
Recording == {"shipFind", "shipInsert", "payInsert"}

Confirms(r) == req[r].op = "confirm" /\ req[r].pc # "idle"
Owes(r)     == Confirms(r) /\ req[r].pc \in Recording

\* No id that an INSERT will get has been used.
UnusedInv == \A s \in SubIds : s >= nextSub => subs[s].status = "UNUSED"

\* What makes it inductive: the row of a confirm under way has no payment yet and
\* is no other confirm's.
RecordInv ==
    /\ \A s \in SubIds : pays[s] > 0 => pays[s] = 1 /\ Stored(s) /\ subs[s].stripe # NoStripe
    /\ \A r \in Requests : Confirms(r) =>
         /\ req[r].pc \in Asking \union Recording
         /\ req[r].pc \in Asking => req[r].stripe # NoStripe
    /\ \A r \in Requests : Owes(r) =>
         /\ req[r].sub \in SubIds
         /\ req[r].sub < nextSub
         /\ pays[req[r].sub] = 0
         /\ Stored(req[r].sub) => subs[req[r].sub].stripe # NoStripe
    /\ \A q, r \in Requests : Owes(q) /\ Owes(r) /\ req[q].sub = req[r].sub => q = r

LEMMA RecordInit == Init => UnusedInv /\ RecordInv
BY DEF Init, UnusedInv, RecordInv, Owes, Confirms, NoRow, IdleSlot

\* A row appears where the next INSERT goes, it disappears only unpaid, and it
\* never changes its Stripe subscription.
RowsMove ==
    /\ UnusedInv'
    /\ nextSub' >= nextSub
    /\ \A s \in SubIds :
         \/ Stored(s)' = Stored(s) /\ subs'[s].stripe = subs[s].stripe
         \/ ~Stored(s)' /\ Stored(s) /\ pays[s] = 0
         \/ s = nextSub /\ nextSub' = nextSub + 1

LEMMA RowMoves ==
    ASSUME TypeOK, UnusedInv, [Next]_vars
    PROVE  RowsMove
<1> USE DEF TypeOK, UnusedInv, Stored, NotStored, SubIds, RowsMove
<1>0. UNCHANGED <<subs, nextSub>> => RowsMove
  OBVIOUS
<1>1. ASSUME NEW r \in Requests, Continue(r) PROVE RowsMove
  <2>1. CASE SubInsert(r)
    BY <2>1 DEF SubInsert, Insert
  <2>2. CASE AdminInsert(r)
    BY <2>2 DEF AdminInsert, Insert
  <2>3. CASE SvcWrite(r)
    <3>1. Target(req[r].op) \notin {"UNUSED", "DELETED"}
      BY DEF Target
    <3>2. QED
      BY <2>3, <3>1 DEF SvcWrite, Rows
  <2>4. CASE AdminUpdateWrite(r)
    <3> DEFINE to == OrElse(req[r].dto.status, subs[req[r].sub].status)
    <3>1. Stored(req[r].sub) => to \notin {"UNUSED", "DELETED"}
      BY DEF OrElse, Locals, Dtos, Statuses
    <3>2. \/ UNCHANGED <<subs, nextSub>>
          \/ /\ Stored(req[r].sub) /\ UNCHANGED nextSub
             /\ \A s \in SubIds : s # req[r].sub => subs'[s] = subs[s]
             /\ req[r].sub \in SubIds => /\ subs'[req[r].sub].stripe = subs[req[r].sub].stripe
                                         /\ subs'[req[r].sub].status = to
      BY <2>4 DEF AdminUpdateWrite, Rows
    <3> HIDE DEF to
    <3>3. CASE UNCHANGED <<subs, nextSub>>
      BY <1>0, <3>3
    <3>4. ASSUME Stored(req[r].sub), UNCHANGED nextSub,
                 \A s \in SubIds : s # req[r].sub => subs'[s] = subs[s],
                 req[r].sub \in SubIds => /\ subs'[req[r].sub].stripe = subs[req[r].sub].stripe
                                          /\ subs'[req[r].sub].status = to
          PROVE  RowsMove
      <4>1. nextSub \in Nat /\ nextSub' = nextSub
        BY <3>4
      <4>2. ASSUME NEW s \in SubIds
            PROVE  Stored(s)' = Stored(s) /\ subs'[s].stripe = subs[s].stripe
        BY <3>1, <3>4 DEF Stored, NotStored
      <4>3. ASSUME NEW s \in SubIds, s >= nextSub PROVE subs'[s].status = "UNUSED"
        BY <4>3, <3>4 DEF Stored, NotStored, UnusedInv
      <4>4. QED
        BY <4>1, <4>2, <4>3 DEF RowsMove, UnusedInv
    <3>5. QED
      BY <3>2, <3>3, <3>4
  <2>5. CASE AdminRemove(r)
    BY <2>5 DEF AdminRemove, NoRow
  <2>6. QED
    BY <1>0, <1>1, <2>1, <2>2, <2>3, <2>4, <2>5 DEF Continue, ConfirmCheck, ShipFind, ShipInsert,
       PayInsert, CheckoutCreate, StripeCall, SvcRead, Reread, AdminUpdateCheck, db
<1>2. ASSUME NEW r \in Requests, Arrive(r) PROVE UNCHANGED <<subs, nextSub>>
  BY <1>2 DEF Arrive, SubscribeCheck, CheckoutCheck, ConfirmRead, AdminCreateCheck, CurrentRead,
     DashboardRead, AdminUpdateRead, AdminRemoveRead, db
<1>3. ASSUME NEW i \in StripeIds, StripeActs(i) PROVE UNCHANGED <<subs, nextSub>>
  BY <1>3 DEF StripeActs, CustomerPays, Expire, Dunning, StripeMoves, db
<1>4. QED
  BY <1>0, <1>1, <1>2, <1>3 DEF Next, Fail, db, vars

\* How a slot comes to belong to a confirm: it has begun, it has inserted the row,
\* or it was one already.
ConfirmMoves(r) ==
    \/ /\ req'[r].pc \in Asking
       /\ \/ req'[r].stripe \in StripeIds
          \/ /\ Confirms(r) /\ req[r].pc \in Asking
             /\ req'[r].stripe = req[r].stripe
    \/ /\ SubInsert(r) /\ Confirms(r)
       /\ req'[r].pc = "shipFind" /\ req'[r].sub = nextSub
    \/ /\ Owes(r) /\ ~PayInsert(r)
       /\ req'[r].pc \in Recording /\ req'[r].sub = req[r].sub

LEMMA ConfirmSlots ==
    ASSUME TypeOK, RecordInv, [Next]_vars, NEW r \in Requests, Confirms(r)'
    PROVE  ConfirmMoves(r)
<1> USE DEF TypeOK, IdleSlot, At, Goto, Finish, Locals, Asking, Recording, Confirms,
       Owes, ConfirmMoves
<1>1. ASSUME req'[r] = req[r], ~PayInsert(r) PROVE ConfirmMoves(r)
  BY <1>1 DEF RecordInv
<1>2. ASSUME NEW q \in Requests, Continue(q), q # r PROVE req'[r] = req[r] /\ ~PayInsert(r)
  <2>1. req'[r] = req[r]
    BY <1>2 DEF Continue, ConfirmCheck, SubInsert, ShipFind, ShipInsert, AfterShipments,
       PayInsert, CheckoutCreate, StripeCall, SvcRead, SvcWrite, Reread, AdminInsert,
       AdminUpdateCheck, AdminUpdateWrite, AdminRemove
  <2>2. QED
    BY <2>1 DEF PayInsert
<1>3. ASSUME Continue(r) PROVE ConfirmMoves(r)
  <2> USE DEF RecordInv
  <2>1. CASE ConfirmCheck(r)
    BY <2>1 DEF ConfirmCheck
  <2>2. CASE SubInsert(r)
    BY <2>2 DEF SubInsert
  <2>3. CASE ShipFind(r)
    BY <2>3 DEF ShipFind, AfterShipments, PayInsert
  <2>4. CASE ShipInsert(r)
    BY <2>4 DEF ShipInsert, AfterShipments, PayInsert
  <2>5. CASE PayInsert(r)
    BY <2>5 DEF PayInsert
  <2>6. CASE CheckoutCreate(r) \/ StripeCall(r) \/ SvcRead(r)
    BY <2>6 DEF CheckoutCreate, StripeCall, SvcRead
  <2>7. CASE SvcWrite(r) \/ Reread(r) \/ AdminInsert(r)
    BY <2>7 DEF SvcWrite, Reread, AdminInsert
  <2>8. CASE AdminUpdateCheck(r) \/ AdminUpdateWrite(r) \/ AdminRemove(r)
    BY <2>8 DEF AdminUpdateCheck, AdminUpdateWrite, AdminRemove
  <2>9. QED
    BY <1>3, <2>1, <2>2, <2>3, <2>4, <2>5, <2>6, <2>7, <2>8 DEF Continue
<1>4. ASSUME NEW q \in Requests, Arrive(q), q # r PROVE req'[r] = req[r] /\ ~PayInsert(r)
  <2>1. req'[r] = req[r]
    BY <1>4 DEF Arrive, Accept, SubscribeCheck, CheckoutCheck, ConfirmRead, AdminCreateCheck,
       CurrentRead, DashboardRead, AdminUpdateRead, AdminRemoveRead
  <2>2. QED
    BY <2>1 DEF PayInsert
<1>5. ASSUME Arrive(r) PROVE ConfirmMoves(r)
  <2>1. CASE \E u \in Users, p \in Plans, i \in StripeIds : ConfirmRead(r, u, p, i)
    BY <2>1 DEF ConfirmRead, Accept
  <2>2. CASE \E u \in Users, p \in Plans : SubscribeCheck(r, u, p) \/ CheckoutCheck(r, u, p)
    <3>1. PICK u \in Users, p \in Plans : SubscribeCheck(r, u, p) \/ CheckoutCheck(r, u, p)
      BY <2>2
    <3>2. CASE SubscribeCheck(r, u, p)
      BY <3>2 DEF SubscribeCheck, Accept
    <3>3. CASE CheckoutCheck(r, u, p)
      BY <3>3 DEF CheckoutCheck, Accept
    <3>4. QED
      BY <3>1, <3>2, <3>3
  <2>3. CASE \E u \in Users, op \in {"pause", "resume", "cancel"} : CurrentRead(r, u, op)
    BY <2>3 DEF CurrentRead, Accept
  <2>4. CASE \E u \in Users : DashboardRead(r, u)
    BY <2>4 DEF DashboardRead, Accept
  <2>5. CASE \E u \in Users, p \in Plans, st \in Statuses : AdminCreateCheck(r, u, p, st)
    BY <2>5 DEF AdminCreateCheck, Accept
  <2>6. CASE \E s \in SubIds, dto \in Edits : AdminUpdateRead(r, s, dto)
    BY <2>6 DEF AdminUpdateRead, Accept
  <2>7. CASE \E s \in SubIds : AdminRemoveRead(r, s)
    BY <2>7 DEF AdminRemoveRead, Accept
  <2>8. QED
    BY <1>5, <2>1, <2>2, <2>3, <2>4, <2>5, <2>6, <2>7 DEF Arrive
<1>6. ASSUME NEW q \in Requests, Fail(q) PROVE ConfirmMoves(r)
  <2>1. q # r /\ req'[r] = req[r]
    BY <1>6 DEF Fail
  <2>2. ~PayInsert(r)
    BY <2>1 DEF PayInsert
  <2>3. QED
    BY <2>1, <2>2, <1>1
<1>7. ASSUME UNCHANGED req PROVE req'[r] = req[r] /\ ~PayInsert(r)
  BY <1>7 DEF PayInsert
<1>8. QED
  BY <1>1, <1>2, <1>3, <1>4, <1>5, <1>6, <1>7 DEF Next, vars, StripeActs, CustomerPays, Expire,
     Dunning, StripeMoves

LEMMA PayMoves == [Next]_vars => pays' = pays \/ \E r \in Requests : PayInsert(r)
<1>1. ASSUME NEW r \in Requests, Arrive(r) PROVE pays' = pays
  BY <1>1 DEF Arrive, SubscribeCheck, CheckoutCheck, ConfirmRead, AdminCreateCheck, CurrentRead,
     DashboardRead, AdminUpdateRead, AdminRemoveRead, db
<1>2. ASSUME NEW r \in Requests, Continue(r), ~PayInsert(r) PROVE pays' = pays
  BY <1>2 DEF Continue, ConfirmCheck, SubInsert, ShipFind, ShipInsert, CheckoutCreate, StripeCall,
     SvcRead, SvcWrite, Reread, AdminInsert, AdminUpdateCheck, AdminUpdateWrite, AdminRemove, db
<1>3. QED
  BY <1>1, <1>2 DEF Next, Fail, vars, db, StripeActs, CustomerPays, Expire, Dunning, StripeMoves

LEMMA RecordNext == TypeOK /\ UnusedInv /\ RecordInv /\ [Next]_vars => UnusedInv' /\ RecordInv'
<1> SUFFICES ASSUME TypeOK, UnusedInv, RecordInv, [Next]_vars PROVE UnusedInv' /\ RecordInv'
  OBVIOUS
<1>1. RowsMove
  BY RowMoves
<1>2. nextSub \in Nat /\ nextSub' \in Nat
  BY TypeNext, ConstantsAssumption DEF TypeOK
<1>3. \A r \in Requests : Confirms(r)' => ConfirmMoves(r)
  BY ConfirmSlots
<1>4. \/ pays' = pays
      \/ \E r \in Requests : /\ PayInsert(r) /\ Owes(r) /\ UNCHANGED <<subs, nextSub>>
                             /\ pays' = IF Stored(req[r].sub)
                                        THEN [pays EXCEPT ![req[r].sub] = @ + 1] ELSE pays
  <2>1. ASSUME NEW r \in Requests, PayInsert(r) PROVE Owes(r)
    BY <2>1 DEF PayInsert, At, TypeOK, Filled, Owes, Confirms, Recording
  <2>2. QED
    BY <2>1, PayMoves DEF PayInsert
\* A row that is stored keeps its Stripe subscription; one that goes had no payment.
<1>5. ASSUME NEW s \in SubIds, s < nextSub
      PROVE  \/ Stored(s)' = Stored(s) /\ subs'[s].stripe = subs[s].stripe
             \/ ~Stored(s)' /\ pays[s] = 0
  BY <1>1, <1>2, <1>5 DEF RowsMove
<1>6. ASSUME NEW s \in SubIds, pays'[s] > 0
      PROVE  pays'[s] = 1 /\ Stored(s)' /\ subs'[s].stripe # NoStripe
  <2>1. CASE pays' = pays
    <3>1. pays[s] > 0 /\ pays[s] = 1 /\ Stored(s) /\ subs[s].stripe # NoStripe
      BY <1>6, <2>1 DEF RecordInv
    <3>2. s < nextSub
      BY <3>1, <1>2 DEF UnusedInv, Stored, NotStored, SubIds
    <3>3. QED
      BY <2>1, <3>1, <3>2, <1>5
  <2>2. ASSUME NEW r \in Requests, Owes(r), UNCHANGED <<subs, nextSub>>,
               pays' = IF Stored(req[r].sub)
                       THEN [pays EXCEPT ![req[r].sub] = @ + 1] ELSE pays
        PROVE  pays'[s] = 1 /\ Stored(s)' /\ subs'[s].stripe # NoStripe
    <3>1. /\ req[r].sub \in SubIds /\ pays[req[r].sub] = 0
          /\ Stored(req[r].sub) => subs[req[r].sub].stripe # NoStripe
      BY <2>2 DEF RecordInv
    <3>2. Stored(s)' = Stored(s)
      BY <2>2 DEF Stored
    <3>3. CASE s = req[r].sub /\ Stored(s)
      BY <2>2, <3>1, <3>2, <3>3 DEF TypeOK
    <3>4. CASE ~(s = req[r].sub /\ Stored(s))
      BY <1>6, <2>2, <3>1, <3>2, <3>4 DEF TypeOK, RecordInv
    <3>5. QED
      BY <3>3, <3>4
  <2>3. QED
    BY <1>4, <2>1, <2>2
<1>7. ASSUME NEW r \in Requests, Confirms(r)'
      PROVE  /\ req'[r].pc \in Asking \union Recording
             /\ req'[r].pc \in Asking => req'[r].stripe # NoStripe
  <2>1. NoStripe \notin StripeIds
    BY DEF NoStripe, StripeIds
  <2>2. QED
    BY <1>3, <1>7, <2>1 DEF ConfirmMoves, RecordInv, Asking, Recording
\* A row that is new, or the one the slot has had.
<1>8. ASSUME NEW r \in Requests, Owes(r)'
      PROVE  \/ SubInsert(r) /\ Confirms(r) /\ req'[r].sub = nextSub
             \/ Owes(r) /\ ~PayInsert(r) /\ req'[r].sub = req[r].sub
  BY <1>3, <1>8 DEF ConfirmMoves, Owes, Asking, Recording
<1>9. ASSUME NEW r \in Requests, SubInsert(r)
      PROVE  /\ nextSub \in SubIds /\ nextSub' = nextSub + 1 /\ pays' = pays
             /\ Confirms(r) => subs'[nextSub].stripe # NoStripe
  <2>1. Confirms(r) => req[r].stripe # NoStripe
    BY <1>9 DEF SubInsert, At, RecordInv, Asking
  <2>2. nextSub \in SubIds
    BY <1>2, <1>9 DEF SubInsert, Insert, SubIds, TypeOK
  <2>3. QED
    BY <1>9, <2>1, <2>2 DEF SubInsert, Insert, TypeOK
<1>10. ASSUME NEW r \in Requests, Owes(r)'
       PROVE  /\ req'[r].sub \in SubIds
              /\ req'[r].sub < nextSub'
              /\ pays'[req'[r].sub] = 0
              /\ subs'[req'[r].sub].status \notin NotStored
                   => subs'[req'[r].sub].stripe # NoStripe
  <2>1. CASE SubInsert(r) /\ Confirms(r) /\ req'[r].sub = nextSub
    <3>1. pays[nextSub] = 0
      <4>1. subs[nextSub].status = "UNUSED"
        BY <2>1, <1>2, <1>9 DEF UnusedInv
      <4>2. ~(pays[nextSub] > 0)
        BY <4>1, <2>1, <1>9 DEF RecordInv, Stored, NotStored
      <4>3. QED
        BY <4>2, <2>1, <1>9 DEF TypeOK
    <3>2. QED
      BY <2>1, <3>1, <1>2, <1>9
  <2>2. CASE Owes(r) /\ ~PayInsert(r) /\ req'[r].sub = req[r].sub
    <3>0. PICK s \in SubIds : s = req[r].sub
      BY <2>2 DEF RecordInv
    <3>1. s < nextSub /\ pays[s] = 0 /\ (Stored(s) => subs[s].stripe # NoStripe)
      BY <2>2, <3>0 DEF RecordInv
    <3>2. subs'[s].status \notin NotStored => subs'[s].stripe # NoStripe
      BY <3>1, <1>5 DEF Stored
    <3>3. pays'[s] = 0
      <4>1. ASSUME NEW q \in Requests, PayInsert(q), Owes(q),
                   pays' = IF Stored(req[q].sub)
                           THEN [pays EXCEPT ![req[q].sub] = @ + 1] ELSE pays
            PROVE  pays'[s] = 0
        <5>1. req[q].sub # s
          BY <2>2, <3>0, <4>1 DEF RecordInv
        <5>2. QED
          BY <3>1, <4>1, <5>1 DEF TypeOK
      <4>2. QED
        BY <1>4, <3>1, <4>1
    <3>4. QED
      BY <2>2, <3>0, <3>1, <3>2, <3>3, <1>1, <1>2 DEF RowsMove, SubIds
  <2>3. QED
    BY <1>8, <1>10, <2>1, <2>2
<1>11. ASSUME NEW q \in Requests, NEW r \in Requests, Owes(q)', Owes(r)',
              req'[q].sub = req'[r].sub
       PROVE  q = r
  <2>1. \A p \in Requests : Owes(p) => req[p].sub \in SubIds /\ req[p].sub < nextSub
    BY DEF RecordInv
  <2>2. ASSUME SubInsert(q), SubInsert(r) PROVE q = r
    <3>1. /\ req' = [req EXCEPT ![q].pc = "shipFind", ![q].sub = nextSub, ![q].todo = {nextSub}]
          /\ At(r, "subInsert")
          /\ req' = [req EXCEPT ![r].pc = "shipFind", ![r].sub = nextSub, ![r].todo = {nextSub}]
      BY <2>2 DEF SubInsert
    <3>2. QED
      BY <3>1 DEF At, TypeOK, Locals
  <2>3. \A n \in SubIds : n < nextSub => n # nextSub
    BY <1>2 DEF SubIds
  <2>4. QED
    BY <1>8, <1>11, <2>1, <2>2, <2>3 DEF RecordInv
<1>12. QED
  BY <1>1, <1>6, <1>7, <1>10, <1>11 DEF RecordInv, RowsMove, Stored

\* A SUCCESS payment belongs to a stored row of a confirm, and to each at most one,
\* for every number of overlapping requests, every workload and every failure.
THEOREM PaidOnce == Spec => []OnePaymentPerConfirm
<1>1. RecordInv => OnePaymentPerConfirm
  BY DEF RecordInv, OnePaymentPerConfirm
<1>2. QED
  BY <1>1, TypeInit, TypeNext, RecordInit, RecordNext, PTL DEF Spec

-----------------------------------------------------------------------------
(* An ACTIVE row has its shipment, or a request is about to see to it.      *)

\* The request will look at the row, or is inserting its shipment.
Tends(r, s) ==
    \/ req[r].pc = "reread" /\ req[r].sub = s
    \/ req[r].pc \in {"shipFind", "shipInsert"} /\ req[r].todo = {s}

TendedInv ==
    fails = 0 => \A s \in SubIds :
        subs[s].status = "ACTIVE" => ships[s] > 0 \/ \E r \in Requests : Tends(r, s)

LEMMA TendedInit == Init => TendedInv
BY DEF Init, TendedInv, NoRow

\* The request that makes a row ACTIVE tends it afterwards, the others leave it
\* as it was.
LEMMA ActiveMoves ==
    ASSUME TypeOK, NEW q \in Requests, Continue(q), NEW s \in SubIds,
           subs'[s].status = "ACTIVE", subs[s].status # "ACTIVE"
    PROVE  Tends(q, s)'
<1> USE DEF TypeOK, Locals, Tends, Goto, Finish
<1>1. CASE SubInsert(q)
  BY <1>1 DEF SubInsert, Insert
<1>2. CASE AdminInsert(q)
  BY <1>2 DEF AdminInsert, Insert
<1>3. CASE SvcWrite(q)
  BY <1>3 DEF SvcWrite, Target
<1>4. CASE AdminUpdateWrite(q)
  BY <1>4 DEF AdminUpdateWrite
<1>5. CASE AdminRemove(q)
  BY <1>5 DEF AdminRemove, NoRow
<1>6. QED
  BY <1>1, <1>2, <1>3, <1>4, <1>5 DEF Continue, ConfirmCheck, ShipFind, ShipInsert, PayInsert,
     CheckoutCreate, StripeCall, SvcRead, Reread, AdminUpdateCheck, db

\* A request that tends an ACTIVE row goes on to, or inserts its shipment.
LEMMA TendsOn ==
    ASSUME TypeOK, NEW q \in Requests, Continue(q), NEW s \in SubIds, Tends(q, s),
           subs[s].status = "ACTIVE"
    PROVE  ships[s] > 0 \/ ships'[s] > 0 \/ Tends(q, s)'
<1> USE DEF TypeOK, Locals, Tends, Goto, Finish, At
<1>1. CASE ShipFind(q)
  <2>1. req[q].todo = {s}
    BY <1>1 DEF ShipFind
  <2>2. CASE ships[s] = 0
    <3>1. {t \in req[q].todo : ships[t] = 0} = {s}
      BY <2>1, <2>2
    <3>2. req' = [req EXCEPT ![q].pc = "shipInsert", ![q].todo = {s}]
      BY <1>1, <3>1 DEF ShipFind
    <3>3. QED
      BY <3>2
  <2>3. QED
    BY <2>2
<1>2. CASE ShipInsert(q)
  <2>1. req[q].todo = {s} /\ Stored(s)
    BY <1>2 DEF ShipInsert, Stored, NotStored
  <2>2. ships' = [t \in SubIds |-> IF t \in req[q].todo THEN ships[t] + 1 ELSE ships[t]]
    BY <1>2, <2>1 DEF ShipInsert
  <2>3. QED
    BY <2>1, <2>2
<1>3. CASE Reread(q)
  BY <1>3 DEF Reread
<1>4. QED
  BY <1>1, <1>2, <1>3 DEF Continue, ConfirmCheck, SubInsert, PayInsert, CheckoutCreate, StripeCall,
     SvcRead, SvcWrite, AdminInsert, AdminUpdateCheck, AdminUpdateWrite, AdminRemove

LEMMA TendedNext == TypeOK /\ TendedInv /\ [Next]_vars => TendedInv'
<1> SUFFICES ASSUME TypeOK, TendedInv, [Next]_vars, fails' = 0,
                    NEW s \in SubIds, subs'[s].status = "ACTIVE"
             PROVE  ships'[s] > 0 \/ \E r \in Requests : Tends(r, s)'
  BY DEF TendedInv, Tends
<1>1. ASSUME NEW q \in Requests, Continue(q)
      PROVE  ships'[s] > 0 \/ \E r \in Requests : Tends(r, s)'
  <2>1. fails = 0
    BY <1>1 DEF Continue, ConfirmCheck, SubInsert, ShipFind, ShipInsert, PayInsert,
       CheckoutCreate, StripeCall, SvcRead, SvcWrite, Reread, AdminInsert, AdminUpdateCheck,
       AdminUpdateWrite, AdminRemove
  <2>2. ships' \in [SubIds -> Nat] /\ ships'[s] >= ships[s]
    <3>1. UNCHANGED ships \/ ships' = [t \in SubIds |-> IF t \in req[q].todo THEN ships[t] + 1
                                                                          ELSE ships[t]]
      BY <1>1 DEF Continue, ConfirmCheck, SubInsert, ShipFind, ShipInsert, PayInsert,
         CheckoutCreate, StripeCall, SvcRead, SvcWrite, Reread, AdminInsert, AdminUpdateCheck,
         AdminUpdateWrite, AdminRemove, db
    <3>2. QED
      BY <3>1 DEF TypeOK
  <2>3. \A r \in Requests : r # q => req'[r] = req[r]
    BY <1>1 DEF TypeOK, Goto, Finish, Continue, ConfirmCheck, SubInsert, ShipFind, ShipInsert,
       AfterShipments, PayInsert, CheckoutCreate, StripeCall, SvcRead, SvcWrite, Reread,
       AdminInsert, AdminUpdateCheck, AdminUpdateWrite, AdminRemove
  <2>4. CASE subs[s].status # "ACTIVE"
    BY <1>1, <2>4, ActiveMoves
  <2>5. CASE subs[s].status = "ACTIVE"
    <3>1. ships[s] > 0 \/ \E r \in Requests : Tends(r, s)
      BY <2>1, <2>5 DEF TendedInv
    <3>2. CASE ships[s] > 0
      BY <2>2, <3>2 DEF TypeOK
    <3>3. ASSUME NEW r \in Requests, Tends(r, s) PROVE ships'[s] > 0 \/ Tends(r, s)'
      <4>1. CASE r = q
        <5>1. ships[s] > 0 \/ ships'[s] > 0 \/ Tends(q, s)'
          BY <1>1, <2>5, <3>3, <4>1, TendsOn
        <5>2. QED
          BY <4>1, <5>1, <2>2 DEF TypeOK
      <4>2. CASE r # q
        BY <2>3, <3>3, <4>2 DEF Tends
      <4>3. QED
        BY <4>1, <4>2
    <3>4. QED
      BY <3>1, <3>2, <3>3
  <2>6. QED
    BY <2>4, <2>5
<1>2. ASSUME NEW q \in Requests, Arrive(q)
      PROVE  ships'[s] > 0 \/ \E r \in Requests : Tends(r, s)'
  <2>1. UNCHANGED <<db, fails>>
    BY <1>2 DEF Arrive, SubscribeCheck, CheckoutCheck, ConfirmRead, AdminCreateCheck, CurrentRead,
       DashboardRead, AdminUpdateRead, AdminRemoveRead
  <2>2. req[q].pc = "idle" /\ \A r \in Requests : r # q => req'[r] = req[r]
    BY <1>2 DEF Arrive, Accept, At, TypeOK, SubscribeCheck, CheckoutCheck, ConfirmRead,
       AdminCreateCheck, CurrentRead, DashboardRead, AdminUpdateRead, AdminRemoveRead
  <2>3. QED
    BY <2>1, <2>2 DEF TendedInv, Tends, db
<1>3. ASSUME NEW q \in Requests, Fail(q) PROVE FALSE
  BY <1>3 DEF Fail, TypeOK
<1>4. CASE UNCHANGED <<db, req, fails>>
  BY <1>4 DEF TendedInv, Tends, db
<1>5. QED
  BY <1>1, <1>2, <1>3, <1>4 DEF Next, vars, db, StripeActs, CustomerPays, Expire, Dunning,
     StripeMoves

\* Once no request is under way and none has failed, every ACTIVE row has its
\* initial shipment, whichever requests set statuses and in whatever order.
THEOREM ShippedOnceActive == Spec => []ActiveHasShipment
<1>1. TendedInv => ActiveHasShipment
  BY DEF TendedInv, ActiveHasShipment, Quiet, At, Tends
<1>2. QED
  BY <1>1, TypeInit, TypeNext, TendedInit, TendedNext, PTL DEF Spec

-----------------------------------------------------------------------------
(* A row grants what its Stripe subscription charges for.                   *)

\* No admin gives a row another plan.
PlansKept == "adminUpdate" \in Ops => \A dto \in Edits : dto.plan = None

Charges(i, p) == i # NoStripe => stripe[i].price = PriceOf[p]

ChargeInv ==
    /\ \A s \in SubIds : Charges(subs[s].stripe, subs[s].plan)
    /\ \A r \in Requests : req[r].pc \in {"subCheck", "subInsert"}
         => Charges(req[r].stripe, req[r].plan)
    /\ \A r \in Requests : req[r].pc \in {"updCheck", "updWrite"}
         => req[r].dto.plan = None

LEMMA ChargeInit == Init => ChargeInv
BY DEF Init, ChargeInv, Charges, NoRow, IdleSlot

\* Stripe never moves a subscription that was paid to another price.
LEMMA ChargeStays ==
    ASSUME TypeOK, PaidInv, [Next]_vars, NEW i \in StripeIds \union {NoStripe}, Paid(i),
           NEW p, Charges(i, p)
    PROVE  Charges(i, p)'
<1>1. ASSUME NEW r \in Requests, CheckoutCreate(r) PROVE Charges(i, p)'
  BY <1>1 DEF CheckoutCreate, Paid, PaidInv, TypeOK, StripeIds, EverPaid, NoStripe, Charges
<1>2. ASSUME NEW r \in Requests, StripeCall(r) PROVE Charges(i, p)'
  <2>1. \/ stripe' = stripe
        \/ stripe' = [stripe EXCEPT ![req[r].stripe].paused = TRUE]
        \/ stripe' = [stripe EXCEPT ![req[r].stripe].paused = FALSE]
        \/ stripe' = [stripe EXCEPT ![req[r].stripe].status = "canceled"]
    BY <1>2 DEF StripeCall
  <2>2. stripe \in [StripeIds -> StripeObjects] /\ req[r].stripe \in StripeIds
    BY <1>2 DEF StripeCall, At, TypeOK, Filled
  <2>3. ASSUME i \in StripeIds PROVE stripe'[i].price = stripe[i].price
    BY <2>1, <2>2, <2>3 DEF StripeObjects
  <2>4. QED
    BY <2>3 DEF Charges
<1>3. ASSUME NEW j \in StripeIds, StripeActs(j) PROVE Charges(i, p)'
  BY <1>3 DEF StripeActs, CustomerPays, Expire, Dunning, StripeMoves, Charges, TypeOK,
     StripeObjects
<1>4. CASE UNCHANGED pay
  BY <1>4 DEF Charges, pay
<1>5. QED
  BY <1>1, <1>2, <1>3, <1>4, StripeWriters

\* Only an INSERT sets the plan and the Stripe subscription of a row.
LEMMA RowsKeepPlan ==
    ASSUME TypeOK, ChargeInv, [Next]_vars, NEW s \in SubIds
    PROVE  \/ subs'[s].stripe = subs[s].stripe /\ subs'[s].plan = subs[s].plan
           \/ subs'[s].stripe = NoStripe
           \/ \E r \in Requests : /\ At(r, "subInsert")
                                  /\ subs'[s].stripe = req[r].stripe
                                  /\ subs'[s].plan = req[r].plan
<1> DEFINE kept == subs'[s].stripe = subs[s].stripe /\ subs'[s].plan = subs[s].plan
<1>1. ASSUME NEW r \in Requests, Continue(r)
      PROVE  \/ kept \/ subs'[s].stripe = NoStripe
             \/ /\ At(r, "subInsert") /\ subs'[s].stripe = req[r].stripe
                /\ subs'[s].plan = req[r].plan
  <2>1. CASE SubInsert(r)
    BY <2>1 DEF SubInsert, Insert, TypeOK
  <2>2. CASE SvcWrite(r)
    BY <2>2 DEF SvcWrite, TypeOK, Rows
  <2>3. CASE AdminInsert(r)
    BY <2>3 DEF AdminInsert, Insert, TypeOK
  <2>4. CASE AdminUpdateWrite(r)
    BY <2>4 DEF AdminUpdateWrite, TypeOK, Rows, ChargeInv, At, OrElse
  <2>5. CASE AdminRemove(r)
    BY <2>5 DEF AdminRemove, TypeOK, NoRow
  <2>6. CASE UNCHANGED subs
    BY <2>6
  <2>7. QED
    BY <1>1, <2>1, <2>2, <2>3, <2>4, <2>5, <2>6 DEF Continue, ConfirmCheck, ShipFind, ShipInsert,
       PayInsert, CheckoutCreate, StripeCall, SvcRead, Reread, AdminUpdateCheck, db
<1>2. ASSUME NEW r \in Requests, Arrive(r) PROVE UNCHANGED subs
  BY <1>2 DEF Arrive, SubscribeCheck, CheckoutCheck, ConfirmRead, AdminCreateCheck, CurrentRead,
     DashboardRead, AdminUpdateRead, AdminRemoveRead, db
<1>3. ASSUME NEW i \in StripeIds, StripeActs(i) PROVE UNCHANGED subs
  BY <1>3 DEF StripeActs, CustomerPays, Expire, Dunning, StripeMoves, db
<1>4. QED
  BY <1>1, <1>2, <1>3 DEF Next, Fail, db, vars

\* What a slot holds is what it held, or what its request began with.
SlotMoves(r) ==
    \/ req'[r].pc \notin {"subCheck", "subInsert", "updCheck", "updWrite"}
    \/ /\ req[r].pc \in {"subCheck", "subInsert"} /\ req'[r].pc \in {"subCheck", "subInsert"}
       /\ req'[r].stripe = req[r].stripe /\ req'[r].plan = req[r].plan
    \/ /\ req'[r].pc \in {"subCheck", "subInsert"}
       /\ req'[r].stripe \in StripeIds \union {NoStripe} /\ Paid(req'[r].stripe)
       /\ Charges(req'[r].stripe, req'[r].plan)
    \/ /\ req'[r].pc \in {"updCheck", "updWrite"}
       /\ req'[r].dto.plan = None

LEMMA SlotCharges ==
    ASSUME TypeOK, ChargeInv, PlansKept, [Next]_vars, NEW r \in Requests
    PROVE  SlotMoves(r)
<1> USE DEF TypeOK, IdleSlot, At, Goto, Finish, Locals, SlotMoves
<1>1. ASSUME req'[r] = req[r] PROVE SlotMoves(r)
  BY <1>1 DEF ChargeInv
<1>2. ASSUME NEW q \in Requests, Continue(q), q # r PROVE req'[r] = req[r]
  BY <1>2 DEF Continue, ConfirmCheck, SubInsert, ShipFind, ShipInsert, AfterShipments,
     PayInsert, CheckoutCreate, StripeCall, SvcRead, SvcWrite, Reread, AdminInsert,
     AdminUpdateCheck, AdminUpdateWrite, AdminRemove
<1>3. ASSUME Continue(r) PROVE SlotMoves(r)
  <2>1. CASE ConfirmCheck(r)
    BY <2>1 DEF ConfirmCheck
  <2>2. CASE AdminUpdateCheck(r)
    BY <2>2 DEF AdminUpdateCheck, ChargeInv
  <2>3. CASE ~ConfirmCheck(r) /\ ~AdminUpdateCheck(r)
    BY <1>3, <2>3 DEF Continue, SubInsert, ShipFind, ShipInsert, AfterShipments, PayInsert,
       CheckoutCreate, StripeCall, SvcRead, SvcWrite, Reread, AdminInsert, AdminUpdateWrite,
       AdminRemove
  <2>4. QED
    BY <2>1, <2>2, <2>3
<1>4. ASSUME NEW q \in Requests, Arrive(q), q # r PROVE req'[r] = req[r]
  BY <1>4 DEF Arrive, Accept, SubscribeCheck, CheckoutCheck, ConfirmRead, AdminCreateCheck,
     CurrentRead, DashboardRead, AdminUpdateRead, AdminRemoveRead
<1>5. ASSUME Arrive(r) PROVE SlotMoves(r)
  <2>1. CASE \E u \in Users, p \in Plans, i \in StripeIds : ConfirmRead(r, u, p, i)
    BY <2>1 DEF ConfirmRead, Accept, Paid, EverPaid, Charges
  <2>2. CASE \E u \in Users, p \in Plans : SubscribeCheck(r, u, p) \/ CheckoutCheck(r, u, p)
    <3>1. PICK u \in Users, p \in Plans : SubscribeCheck(r, u, p) \/ CheckoutCheck(r, u, p)
      BY <2>2
    <3>2. CASE SubscribeCheck(r, u, p)
      BY <3>2 DEF SubscribeCheck, Accept, Paid, Charges
    <3>3. CASE CheckoutCheck(r, u, p)
      BY <3>3 DEF CheckoutCheck, Accept
    <3>4. QED
      BY <3>1, <3>2, <3>3
  <2>3. CASE \E u \in Users, op \in {"pause", "resume", "cancel"} : CurrentRead(r, u, op)
    BY <2>3 DEF CurrentRead, Accept
  <2>4. CASE \E u \in Users : DashboardRead(r, u)
    BY <2>4 DEF DashboardRead, Accept
  <2>5. CASE \E u \in Users, p \in Plans, st \in Statuses : AdminCreateCheck(r, u, p, st)
    BY <2>5 DEF AdminCreateCheck, Accept
  <2>6. CASE \E s \in SubIds, dto \in Edits : AdminUpdateRead(r, s, dto)
    BY <2>6 DEF AdminUpdateRead, Accept, PlansKept
  <2>7. CASE \E s \in SubIds : AdminRemoveRead(r, s)
    BY <2>7 DEF AdminRemoveRead, Accept
  <2>8. QED
    BY <1>5, <2>1, <2>2, <2>3, <2>4, <2>5, <2>6, <2>7 DEF Arrive
<1>6. ASSUME NEW q \in Requests, Fail(q) PROVE SlotMoves(r)
  <2>1. req'[r] = IdleSlot \/ req'[r] = req[r]
    BY <1>6 DEF Fail
  <2>2. QED
    BY <2>1, <1>1
<1>7. QED
  BY <1>1, <1>2, <1>3, <1>4, <1>5, <1>6 DEF Next, vars, StripeActs, CustomerPays, Expire,
     Dunning, StripeMoves

LEMMA ChargeNext ==
    ASSUME TypeOK, PaidInv, ChargeInv, PlansKept, [Next]_vars
    PROVE  ChargeInv'
<1>1. \A i \in StripeIds \union {NoStripe} : \A p :
        Paid(i) /\ Charges(i, p) => Charges(i, p)'
  BY ChargeStays
<1>2. ASSUME NEW s \in SubIds PROVE Charges(subs[s].stripe, subs[s].plan)'
  <2>1. CASE subs'[s].stripe = subs[s].stripe /\ subs'[s].plan = subs[s].plan
    <3>1. subs[s].stripe \in StripeIds \union {NoStripe} /\ Paid(subs[s].stripe)
      BY DEF TypeOK, Rows, PaidInv
    <3>2. Charges(subs[s].stripe, subs[s].plan)
      BY DEF ChargeInv
    <3>3. QED
      BY <1>1, <2>1, <3>1, <3>2 DEF Charges
  <2>2. ASSUME NEW r \in Requests, At(r, "subInsert"), subs'[s].stripe = req[r].stripe,
               subs'[s].plan = req[r].plan
        PROVE  Charges(subs[s].stripe, subs[s].plan)'
    <3>1. /\ req[r].stripe \in StripeIds \union {NoStripe} /\ Paid(req[r].stripe)
          /\ Charges(req[r].stripe, req[r].plan)
      BY <2>2 DEF TypeOK, Locals, PaidInv, ChargeInv, At
    <3>2. QED
      BY <1>1, <2>2, <3>1 DEF Charges
  <2>3. CASE subs'[s].stripe = NoStripe
    BY <2>3 DEF Charges
  <2>4. QED
    BY <2>1, <2>2, <2>3, RowsKeepPlan
<1>3. ASSUME NEW r \in Requests, req'[r].pc \in {"subCheck", "subInsert"}
      PROVE  Charges(req[r].stripe, req[r].plan)'
  <2>1. \E i \in StripeIds \union {NoStripe} : \E p :
          /\ req'[r].stripe = i /\ req'[r].plan = p
          /\ Paid(i) /\ Charges(i, p)
    <3>1. CASE /\ req[r].pc \in {"subCheck", "subInsert"}
               /\ req'[r].stripe = req[r].stripe /\ req'[r].plan = req[r].plan
      BY <3>1 DEF TypeOK, Locals, PaidInv, ChargeInv
    <3>2. CASE /\ req'[r].stripe \in StripeIds \union {NoStripe} /\ Paid(req'[r].stripe)
               /\ Charges(req'[r].stripe, req'[r].plan)
      BY <3>2
    <3>3. QED
      BY <1>3, <3>1, <3>2, SlotCharges DEF SlotMoves
  <2>2. QED
    BY <1>1, <2>1 DEF Charges
<1>4. ASSUME NEW r \in Requests, req'[r].pc \in {"updCheck", "updWrite"}
      PROVE  req'[r].dto.plan = None
  BY <1>4, SlotCharges DEF SlotMoves
<1>5. QED
  BY <1>2, <1>3, <1>4 DEF ChargeInv

\* While no admin changes plans, the price Stripe charges for a row is that of the plan
\* the row grants, whatever requests overlap and fail.
THEOREM RowIsCharged == PlansKept => (Spec => []RowMatchesCharge)
<1> SUFFICES ASSUME PlansKept PROVE Spec => []RowMatchesCharge
  OBVIOUS
<1>1. TypeOK /\ PaidInv /\ ChargeInv /\ [Next]_vars => ChargeInv'
  BY ChargeNext
<1>2. ChargeInv => RowMatchesCharge
  BY DEF ChargeInv, Charges, RowMatchesCharge
<1>3. QED
  BY <1>1, <1>2, TypeInit, TypeNext, PaidInit, PaidNext, ChargeInit, PTL DEF Spec
=============================================================================
