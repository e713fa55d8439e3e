----------------------- MODULE SubscriptionLifecycle -----------------------
(***************************************************************************)
(* The life of a subscription row and of the Stripe subscription that pays *)
(* for it: SubscriptionsService, the HTTP handlers of                      *)
(* StripeSubscriptionsController and SubscriptionsController, and the part *)
(* of StripeService they call.                                             *)
(*                                                                         *)
(* No handler runs in a database transaction, so every `await` of a        *)
(* repository or of Stripe is a point where another request may run: each  *)
(* action below is the code between two awaits that touch shared state.    *)
(* A request that an early return refuses (404, 409, 400) changes nothing: *)
(* before its first await such a request is no step at all, later it is a  *)
(* step that frees the slot.                                               *)
(***************************************************************************)
EXTENDS Naturals, FiniteSets

CONSTANTS
    Users,      \* subscribers
    Plans,      \* subscription plans
    PriceOf,    \* the Stripe price resolvePriceIdForPlan finds for a plan
    Requests,   \* request slots: as many requests as may be in flight at once
    Ops,        \* the operations this workload contains
    Edits,      \* the UpdateSubscriptionDtos an admin sends in this workload
    MaxSubs,    \* bound: rows ever inserted in subscriptions
    MaxStripe,  \* bound: subscriptions ever created at Stripe
    MaxFails,   \* bound: calls that fail or requests that die half way
    None        \* an absent value (SQL NULL, an undefined DTO field)

SubIds       == 1 .. MaxSubs
StripeIds    == 1 .. MaxStripe
NoStripe     == 0       \* stripe_subscription_id IS NULL
NoSub        == 0
Statuses     == {"ACTIVE", "PAUSED", "CANCELLED"}
CurrentStatuses == {"ACTIVE", "PAUSED"}
NotStored    == {"UNUSED", "DELETED"}

UserOps  == {"subscribe", "checkout", "confirm", "pause", "resume", "cancel",
             "dashboard"}
AdminOps == {"adminCreate", "adminUpdate", "adminRemove"}
\* What Stripe does on its own; no webhook reports it to the service.
StripeOps == {"expire", "dunning"}

ASSUME ConstantsAssumption ==
    /\ MaxSubs \in Nat /\ MaxStripe \in Nat /\ MaxFails \in Nat
    /\ IsFiniteSet(Requests)
    /\ Ops \subseteq UserOps \union AdminOps \union StripeOps
    /\ None \notin Users \union Plans \union Statuses

VARIABLES
    subs,       \* table subscriptions: id -> row
    nextSub,    \* the next id an INSERT gets
    ships,      \* table shipments: how many rows a subscription has
    pays,       \* table payments: how many SUCCESS rows a subscription has
    stripe,     \* Stripe's own subscriptions: id -> object
    nextStripe, \* the next id Stripe gives
    req,        \* request slot -> where its handler is, and its local variables
    fails       \* failures so far

db   == <<subs, nextSub, ships, pays>>
pay  == <<stripe, nextStripe>>
vars == <<subs, nextSub, ships, pays, stripe, nextStripe, req, fails>>

-----------------------------------------------------------------------------
(* The data. *)

NoRow == [user |-> None, plan |-> None, status |-> "UNUSED", stripe |-> NoStripe]

Rows == [user : Users \union {None}, plan : Plans \union {None},
         status : Statuses \union NotStored, stripe : StripeIds \union {NoStripe}]

\* A Stripe subscription: whose customer, at which price, its status, and
\* whether pause_collection is set.
StripeStatuses == {"none", "incomplete", "active", "past_due", "canceled",
                   "incomplete_expired"}
StripeObjects  == [user : Users \union {None}, price : {PriceOf[p] : p \in Plans} \union {None},
                   status : StripeStatuses, paused : BOOLEAN]
NoObject       == [user |-> None, price |-> None, status |-> "none", paused |-> FALSE]

\* An admin's UpdateSubscriptionDto: a field that is None was not sent.
Dtos  == [status : Statuses \union {None}, user : Users \union {None},
          plan : Plans \union {None}]
NoDto == [status |-> None, user |-> None, plan |-> None]

ASSUME EditsAssumption == Edits \subseteq Dtos

Steps == {"idle", "subCheck", "subInsert", "adminInsert", "shipFind", "shipInsert",
          "payInsert", "checkoutCreate", "stripeCall", "svcRead", "svcWrite",
          "reread", "updCheck", "updWrite", "delete"}

Locals == [pc : Steps, op : UserOps \union AdminOps \union {None},
           user : Users \union {None}, plan : Plans \union {None},
           sub : SubIds \union {NoSub}, stripe : StripeIds \union {NoStripe},
           todo : SUBSET SubIds, dto : Dtos]

IdleSlot == [pc |-> "idle", op |-> None, user |-> None, plan |-> None, sub |-> NoSub,
             stripe |-> NoStripe, todo |-> {}, dto |-> NoDto]

\* The locals a handler has set by the time it is at a step.
Filled(l) ==
    /\ l.pc \in {"subCheck", "subInsert", "adminInsert", "checkoutCreate"}
         => l.user \in Users /\ l.plan \in Plans
    /\ l.pc = "adminInsert" => l.dto.status \in Statuses
    /\ l.pc \in {"subCheck", "stripeCall"} => l.stripe \in StripeIds
    /\ l.pc \in {"payInsert", "svcWrite", "reread", "updCheck", "updWrite", "delete"}
         => l.sub \in SubIds
    /\ l.pc \in {"stripeCall", "svcRead", "svcWrite"} => l.op \in {"pause", "resume", "cancel"}
    /\ l.pc \in {"subCheck", "payInsert"} => l.op = "confirm"
    /\ l.pc \in {"shipFind", "shipInsert"} /\ l.op # "dashboard"
         => l.sub \in SubIds /\ l.todo = {l.sub}
    /\ l.pc = "idle" => l = IdleSlot

TypeOK ==
    /\ subs \in [SubIds -> Rows]
    /\ nextSub \in 1 .. MaxSubs + 1
    /\ ships \in [SubIds -> Nat]
    /\ pays \in [SubIds -> Nat]
    /\ stripe \in [StripeIds -> StripeObjects]
    /\ nextStripe \in 1 .. MaxStripe + 1
    /\ req \in [Requests -> Locals]
    /\ \A r \in Requests : Filled(req[r])
    /\ fails \in 0 .. MaxFails

Init ==
    /\ subs = [s \in SubIds |-> NoRow]
    /\ nextSub = 1
    /\ ships = [s \in SubIds |-> 0]
    /\ pays = [s \in SubIds |-> 0]
    /\ stripe = [i \in StripeIds |-> NoObject]
    /\ nextStripe = 1
    /\ req = [r \in Requests |-> IdleSlot]
    /\ fails = 0

-----------------------------------------------------------------------------
(* Queries and the moves of a slot. *)

Stored(s) == subs[s].status \notin NotStored

\* The rows findCurrentByUserId filters. It returns the one with the latest
\* start_date, but that column is a DATE: rows of one day tie and the database
\* may return any of them. A day plays no other role here, so every choice the
\* model makes is one the program makes when the rows are of one day.
Current(u) == {s \in SubIds : subs[s].user = u /\ subs[s].status \in CurrentStatuses}

At(r, step)   == req[r].pc = step
Goto(r, step) == req' = [req EXCEPT ![r].pc = step]
Finish(r)     == req' = [req EXCEPT ![r] = IdleSlot]

\* A new request in a free slot; the first await of its handler is the action
\* that calls Accept, so what it reads is read there.
Accept(r, op, locals) ==
    /\ op \in Ops
    /\ At(r, "idle")
    /\ req' = [req EXCEPT ![r] = [locals EXCEPT !.op = op]]

\* Bounds: leave room for the INSERTs that are already under way.
Inserting     == {q \in Requests : req[q].pc \in {"subCheck", "subInsert", "adminInsert"}}
RoomForRow    == nextSub + Cardinality(Inserting) <= MaxSubs
RoomForStripe == nextStripe + Cardinality({q \in Requests : At(q, "checkoutCreate")}) <= MaxStripe

Insert(row) ==
    /\ nextSub <= MaxSubs
    /\ subs' = [subs EXCEPT ![nextSub] = row]
    /\ nextSub' = nextSub + 1

-----------------------------------------------------------------------------
(* ensureInitialShipments: look for shipments of the ACTIVE rows it was     *)
(* given, then insert one for each row that had none.                       *)

\* What follows it: confirmSubscription goes on to record the payment, every
\* other caller only reads its answer.
AfterShipments(r) ==
    IF req[r].op = "confirm" THEN Goto(r, "payInsert") ELSE Finish(r)

\* Mutant: the shipments that exist are not looked at.
BugShipFindAll(r) ==
    /\ At(r, "shipFind")
    /\ Goto(r, "shipInsert")
    /\ UNCHANGED <<db, pay, fails>>

ShipFind(r) ==
    /\ At(r, "shipFind")
    /\ LET missing == {s \in req[r].todo : ships[s] = 0}
       IN  IF missing = {}
           THEN AfterShipments(r)
           ELSE req' = [req EXCEPT ![r].pc = "shipInsert", ![r].todo = missing]
    /\ UNCHANGED <<db, pay, fails>>

\* One save() of the whole array, hence one transaction: if a row has been
\* deleted its foreign key fails and nothing is inserted.
ShipInsert(r) ==
    /\ At(r, "shipInsert")
    /\ IF \A s \in req[r].todo : Stored(s)
       THEN /\ ships' = [s \in SubIds |-> IF s \in req[r].todo THEN ships[s] + 1 ELSE ships[s]]
            /\ AfterShipments(r)
       ELSE /\ Finish(r)
            /\ UNCHANGED ships
    /\ UNCHANGED <<subs, nextSub, pays, pay, fails>>

-----------------------------------------------------------------------------
(* POST subscriptions/subscribe and POST stripe/.../confirm.                *)

\* subscribeForCurrentUser called without Stripe; it refuses a user who has a
\* current row.
SubscribeCheck(r, u, p) ==
    /\ RoomForRow
    /\ Current(u) = {}
    /\ Accept(r, "subscribe", [IdleSlot EXCEPT !.pc = "subInsert", !.user = u, !.plan = p])
    /\ UNCHANGED <<db, pay, fails>>

\* Mutants of ConfirmRead: an unpaid subscription, or one at another price, passes.
BugConfirmUnpaid(r, u, p, i) ==
    /\ RoomForRow
    /\ stripe[i].price = PriceOf[p]
    /\ Accept(r, "confirm", [IdleSlot EXCEPT !.pc = "subCheck", !.user = u, !.plan = p,
                                             !.stripe = i])
    /\ UNCHANGED <<db, pay, fails>>

BugConfirmAnyPrice(r, u, p, i) ==
    /\ RoomForRow
    /\ stripe[i].status = "active"
    /\ Accept(r, "confirm", [IdleSlot EXCEPT !.pc = "subCheck", !.user = u, !.plan = p,
                                             !.stripe = i])
    /\ UNCHANGED <<db, pay, fails>>

\* The client sends the id of a Stripe subscription. Stripe must have it active and
\* at the price of the plan; whose customer it charges is not looked at.
ConfirmRead(r, u, p, i) ==
    /\ RoomForRow
    /\ stripe[i].price = PriceOf[p]
    /\ stripe[i].status = "active"
    /\ Accept(r, "confirm", [IdleSlot EXCEPT !.pc = "subCheck", !.user = u, !.plan = p,
                                             !.stripe = i])
    /\ UNCHANGED <<db, pay, fails>>

\* subscribeForCurrentUser called by confirm: its own check of a current row.
ConfirmCheck(r) ==
    /\ At(r, "subCheck")
    /\ IF Current(req[r].user) = {} THEN Goto(r, "subInsert") ELSE Finish(r)
    /\ UNCHANGED <<db, pay, fails>>

\* Mutant: the third argument of subscribeForCurrentUser keeps its default null.
BugInsertNoStripe(r) ==
    /\ At(r, "subInsert")
    /\ Insert([user |-> req[r].user, plan |-> req[r].plan, status |-> "ACTIVE",
               stripe |-> NoStripe])
    /\ req' = [req EXCEPT ![r].pc = "shipFind", ![r].sub = nextSub, ![r].todo = {nextSub}]
    /\ UNCHANGED <<ships, pays, pay, fails>>

SubInsert(r) ==
    /\ At(r, "subInsert")
    /\ Insert([user |-> req[r].user, plan |-> req[r].plan, status |-> "ACTIVE",
               stripe |-> req[r].stripe])
    /\ req' = [req EXCEPT ![r].pc = "shipFind", ![r].sub = nextSub, ![r].todo = {nextSub}]
    /\ UNCHANGED <<ships, pays, pay, fails>>

\* confirm's last write; the foreign key refuses a payment of a deleted row.
PayInsert(r) ==
    /\ At(r, "payInsert")
    /\ pays' = IF Stored(req[r].sub) THEN [pays EXCEPT ![req[r].sub] = @ + 1] ELSE pays
    /\ Finish(r)
    /\ UNCHANGED <<subs, nextSub, ships, pay, fails>>

-----------------------------------------------------------------------------
(* POST stripe/.../checkout-intent.                                         *)

CheckoutCheck(r, u, p) ==
    /\ RoomForStripe
    /\ Current(u) = {}
    /\ Accept(r, "checkout", [IdleSlot EXCEPT !.pc = "checkoutCreate", !.user = u, !.plan = p])
    /\ UNCHANGED <<db, pay, fails>>

\* createSubscription with payment_behavior default_incomplete. The calls after
\* it only fetch secrets for the payment sheet.
CheckoutCreate(r) ==
    /\ At(r, "checkoutCreate")
    /\ nextStripe <= MaxStripe
    /\ stripe' = [stripe EXCEPT ![nextStripe] =
                    [user |-> req[r].user, price |-> PriceOf[req[r].plan],
                     status |-> "incomplete", paused |-> FALSE]]
    /\ nextStripe' = nextStripe + 1
    /\ Finish(r)
    /\ UNCHANGED <<db, fails>>

-----------------------------------------------------------------------------
(* PUT stripe/.../me/pause, me/resume, me/cancel. The controller reads the  *)
(* current row and calls Stripe; the service then reads the current row     *)
(* again and writes by its id.                                              *)

CurrentRead(r, u, op) ==
    /\ \E s \in Current(u) :
          Accept(r, op, [IdleSlot EXCEPT
                            !.pc = IF subs[s].stripe = NoStripe THEN "svcRead" ELSE "stripeCall",
                            !.user = u, !.stripe = subs[s].stripe])
    /\ UNCHANGED <<db, pay, fails>>

Ended == {"canceled", "incomplete_expired"}

\* Mutant: cancelSubscription with immediately left at its default false, which
\* only schedules the cancellation.
BugCancelLater(r) ==
    /\ At(r, "stripeCall")
    /\ LET i == req[r].stripe
       IN  IF stripe[i].status \in Ended
           THEN Finish(r) /\ UNCHANGED stripe
           ELSE /\ stripe' = IF req[r].op = "cancel" THEN stripe
                             ELSE [stripe EXCEPT ![i].paused = (req[r].op = "pause")]
                /\ Goto(r, "svcRead")
    /\ UNCHANGED <<db, nextStripe, fails>>

\* Mutant: a subscription that is paused already is refused like one that ended.
BugPauseOnce(r) ==
    /\ At(r, "stripeCall")
    /\ LET i == req[r].stripe
       IN  IF stripe[i].status \in Ended \/ (req[r].op = "pause" /\ stripe[i].paused)
           THEN Finish(r) /\ UNCHANGED stripe
           ELSE /\ stripe' = CASE req[r].op = "pause"  -> [stripe EXCEPT ![i].paused = TRUE]
                               [] req[r].op = "resume" -> [stripe EXCEPT ![i].paused = FALSE]
                               [] OTHER                -> [stripe EXCEPT ![i].status = "canceled"]
                /\ Goto(r, "svcRead")
    /\ UNCHANGED <<db, nextStripe, fails>>

\* Stripe refuses to change or to cancel a subscription that has ended, and
\* executeStripeRequest turns that into an exception.
StripeCall(r) ==
    /\ At(r, "stripeCall")
    /\ LET i == req[r].stripe
       IN  IF stripe[i].status \in Ended
           THEN Finish(r) /\ UNCHANGED stripe
           ELSE /\ stripe' = CASE req[r].op = "pause"  -> [stripe EXCEPT ![i].paused = TRUE]
                               [] req[r].op = "resume" -> [stripe EXCEPT ![i].paused = FALSE]
                               [] OTHER                -> [stripe EXCEPT ![i].status = "canceled"]
                /\ Goto(r, "svcRead")
    /\ UNCHANGED <<db, nextStripe, fails>>

\* Mutant: Stripe's spelling in our column.
BugTarget(op) == CASE op = "pause" -> "PAUSED" [] op = "resume" -> "ACTIVE" [] OTHER -> "CANCELED"

\* The status the operation writes.
Target(op) == CASE op = "pause" -> "PAUSED" [] op = "resume" -> "ACTIVE" [] OTHER -> "CANCELLED"

\* requireCurrentSubscription of the service: no current row is a 404, a row
\* already in the target status is answered as it is.
SvcRead(r) ==
    /\ At(r, "svcRead")
    /\ \/ /\ \/ Current(req[r].user) = {}
             \/ \E s \in Current(req[r].user) : subs[s].status = Target(req[r].op)
          /\ Finish(r)
       \/ \E s \in Current(req[r].user) :
             /\ subs[s].status # Target(req[r].op)
             /\ req' = [req EXCEPT ![r].pc = "svcWrite", ![r].sub = s]
    /\ UNCHANGED <<db, pay, fails>>

\* Mutant: resume does not look after the initial shipment.
BugResumeOnlyWrites(r) ==
    /\ At(r, "svcWrite")
    /\ LET s == req[r].sub
       IN  subs' = IF Stored(s) THEN [subs EXCEPT ![s].status = Target(req[r].op)] ELSE subs
    /\ Finish(r)
    /\ UNCHANGED <<nextSub, ships, pays, pay, fails>>

\* UPDATE ... WHERE id: whatever the row holds by now; no row, no effect.
SvcWrite(r) ==
    /\ At(r, "svcWrite")
    /\ LET s == req[r].sub
       IN  subs' = IF Stored(s) THEN [subs EXCEPT ![s].status = Target(req[r].op)] ELSE subs
    /\ IF req[r].op = "resume" THEN Goto(r, "reread") ELSE Finish(r)
    /\ UNCHANGED <<nextSub, ships, pays, pay, fails>>

\* findOne after the write of resumeCurrentForUser and of update: only a row
\* that is ACTIVE then is given to ensureInitialShipments.
Reread(r) ==
    /\ At(r, "reread")
    /\ IF subs[req[r].sub].status = "ACTIVE"
       THEN req' = [req EXCEPT ![r].pc = "shipFind", ![r].todo = {req[r].sub}]
       ELSE Finish(r)
    /\ UNCHANGED <<db, pay, fails>>

-----------------------------------------------------------------------------
(* GET subscriptions/dashboard reads, but also inserts missing shipments.   *)

\* Mutant: the dashboard only reads.
BugDashboardReads(r, u) ==
    /\ At(r, "idle")
    /\ Current(u) # {}
    /\ UNCHANGED vars

DashboardRead(r, u) ==
    /\ LET active == {s \in Current(u) : subs[s].status = "ACTIVE"}
       IN  /\ active # {}
           /\ Accept(r, "dashboard", [IdleSlot EXCEPT !.pc = "shipFind", !.user = u,
                                                      !.todo = active])
    /\ UNCHANGED <<db, pay, fails>>

-----------------------------------------------------------------------------
(* The admin's create, update and remove. None of them calls Stripe.        *)

\* Mutant: only a row created as ACTIVE is checked against the current one.
BugCreatePaused(r, u, p, status) ==
    /\ RoomForRow
    /\ status = "ACTIVE" => Current(u) = {}
    /\ Accept(r, "adminCreate", [IdleSlot EXCEPT !.pc = "adminInsert", !.user = u, !.plan = p,
                                                 !.dto.status = status])
    /\ UNCHANGED <<db, pay, fails>>

AdminCreateCheck(r, u, p, status) ==
    /\ RoomForRow
    /\ status \in CurrentStatuses => Current(u) = {}
    /\ Accept(r, "adminCreate", [IdleSlot EXCEPT !.pc = "adminInsert", !.user = u, !.plan = p,
                                                 !.dto.status = status])
    /\ UNCHANGED <<db, pay, fails>>

AdminInsert(r) ==
    /\ At(r, "adminInsert")
    /\ Insert([user |-> req[r].user, plan |-> req[r].plan, status |-> req[r].dto.status,
               stripe |-> NoStripe])
    /\ IF req[r].dto.status = "ACTIVE"
       THEN req' = [req EXCEPT ![r].pc = "shipFind", ![r].sub = nextSub, ![r].todo = {nextSub}]
       ELSE Finish(r)
    /\ UNCHANGED <<ships, pays, pay, fails>>

\* The fields of the DTO over the row, as `dto.x ?? existing.x`.
OrElse(x, y) == IF x = None THEN y ELSE x

\* Mutant: the check is made for the user the row has, not for the one it gets.
BugUpdateOldUser(r, s, dto) ==
    /\ Stored(s)
    /\ dto # NoDto
    /\ Accept(r, "adminUpdate",
              [IdleSlot EXCEPT
                !.pc   = IF OrElse(dto.status, subs[s].status) \in CurrentStatuses
                         THEN "updCheck" ELSE "updWrite",
                !.user = subs[s].user,
                !.sub  = s,
                !.dto  = dto])
    /\ UNCHANGED <<db, pay, fails>>

AdminUpdateRead(r, s, dto) ==
    /\ Stored(s)
    /\ dto # NoDto
    /\ Accept(r, "adminUpdate",
              [IdleSlot EXCEPT
                !.pc   = IF OrElse(dto.status, subs[s].status) \in CurrentStatuses
                         THEN "updCheck" ELSE "updWrite",
                !.user = OrElse(dto.user, subs[s].user),
                !.sub  = s,
                !.dto  = dto])
    /\ UNCHANGED <<db, pay, fails>>

\* ensureNoOtherCurrentSubscription(targetUserId, id)
AdminUpdateCheck(r) ==
    /\ At(r, "updCheck")
    /\ IF Current(req[r].user) \subseteq {req[r].sub} THEN Goto(r, "updWrite") ELSE Finish(r)
    /\ UNCHANGED <<db, pay, fails>>

\* UPDATE of the columns that were sent.
AdminUpdateWrite(r) ==
    /\ At(r, "updWrite")
    /\ LET s   == req[r].sub
           dto == req[r].dto
       IN  subs' = IF ~Stored(s) THEN subs
                   ELSE [subs EXCEPT ![s].status = OrElse(dto.status, @),
                                     ![s].user   = OrElse(dto.user, @),
                                     ![s].plan   = OrElse(dto.plan, @)]
    /\ Goto(r, "reread")
    /\ UNCHANGED <<nextSub, ships, pays, pay, fails>>

AdminRemoveRead(r, s) ==
    /\ Stored(s)
    /\ Accept(r, "adminRemove", [IdleSlot EXCEPT !.pc = "delete", !.sub = s])
    /\ UNCHANGED <<db, pay, fails>>

\* DELETE fails on the foreign keys of shipments and payments.
AdminRemove(r) ==
    /\ At(r, "delete")
    /\ LET s == req[r].sub
       IN  subs' = IF ships[s] > 0 \/ pays[s] > 0 \/ ~Stored(s) THEN subs
                   ELSE [subs EXCEPT ![s] = [NoRow EXCEPT !.status = "DELETED"]]
    /\ Finish(r)
    /\ UNCHANGED <<nextSub, ships, pays, pay, fails>>

-----------------------------------------------------------------------------
(* The environment.                                                         *)

\* A repository or Stripe call of the handler throws, or the instance dies:
\* what was written stays, the rest is never done.
Fail(r) ==
    /\ ~At(r, "idle")
    /\ fails < MaxFails
    /\ fails' = fails + 1
    /\ Finish(r)
    /\ UNCHANGED <<db, pay>>

\* Stripe moves a subscription from one status to another.
StripeMoves(i, from, to) ==
    /\ stripe[i].status = from
    /\ stripe' = [stripe EXCEPT ![i].status = to]
    /\ UNCHANGED <<db, nextStripe, req, fails>>

\* The customer completes the payment sheet of the app.
CustomerPays(i) == StripeMoves(i, "incomplete", "active")

\* A first payment that never comes.
Expire(i) == "expire" \in Ops /\ StripeMoves(i, "incomplete", "incomplete_expired")

\* A renewal that fails, is recovered, or is given up.
Dunning(i) ==
    /\ "dunning" \in Ops
    /\ \/ StripeMoves(i, "active", "past_due")
       \/ StripeMoves(i, "past_due", "active")
       \/ StripeMoves(i, "past_due", "canceled")

-----------------------------------------------------------------------------

\* A handler goes on after an await.
Continue(r) ==
    \/ ConfirmCheck(r) \/ SubInsert(r) \/ ShipFind(r) \/ ShipInsert(r) \/ PayInsert(r)
    \/ CheckoutCreate(r)
    \/ StripeCall(r) \/ SvcRead(r) \/ SvcWrite(r) \/ Reread(r)
    \/ AdminInsert(r) \/ AdminUpdateCheck(r) \/ AdminUpdateWrite(r) \/ AdminRemove(r)

\* A request arrives.
Arrive(r) ==
    \/ \E u \in Users, p \in Plans : SubscribeCheck(r, u, p) \/ CheckoutCheck(r, u, p)
    \/ \E u \in Users, p \in Plans, i \in StripeIds : ConfirmRead(r, u, p, i)
    \/ \E u \in Users, op \in {"pause", "resume", "cancel"} : CurrentRead(r, u, op)
    \/ \E u \in Users : DashboardRead(r, u)
    \/ \E u \in Users, p \in Plans, st \in Statuses : AdminCreateCheck(r, u, p, st)
    \/ \E s \in SubIds, dto \in Edits : AdminUpdateRead(r, s, dto)
    \/ \E s \in SubIds : AdminRemoveRead(r, s)

StripeActs(i) == CustomerPays(i) \/ Expire(i) \/ Dunning(i)

Next ==
    \/ \E r \in Requests : Arrive(r) \/ Continue(r) \/ Fail(r)
    \/ \E i \in StripeIds : StripeActs(i)

Spec == Init /\ [][Next]_vars

-----------------------------------------------------------------------------
(* Properties that hold however many requests run at once, whatever fails. *)

\* Stripe took a payment for this subscription at some time.
EverPaid == {"active", "past_due", "canceled"}

\* Access is never given for a Stripe subscription that was not paid: confirm
\* looks at Stripe's status before it inserts the row (stripe-subscriptions
\* .controller.ts, validStatuses), several awaits earlier.
ConfirmedWasPaid ==
    \A s \in SubIds : subs[s].stripe # NoStripe => stripe[subs[s].stripe].status \in EverPaid

\* A SUCCESS payment belongs to a stored row that a confirm created, and no
\* row is recorded as paid twice, however often a confirm is repeated.
OnePaymentPerConfirm ==
    \A s \in SubIds : pays[s] > 0 => pays[s] = 1 /\ Stored(s) /\ subs[s].stripe # NoStripe

Quiet == \A r \in Requests : At(r, "idle")

\* When no call has failed and no request is under way, every ACTIVE row has its
\* initial shipment, whichever requests set its status and in whatever order:
\* each of them reads the row again after it wrote ACTIVE.
ActiveHasShipment ==
    Quiet /\ fails = 0 => \A s \in SubIds : subs[s].status = "ACTIVE" => ships[s] > 0

\* While no admin changes the plan of a row, what Stripe charges for it is the price
\* of the plan the row grants: confirm compares the two before its other awaits.
RowMatchesCharge ==
    \A s \in SubIds : subs[s].stripe # NoStripe =>
        stripe[subs[s].stripe].price = PriceOf[subs[s].plan]

-----------------------------------------------------------------------------
(* Properties of requests that do not overlap (one slot), failures         *)
(* included.                                                               *)

\* "User already has an active subscription" (subscribeForCurrentUser) and "User
\* already has a current subscription" (ensureNoOtherCurrentSubscription): a user
\* has one current row at most.
AtMostOneCurrent ==
    \A s, t \in SubIds :
        /\ subs[s].status \in CurrentStatuses
        /\ subs[t].status \in CurrentStatuses
        /\ subs[s].user = subs[t].user
        => s = t

\* The find of ensureInitialShipments keeps it from adding a second shipment,
\* also when the request is repeated after a failure.
SingleInitialShipment == \A s \in SubIds : ships[s] <= 1

\* Without an admin: a row that is CANCELLED is no longer billed, because cancel
\* asks Stripe first; if the answer or the UPDATE is lost the row stays current.
CancelledNotBilled ==
    \A s \in SubIds :
        subs[s].status = "CANCELLED" /\ subs[s].stripe # NoStripe
            => stripe[subs[s].stripe].status = "canceled"

\* Without an admin: of the rows of one user a Stripe subscription pays for one at
\* most, although nothing but the check for a current row, and Stripe's status once
\* that row is cancelled, stops a repeated confirm.
StripeBacksOneRow ==
    \A s, t \in SubIds :
        /\ subs[s].stripe = subs[t].stripe /\ subs[s].stripe # NoStripe
        /\ subs[s].user = subs[t].user
        => s = t

\* A Stripe subscription that rows of two users name: confirm lets it through.
Shared(i) ==
    \E s, t \in SubIds :
        subs[s].stripe = i /\ subs[t].stripe = i /\ subs[s].user # subs[t].user

\* Without an admin and without failures: when the service is quiet, Stripe
\* collects for a current row exactly when the row is not PAUSED. Only where the
\* users of two rows pause and resume one Stripe subscription may it differ.
PauseAgrees ==
    Quiet /\ fails = 0 =>
        \A s \in SubIds :
            /\ subs[s].status \in CurrentStatuses
            /\ subs[s].stripe # NoStripe /\ ~Shared(subs[s].stripe)
            => (stripe[subs[s].stripe].paused <=> subs[s].status = "PAUSED")

\* What the rows grant is what Stripe bills, without an admin: the three together.
RowsAgreeWithStripe == CancelledNotBilled /\ StripeBacksOneRow /\ PauseAgrees

\* The rows as the contract sees them.
Contract == INSTANCE SubscriptionContract WITH
    Editable <- AdminOps \intersect Ops # {},
    rows     <- [s \in SubIds |-> [user |-> subs[s].user, status |-> subs[s].status]]

\* Requests that do not overlap implement the contract: the row is still what the
\* first reads of the handler saw when its write is done.
ImplementsContract == Contract!Spec

-----------------------------------------------------------------------------
(* What the texts of the repository say and overlapping or failing         *)
(* requests break.                                                         *)

\* "Record the successful payment so billing_status resolves to PAID"
\* (confirmSubscription): when no confirm is under way, every row a confirm
\* created has its payment.
ConfirmedIsPaid ==
    Quiet => \A s \in SubIds : Stored(s) /\ subs[s].stripe # NoStripe => pays[s] > 0

-----------------------------------------------------------------------------
(* Liveness. A handler goes on as long as its calls return (FairSpec); what *)
(* the subscriber must do for a promise to be kept is an assumption of the  *)
(* promise: each asks again whenever he can (SF, since the slot is taken    *)
(* again and again).                                                        *)

FairSpec == Spec /\ \A r \in Requests : WF_vars(Continue(r))

Insists(op)    == \A r \in Requests, u \in Users : SF_vars(CurrentRead(r, u, op))
OpensDashboard == \A r \in Requests, u \in Users : SF_vars(DashboardRead(r, u))

\* "Cancel the current subscriber subscription immediately" (me/cancel): a
\* subscriber who goes on asking is rid of a subscription Stripe has cancelled.
CancelSucceeds ==
    Insists("cancel") =>
        \A s \in SubIds :
            (/\ subs[s].status \in CurrentStatuses
             /\ subs[s].stripe # NoStripe
             /\ stripe[subs[s].stripe].status = "canceled")
                ~> subs[s].status \notin CurrentStatuses

\* Nothing is collected for an ACTIVE row.
NotCollected(s) ==
    /\ subs[s].status = "ACTIVE"
    /\ subs[s].stripe # NoStripe
    /\ stripe[subs[s].stripe].paused
    /\ stripe[subs[s].stripe].status \notin Ended

\* A pause that reached Stripe but not the row does not stay so: its retry is let
\* through, since Stripe takes a second pause and the row is still ACTIVE.
PauseSucceeds == Insists("pause") => \A s \in SubIds : NotCollected(s) ~> ~NotCollected(s)

\* A subscription whose initial shipment was lost with a failed request gets it
\* from the dashboard, unless it is paused first.
ShipmentRepaired ==
    OpensDashboard =>
        \A s \in SubIds :
            subs[s].status = "ACTIVE" /\ ships[s] = 0
                ~> ships[s] > 0 \/ subs[s].status # "ACTIVE"

=============================================================================
