------------------------------ MODULE Shipments ------------------------------
(***************************************************************************)
(* Shipments and the messages about them: ShipmentsService,                *)
(* NotificationsService, and the first shipments that the dashboard of     *)
(* SubscriptionsService inserts.                                           *)
(*                                                                         *)
(* A change of a status is four awaits: read the row, write it, read it    *)
(* again, push a message to the subscriber. Whether there is a message is  *)
(* decided by the first read, to whom it goes by the second.               *)
(***************************************************************************)
EXTENDS Naturals, FiniteSets

CONSTANTS
    Users,
    Subs,            \* ids of subscriptions
    OwnerOf,         \* subscription -> its user
    Requests,        \* request slots
    CreateStatuses,  \* what POST shipments sends as a status: any string
    PatchStatuses,   \* what PATCH shipments/:id sends: any string
    PutStatuses,     \* what PUT shipments/:id/status sends: checked by the handler
    MaxShips,        \* bound: rows ever inserted in shipments
    MaxFails,        \* bound: calls that fail
    None             \* an absent value

\* The statuses the code knows, one in another spelling, and one it does not know.
Allowed  == {"PENDING", "PACKED", "SHIPPED", "DELIVERED"}
Statuses == Allowed \union {"packed", "LOST"}
Upper(status) == IF status = "packed" THEN "PACKED" ELSE status
Pushed   == {"PACKED", "SHIPPED", "DELIVERED"}

ShipIds == 1 .. MaxShips
NoShip  == 0

ASSUME ShipmentsAssumption ==
    /\ IsFiniteSet(Subs) /\ OwnerOf \in [Subs -> Users]
    /\ CreateStatuses \subseteq Statuses /\ PatchStatuses \subseteq Statuses
    /\ PutStatuses \subseteq Allowed
    /\ MaxShips \in Nat /\ MaxFails \in Nat
    /\ None \notin Statuses \union Subs \union Users

VARIABLES
    subs,      \* subscription -> its status
    ships,     \* table shipments
    nextShip,  \* the id of the next INSERT
    slot,      \* request slot -> where its handler is, and its local variables
    fails,     \* failures so far
    told,      \* (history) shipment -> the status it was inserted with and those sent
    last,      \* (history) shipment -> the last message sent; None if it reached nobody
    raced      \* (history) shipments that had two requests under way at once

vars == <<subs, ships, nextShip, slot, fails, told, last, raced>>

-----------------------------------------------------------------------------
(* The data. *)

Rows  == [sub : Subs \union {None}, status : Statuses \union {None}]
NoRow == [sub |-> None, status |-> None]

\* What a request changes; None is what it leaves alone.
Dtos  == [status : Statuses \union {None}, sub : Subs \union {None}]
NoDto == [status |-> None, sub |-> None]

Locals == [pc : {"idle", "write", "reread", "push", "delete", "shipInsert"},
           ship : ShipIds \union {NoShip}, dto : Dtos, announce : BOOLEAN,
           lacking : SUBSET Subs]
Idle == [pc |-> "idle", ship |-> NoShip, dto |-> NoDto, announce |-> FALSE,
         lacking |-> {}]

TypeOK ==
    /\ subs \in [Subs -> {"ACTIVE", "PAUSED", "CANCELLED"}]
    /\ ships \in [ShipIds -> Rows]
    /\ nextShip \in 1 .. MaxShips + 1
    /\ slot \in [Requests -> Locals]
    /\ fails \in 0 .. MaxFails
    /\ told \in [ShipIds -> SUBSET Pushed]
    /\ last \in [ShipIds -> Pushed \union {None}]
    /\ raced \in SUBSET ShipIds

Init ==
    /\ subs = [s \in Subs |-> "ACTIVE"]
    /\ ships = [x \in ShipIds |-> NoRow]
    /\ nextShip = 1
    /\ slot = [r \in Requests |-> Idle]
    /\ fails = 0
    /\ told = [x \in ShipIds |-> {}]
    /\ last = [x \in ShipIds |-> None]
    /\ raced = {}

-----------------------------------------------------------------------------
(* Queries, and the moves of a slot. *)

Stored(x) == ships[x].sub # None
OfSub(s)  == {x \in ShipIds : ships[x].sub = s}

OrElse(value, default) == IF value # None THEN value ELSE default

At(r, pc) == slot[r].pc = pc
Quiet     == \A r \in Requests : At(r, "idle")
Move(r, locals) == slot' = [slot EXCEPT ![r] = locals]
Finish(r) == Move(r, Idle)

\* A request about shipment x begins.
Accept(r, x, locals) ==
    /\ At(r, "idle")
    /\ Move(r, [locals EXCEPT !.ship = x])
    /\ raced' = IF \E q \in Requests : slot[q].ship = x THEN raced \union {x} ELSE raced

-----------------------------------------------------------------------------
(* PATCH shipments/:id and PUT shipments/:id/status.                        *)

\* Mutant: once delivered, nothing is announced any more.
BugUpdateRead(r, x, dto) ==
    /\ Stored(x) /\ dto # NoDto
    /\ Accept(r, x, [Idle EXCEPT !.pc = "write", !.dto = dto,
                        !.announce = dto.status # None /\ ships[x].status # "DELIVERED"])
    /\ UNCHANGED <<subs, ships, nextShip, fails, told, last>>

\* update: the message is decided by the status as it was, in any spelling.
UpdateRead(r, x, dto) ==
    /\ Stored(x) /\ dto # NoDto
    /\ Accept(r, x, [Idle EXCEPT !.pc = "write", !.dto = dto,
                        !.announce = /\ dto.status # None
                                     /\ Upper(dto.status) # Upper(ships[x].status)])
    /\ UNCHANGED <<subs, ships, nextShip, fails, told, last>>

\* updateStatus: a status that is there already is answered with the row.
StatusRead(r, x, status) ==
    /\ Stored(x) /\ ships[x].status # status
    /\ Accept(r, x, [Idle EXCEPT !.pc = "write", !.dto = [NoDto EXCEPT !.status = status],
                                 !.announce = TRUE])
    /\ UNCHANGED <<subs, ships, nextShip, fails, told, last>>

\* UPDATE ... WHERE id = x: no row, no effect.
Write(r) ==
    /\ At(r, "write")
    /\ LET x == slot[r].ship
       IN  ships' = IF Stored(x)
                    THEN [ships EXCEPT ![x].status = OrElse(slot[r].dto.status, @),
                                       ![x].sub = OrElse(slot[r].dto.sub, @)]
                    ELSE ships
    /\ Move(r, [slot[r] EXCEPT !.pc = "reread", !.dto.sub = None])
    /\ UNCHANGED <<subs, nextShip, fails, told, last, raced>>

\* Mutant: the message is decided by the row as it is now.
BugReread(r) ==
    /\ At(r, "reread")
    /\ LET x == slot[r].ship
       IN  IF Stored(x) /\ slot[r].announce /\ Upper(slot[r].dto.status) \in Pushed
                /\ ships[x].status # slot[r].dto.status
           THEN Move(r, [slot[r] EXCEPT !.pc = "push"])
           ELSE Finish(r)
    /\ UNCHANGED <<subs, ships, nextShip, fails, told, last, raced>>

\* findOne throws if the row is gone. PENDING, and what it does not know, is not
\* announced.
Reread(r) ==
    /\ At(r, "reread")
    /\ LET x == slot[r].ship
       IN  IF Stored(x) /\ slot[r].announce /\ Upper(slot[r].dto.status) \in Pushed
           THEN Move(r, [slot[r] EXCEPT !.pc = "push"])
           ELSE Finish(r)
    /\ UNCHANGED <<subs, ships, nextShip, fails, told, last, raced>>

\* sendNotificationToUser: the request is answered whatever happens. The message
\* reaches nobody if the user has no token or Firebase refuses it.
Push(r) ==
    /\ At(r, "push")
    /\ LET x      == slot[r].ship
           status == Upper(slot[r].dto.status)
       IN  /\ told' = [told EXCEPT ![x] = @ \union {status}]
           /\ \E reached \in BOOLEAN :
                 last' = [last EXCEPT ![x] = IF reached THEN status ELSE None]
    /\ Finish(r)
    /\ UNCHANGED <<subs, ships, nextShip, fails, raced>>

-----------------------------------------------------------------------------
(* The other writers.                                                       *)

\* POST shipments: one INSERT, no message.
Create(s, status) ==
    /\ nextShip <= MaxShips
    /\ ships' = [ships EXCEPT ![nextShip] = [sub |-> s, status |-> status]]
    /\ told' = [told EXCEPT ![nextShip] = {Upper(status)} \intersect Pushed]
    /\ nextShip' = nextShip + 1
    /\ UNCHANGED <<subs, slot, fails, last, raced>>

RemoveRead(r, x) ==
    /\ Stored(x)
    /\ Accept(r, x, [Idle EXCEPT !.pc = "delete"])
    /\ UNCHANGED <<subs, ships, nextShip, fails, told, last>>

Delete(r) ==
    /\ At(r, "delete")
    /\ ships' = [ships EXCEPT ![slot[r].ship] = NoRow]
    /\ told' = [told EXCEPT ![slot[r].ship] = {}]
    /\ last' = [last EXCEPT ![slot[r].ship] = None]
    /\ Finish(r)
    /\ UNCHANGED <<subs, nextShip, fails, raced>>

\* The dashboard of u (ensureInitialShipments): the ACTIVE subscriptions without a
\* shipment. Its two reads are taken as one; SubscriptionLifecycle has them apart.
ShipFind(r, u) ==
    /\ At(r, "idle")
    /\ LET lacking == {s \in Subs : OwnerOf[s] = u /\ subs[s] = "ACTIVE" /\ OfSub(s) = {}}
       IN  lacking # {} /\ Move(r, [Idle EXCEPT !.pc = "shipInsert", !.lacking = lacking])
    /\ UNCHANGED <<subs, ships, nextShip, fails, told, last, raced>>

\* One save() of all of them: ids in any order.
ShipInsert(r) ==
    /\ At(r, "shipInsert")
    /\ nextShip + Cardinality(slot[r].lacking) <= MaxShips + 1
    /\ LET new == nextShip .. nextShip + Cardinality(slot[r].lacking) - 1
       IN  \E subOf \in [new -> slot[r].lacking] :
             /\ \A x, y \in new : subOf[x] = subOf[y] => x = y
             /\ ships' = [x \in ShipIds |->
                            IF x \in new
                            THEN [sub |-> subOf[x], status |-> "PENDING"]
                            ELSE ships[x]]
    /\ nextShip' = nextShip + Cardinality(slot[r].lacking)
    /\ Finish(r)
    /\ UNCHANGED <<subs, fails, told, last, raced>>

\* Pause, resume, cancel, and what an admin sets (SubscriptionLifecycle has them in
\* detail).
ChangeSubscription(s, status) ==
    /\ subs[s] # status
    /\ subs' = [subs EXCEPT ![s] = status]
    /\ UNCHANGED <<ships, nextShip, slot, fails, told, last, raced>>

\* An awaited call throws, or the instance dies.
Fail(r) ==
    /\ ~At(r, "idle") /\ fails < MaxFails
    /\ fails' = fails + 1
    /\ Finish(r)
    /\ UNCHANGED <<subs, ships, nextShip, told, last, raced>>

-----------------------------------------------------------------------------

Arrive(r) ==
    \/ \E x \in ShipIds :
        \/ \E dto \in [status : PatchStatuses \union {None}, sub : Subs \union {None}] :
              UpdateRead(r, x, dto)
        \/ \E status \in PutStatuses : StatusRead(r, x, status)
        \/ RemoveRead(r, x)
    \/ \E u \in Users : ShipFind(r, u)

Continue(r) == Write(r) \/ Reread(r) \/ Push(r) \/ Delete(r) \/ ShipInsert(r)

Next ==
    \/ \E r \in Requests : Arrive(r) \/ Continue(r) \/ Fail(r)
    \/ \E s \in Subs, status \in CreateStatuses : Create(s, status)
    \/ \E s \in Subs, status \in {"ACTIVE", "PAUSED", "CANCELLED"} : ChangeSubscription(s, status)

Spec == Init /\ [][Next]_vars

-----------------------------------------------------------------------------
(* Properties. *)

\* However changes of one shipment overlap, when all is done and no call failed, the
\* status of a shipment is the one it was inserted with or was sent to the subscriber
\* at some time: no race of two reads keeps both requests from announcing it.
EveryStatusAnnounced ==
    Quiet /\ fails = 0 =>
        \A x \in ShipIds : Stored(x) /\ Upper(ships[x].status) \in Pushed =>
            Upper(ships[x].status) \in told[x]

\* Of a shipment whose changes did not overlap, the last message, if it arrived, is
\* still right, unless the status became one that is not announced.
LastPushTrue ==
    Quiet /\ fails = 0 =>
        \A x \in ShipIds : Stored(x) /\ x \notin raced /\ last[x] # None =>
            Upper(ships[x].status) = last[x] \/ Upper(ships[x].status) \notin Pushed

=============================================================================
