--------------------------- MODULE Shipments_proofs ---------------------------
(***************************************************************************)
(* Type correctness of Shipments; that no race of changes keeps a status   *)
(* from being announced; that the last message about a shipment whose      *)
(* changes do not overlap stays true; and that the dashboard shows what    *)
(* is packed: for any number of requests, shipments, subscriptions, users. *)
(***************************************************************************)
EXTENDS Shipments, FiniteSetTheorems, TLAPS

-----------------------------------------------------------------------------
(* Types. *)

\* A handler that works on a shipment knows which, and announces what is announced.
Busy(l) ==
    /\ l.pc \in {"write", "reread", "push", "delete"} => l.ship \in ShipIds
    /\ l.pc = "push" => Upper(l.dto.status) \in Pushed

TypeInv == TypeOK /\ \A r \in Requests : Busy(slot[r])

LEMMA Units == NoRow \in Rows /\ NoDto \in Dtos /\ Idle \in Locals /\ Busy(Idle)
<1>1. NoRow \in Rows /\ NoDto \in Dtos
  BY DEF NoRow, Rows, NoDto, Dtos
<1>2. Idle \in Locals
  BY <1>1 DEF Idle, Locals, NoShip
<1>3. QED
  BY <1>1, <1>2 DEF Busy, Idle

LEMMA TypeInit == Init => TypeInv
<1> SUFFICES ASSUME Init PROVE TypeInv
  OBVIOUS
<1>1. TypeOK
  BY Units, ShipmentsAssumption DEF Init, TypeOK
<1>2. QED
  BY <1>1, Units DEF Init, TypeInv

\* What a slot is given decides whether the slots stay well formed.
LEMMA SlotTypes ==
    ASSUME TypeInv, NEW r \in Requests, NEW l \in Locals, Busy(l), Move(r, l)
    PROVE  slot' \in [Requests -> Locals] /\ (\A q \in Requests : Busy(slot[q]))'
<1>1. slot' \in [Requests -> Locals]
  BY DEF TypeInv, TypeOK, Move
<1>2. \A q \in Requests : slot'[q] = IF q = r THEN l ELSE slot[q]
  BY DEF TypeInv, TypeOK, Move
<1>3. QED
  BY <1>1, <1>2 DEF TypeInv, Busy

LEMMA TypeStep == TypeInv /\ [Next]_vars => TypeInv'
<1> SUFFICES ASSUME TypeInv, [Next]_vars PROVE TypeInv'
  OBVIOUS
<1> USE Units
<1>0. ASSUME NEW r \in Requests, NEW x \in ShipIds, NEW l \in Locals, l.pc \in {"write", "delete"},
             Accept(r, x, l), UNCHANGED <<subs, ships, nextShip, fails, told, last>>
      PROVE  TypeInv'
  <2>1. [l EXCEPT !.ship = x] \in Locals
    BY <1>0 DEF Locals
  <2>2. Busy([l EXCEPT !.ship = x])
    BY <1>0 DEF Busy, Locals
  <2>3. slot' \in [Requests -> Locals] /\ (\A q \in Requests : Busy(slot[q]))'
    BY <1>0, <2>1, <2>2, SlotTypes DEF Accept
  <2>4. raced' \in SUBSET ShipIds
    BY <1>0 DEF Accept, TypeInv, TypeOK
  <2>5. QED
    BY <1>0, <2>3, <2>4 DEF TypeInv, TypeOK
<1>1. ASSUME NEW r \in Requests, Arrive(r) PROVE TypeInv'
  <2>1. ASSUME NEW x \in ShipIds, NEW st \in PatchStatuses \union {None}, NEW s \in Subs \union {None},
               UpdateRead(r, x, [status |-> st, sub |-> s])
        PROVE  TypeInv'
    <3> DEFINE dto == [status |-> st, sub |-> s]
               ann == /\ dto.status # None
                      /\ Upper(dto.status) # Upper(ships[x].status)
               l   == [Idle EXCEPT !.pc = "write", !.dto = dto, !.announce = ann]
    <3>1. dto \in Dtos
      BY <2>1, ShipmentsAssumption DEF Dtos
    <3>2. ann \in BOOLEAN
      OBVIOUS
    <3>3. l \in Locals /\ l.pc = "write"
      <4> HIDE DEF dto, ann
      <4>1. QED
        BY <3>1, <3>2 DEF Locals, Idle
    <3>4. QED
      BY <1>0, <2>1, <3>3 DEF UpdateRead
  <2>2. ASSUME NEW x \in ShipIds, NEW status \in PutStatuses, StatusRead(r, x, status)
        PROVE  TypeInv'
    <3> DEFINE l == [Idle EXCEPT !.pc = "write", !.dto = [NoDto EXCEPT !.status = status],
                                 !.announce = TRUE]
    <3>1. [NoDto EXCEPT !.status = status] \in Dtos
      BY ShipmentsAssumption DEF Dtos, NoDto, Statuses
    <3>2. l \in Locals /\ l.pc = "write"
      BY <3>1 DEF Locals, Idle
    <3>3. QED
      BY <1>0, <2>2, <3>2 DEF StatusRead
  <2>3. ASSUME NEW x \in ShipIds, RemoveRead(r, x) PROVE TypeInv'
    <3>1. [Idle EXCEPT !.pc = "delete"] \in Locals
      BY DEF Locals, Idle
    <3>2. [Idle EXCEPT !.pc = "delete"].pc = "delete"
      BY DEF Idle
    <3>3. QED
      BY <1>0, <2>3, <3>1, <3>2 DEF RemoveRead
  <2>4. ASSUME NEW u \in Users, ShipFind(r, u) PROVE TypeInv'
    <3> DEFINE lacking == {s \in Subs : OwnerOf[s] = u /\ subs[s] = "ACTIVE" /\ OfSub(s) = {}}
               l       == [Idle EXCEPT !.pc = "shipInsert", !.lacking = lacking]
    <3>1. lacking \in SUBSET Subs
      OBVIOUS
    <3>2. l \in Locals /\ Busy(l)
      <4> HIDE DEF lacking
      <4>1. QED
        BY <3>1 DEF Locals, Idle, Busy
    <3>3. Move(r, l)
      BY <2>4 DEF ShipFind
    <3>4. slot' \in [Requests -> Locals] /\ (\A q \in Requests : Busy(slot[q]))'
      BY <3>2, <3>3, SlotTypes
    <3>5. QED
      BY <2>4, <3>4 DEF ShipFind, TypeInv, TypeOK
  <2>5. ASSUME NEW x \in ShipIds,
               NEW dto \in [status : PatchStatuses \union {None}, sub : Subs \union {None}],
               UpdateRead(r, x, dto)
        PROVE  TypeInv'
    <3>1. dto = [status |-> dto.status, sub |-> dto.sub]
      OBVIOUS
    <3>2. dto.status \in PatchStatuses \union {None} /\ dto.sub \in Subs \union {None}
      OBVIOUS
    <3>3. UpdateRead(r, x, [status |-> dto.status, sub |-> dto.sub])
      BY <2>5, <3>1
    <3>4. QED
      BY <2>1, <3>2, <3>3
  <2>6. QED
    BY <1>1, <2>2, <2>3, <2>4, <2>5 DEF Arrive
<1>2. ASSUME NEW r \in Requests, Finish(r) \/ Fail(r) PROVE
             slot' \in [Requests -> Locals] /\ (\A q \in Requests : Busy(slot[q]))'
  BY <1>2, SlotTypes DEF Finish, Fail
<1>3. ASSUME NEW r \in Requests, Write(r) PROVE TypeInv'
  <2> DEFINE l == [slot[r] EXCEPT !.pc = "reread", !.dto.sub = None]
             x == slot[r].ship
  <2>1. slot[r] \in Locals /\ slot[r].dto \in Dtos /\ x \in ShipIds
    BY <1>3 DEF TypeInv, TypeOK, Locals, Write, At, Busy
  <2>2. l \in Locals /\ Busy(l)
    BY <2>1 DEF Locals, Dtos, Busy
  <2>3. slot' \in [Requests -> Locals] /\ (\A q \in Requests : Busy(slot[q]))'
    BY <1>3, <2>2, SlotTypes DEF Write
  <2>4. ships' \in [ShipIds -> Rows]
    <3>1. /\ OrElse(slot[r].dto.status, ships[x].status) \in Statuses \union {None}
          /\ OrElse(slot[r].dto.sub, ships[x].sub) \in Subs \union {None}
      BY <2>1 DEF OrElse, Dtos, TypeInv, TypeOK, Rows
    <3>2. QED
      BY <1>3, <2>1, <3>1 DEF Write, TypeInv, TypeOK, Rows
  <2>5. QED
    BY <1>3, <2>3, <2>4 DEF Write, TypeInv, TypeOK
<1>4. ASSUME NEW r \in Requests, Reread(r) PROVE TypeInv'
  <2>1. CASE Finish(r)
    BY <1>2, <1>4, <2>1 DEF Reread, TypeInv, TypeOK
  <2>2. CASE Upper(slot[r].dto.status) \in Pushed /\ Move(r, [slot[r] EXCEPT !.pc = "push"])
    <3>1. slot[r] \in Locals /\ slot[r].ship \in ShipIds
      BY <1>4 DEF TypeInv, TypeOK, Reread, At, Busy
    <3>2. [slot[r] EXCEPT !.pc = "push"] \in Locals /\ Busy([slot[r] EXCEPT !.pc = "push"])
      BY <2>2, <3>1 DEF Locals, Busy
    <3>3. slot' \in [Requests -> Locals] /\ (\A q \in Requests : Busy(slot[q]))'
      BY <2>2, <3>2, SlotTypes
    <3>4. QED
      BY <1>4, <3>3 DEF Reread, TypeInv, TypeOK
  <2>3. QED
    BY <1>4, <2>1, <2>2 DEF Reread
<1>5. ASSUME NEW r \in Requests, Push(r) PROVE TypeInv'
  <2> DEFINE status == Upper(slot[r].dto.status)
  <2>1. status \in Pushed /\ slot[r].ship \in ShipIds
    BY <1>5 DEF TypeInv, Push, At, Busy
  <2>2. told' \in [ShipIds -> SUBSET Pushed] /\ last' \in [ShipIds -> Pushed \union {None}]
    <3> HIDE DEF status
    <3>1. told' = [told EXCEPT ![slot[r].ship] = @ \union {status}]
      BY <1>5 DEF Push, status
    <3>2. PICK v \in {status, None} : last' = [last EXCEPT ![slot[r].ship] = v]
      BY <1>5 DEF Push, status
    <3>3. QED
      BY <2>1, <3>1, <3>2 DEF TypeInv, TypeOK
  <2>3. QED
    BY <1>2, <1>5, <2>2 DEF Push, TypeInv, TypeOK
<1>6. ASSUME NEW r \in Requests, Delete(r) PROVE TypeInv'
  BY <1>2, <1>6 DEF Delete, TypeInv, TypeOK
<1>7. ASSUME NEW r \in Requests, ShipInsert(r) PROVE TypeInv'
  <2> DEFINE n   == Cardinality(slot[r].lacking)
             new == nextShip .. nextShip + n - 1
  <2>1. PICK subOf \in [new -> slot[r].lacking] :
           ships' = [x \in ShipIds |-> IF x \in new
                                       THEN [sub |-> subOf[x], status |-> "PENDING"]
                                       ELSE ships[x]]
    BY <1>7 DEF ShipInsert
  <2>2. slot[r].lacking \subseteq Subs
    BY DEF TypeInv, TypeOK, Locals
  <2>3. ships' \in [ShipIds -> Rows]
    <3> HIDE DEF new
    <3>1. \A x \in new : subOf[x] \in Subs
      BY <2>2
    <3>2. QED
      BY <2>1, <3>1 DEF TypeInv, TypeOK, Rows, Statuses, Allowed
  <2>4. nextShip' \in 1 .. MaxShips + 1
    <3>1. n \in Nat
      BY <2>2, FS_Subset, FS_CardinalityType, ShipmentsAssumption
    <3> HIDE DEF n
    <3>2. nextShip + n <= MaxShips + 1 /\ nextShip' = nextShip + n
      BY <1>7 DEF ShipInsert, n
    <3>3. QED
      BY <3>1, <3>2, ShipmentsAssumption DEF TypeInv, TypeOK
  <2>5. QED
    BY <1>2, <1>7, <2>3, <2>4 DEF ShipInsert, TypeInv, TypeOK
<1>8. ASSUME NEW r \in Requests, Fail(r) PROVE TypeInv'
  BY <1>2, <1>8, ShipmentsAssumption DEF Fail, TypeInv, TypeOK
<1>9. ASSUME NEW s \in Subs, NEW status \in CreateStatuses, Create(s, status) PROVE TypeInv'
  BY <1>9, ShipmentsAssumption DEF Create, TypeInv, TypeOK, Rows, ShipIds
<1>10. ASSUME NEW s \in Subs, NEW status \in {"ACTIVE", "PAUSED", "CANCELLED"},
              ChangeSubscription(s, status)
       PROVE  TypeInv'
  BY <1>10 DEF ChangeSubscription, TypeInv, TypeOK
<1>11. CASE UNCHANGED vars
  BY <1>11 DEF vars, TypeInv, TypeOK
<1>12. QED
  BY <1>1, <1>3, <1>4, <1>5, <1>6, <1>7, <1>8, <1>9, <1>10, <1>11 DEF Next, Continue

LEMMA TypeInvariant == Spec => []TypeInv
<1>1. QED
  BY TypeInit, TypeStep, PTL DEF Spec

\* Rows, tables and the locals of every handler are well formed, for any number of
\* requests, shipments and subscriptions.
THEOREM TypeCorrect == Spec => []TypeOK
<1>1. TypeInv => TypeOK
  BY DEF TypeInv
<1>2. QED
  BY <1>1, TypeInvariant, PTL

-----------------------------------------------------------------------------
(* Announcements. *)

\* Request q has written a status of shipment x, and will announce it as S.
Announcing(q, x, S) ==
    /\ slot[q].ship = x /\ slot[q].pc \in {"reread", "push"}
    /\ slot[q].announce /\ Upper(slot[q].dto.status) = S

\* S was announced of x, or will be.
Owed(x, S) == S \in told[x] \/ \E q \in Requests : Announcing(q, x, S)

\* Ids that are still to be given are not in use.
Used ==
    /\ \A x \in ShipIds : Stored(x) => x < nextShip
    /\ \A r \in Requests : slot[r].ship < nextShip

\* The status of a row is owed; so is the one a request will write which does not
\* announce it, because the row had it when the request read the row.
RowOwed ==
    \A x \in ShipIds : Stored(x) /\ Upper(ships[x].status) \in Pushed
        => Owed(x, Upper(ships[x].status))
WriteOwed ==
    \A r \in Requests :
        /\ At(r, "write") /\ ~slot[r].announce /\ slot[r].dto.status # None
        /\ Stored(slot[r].ship) /\ Upper(slot[r].dto.status) \in Pushed
        => Owed(slot[r].ship, Upper(slot[r].dto.status))

AnnounceInv == TypeInv /\ Used /\ (fails = 0 => RowOwed /\ WriteOwed)

LEMMA AnnounceInit == Init => AnnounceInv
<1> SUFFICES ASSUME Init PROVE Used /\ RowOwed /\ WriteOwed
  BY TypeInit DEF AnnounceInv
<1>1. \A x \in ShipIds : ~Stored(x)
  BY DEF Init, Stored, NoRow
<1>2. \A r \in Requests : slot[r].pc = "idle" /\ slot[r].ship < nextShip
  BY DEF Init, Idle, NoShip
<1>3. QED
  BY <1>1, <1>2 DEF Used, RowOwed, WriteOwed, At

\* A debt stays until it is paid: told only grows, and the slot that changes was not
\* the one that owed, or still owes, or has paid.
LEMMA OwedStays ==
    ASSUME TypeInv, NEW r \in Requests, NEW l, Move(r, l),
           NEW x \in ShipIds, NEW S, Owed(x, S),
           told[x] \subseteq told'[x],
           Announcing(r, x, S) => S \in told'[x] \/ Announcing(r, x, S)'
    PROVE  Owed(x, S)'
<1>1. CASE S \in told[x]
  BY <1>1 DEF Owed
<1>2. ASSUME NEW q \in Requests, Announcing(q, x, S) PROVE Owed(x, S)'
  <2>1. CASE q = r
    BY <1>2, <2>1 DEF Owed
  <2>2. CASE q # r
    <3>1. slot'[q] = slot[q]
      BY <2>2 DEF Move, TypeInv, TypeOK
    <3>2. QED
      BY <1>2, <3>1 DEF Owed, Announcing
  <2>3. QED
    BY <2>1, <2>2
<1>3. QED
  BY <1>1, <1>2 DEF Owed

\* A slot that only begins or ends, and was not announcing, changes no debt.
LEMMA BeginOrEnd ==
    ASSUME AnnounceInv, fails = 0, NEW r \in Requests, NEW l, Move(r, l),
           slot[r].pc \notin {"reread", "push"}, l.pc # "write",
           UNCHANGED <<ships, told>>
    PROVE  RowOwed' /\ WriteOwed'
<1>1. ASSUME NEW x \in ShipIds, NEW S, Owed(x, S) PROVE Owed(x, S)'
  BY <1>1, OwedStays DEF AnnounceInv, Announcing
<1>2. RowOwed'
  BY <1>1 DEF AnnounceInv, RowOwed, Stored
<1>3. \A q \in Requests : slot'[q] = IF q = r THEN l ELSE slot[q]
  BY DEF Move, AnnounceInv, TypeInv, TypeOK
<1>4. ASSUME NEW q \in Requests, At(q, "write")', slot'[q].dto.status # None, ~slot'[q].announce,
             Stored(slot[q].ship)', Upper(slot'[q].dto.status) \in Pushed
      PROVE  Owed(slot[q].ship, Upper(slot[q].dto.status))'
  <2>1. slot'[q] = slot[q] /\ At(q, "write") /\ slot[q].ship \in ShipIds
    BY <1>3, <1>4 DEF At, AnnounceInv, TypeInv, Busy
  <2>2. Owed(slot[q].ship, Upper(slot[q].dto.status))
    BY <1>4, <2>1 DEF AnnounceInv, WriteOwed, Stored
  <2>3. QED
    BY <1>1, <2>1, <2>2 DEF Owed, Announcing
<1>5. QED
  BY <1>2, <1>4 DEF WriteOwed

\* A request begins to change shipment x: if it will not announce what it writes, the
\* row has that status already, in some spelling.
LEMMA BeginChange ==
    ASSUME AnnounceInv, fails = 0, NEW r \in Requests, NEW l, Move(r, l),
           At(r, "idle"), NEW x \in ShipIds, l.ship = x, Stored(x),
           ~l.announce /\ l.dto.status # None => Upper(l.dto.status) = Upper(ships[x].status),
           UNCHANGED <<ships, told>>
    PROVE  RowOwed' /\ WriteOwed'
<1>1. ASSUME NEW y \in ShipIds, NEW S, Owed(y, S) PROVE Owed(y, S)'
  BY <1>1, OwedStays DEF AnnounceInv, Announcing, At
<1>2. RowOwed'
  BY <1>1 DEF AnnounceInv, RowOwed, Stored
<1>3. \A q \in Requests : slot'[q] = IF q = r THEN l ELSE slot[q]
  BY DEF Move, AnnounceInv, TypeInv, TypeOK
<1>4. ASSUME NEW q \in Requests, At(q, "write")', slot'[q].dto.status # None, ~slot'[q].announce,
             Stored(slot[q].ship)', Upper(slot'[q].dto.status) \in Pushed
      PROVE  Owed(slot[q].ship, Upper(slot[q].dto.status))'
  <2>1. CASE q = r
    <3>1. Owed(x, Upper(ships[x].status))'
      BY <1>1, <1>3, <1>4, <2>1 DEF AnnounceInv, RowOwed
    <3>2. slot'[q].ship = x /\ Upper(slot'[q].dto.status) = Upper(ships'[x].status)
      BY <1>3, <1>4, <2>1
    <3>3. QED
      BY <3>1, <3>2 DEF Owed, Announcing
  <2>2. CASE q # r
    <3>1. slot'[q] = slot[q] /\ At(q, "write") /\ slot[q].ship \in ShipIds
      BY <1>3, <1>4, <2>2 DEF At, AnnounceInv, TypeInv, Busy
    <3>2. Owed(slot[q].ship, Upper(slot[q].dto.status))
      BY <1>4, <3>1 DEF AnnounceInv, WriteOwed, Stored
    <3>3. QED
      BY <1>1, <3>1, <3>2 DEF Owed, Announcing
  <2>3. QED
    BY <2>1, <2>2
<1>5. QED
  BY <1>2, <1>4 DEF WriteOwed

\* What the other requests will write without a word stays owed where debts stay.
LEMMA OthersOwed ==
    ASSUME AnnounceInv, fails = 0, NEW r \in Requests, NEW l, Move(r, l), l.pc # "write",
           \A x \in ShipIds : Stored(x)' => Stored(x) \/ x >= nextShip,
           \A x \in ShipIds, S \in Pushed : Stored(x) /\ Stored(x)' /\ Owed(x, S) => Owed(x, S)'
    PROVE  WriteOwed'
<1>1. ASSUME NEW q \in Requests, At(q, "write")', slot'[q].dto.status # None, ~slot'[q].announce,
             Stored(slot[q].ship)', Upper(slot'[q].dto.status) \in Pushed
      PROVE  Owed(slot[q].ship, Upper(slot[q].dto.status))'
  <2>1. slot'[q] = slot[q] /\ At(q, "write") /\ slot[q].ship \in ShipIds
    BY <1>1 DEF Move, At, AnnounceInv, TypeInv, TypeOK, Busy
  <2>2. PICK x \in ShipIds : x = slot[q].ship
    BY <2>1
  <2>3. PICK S \in Pushed : S = Upper(slot[q].dto.status)
    BY <1>1, <2>1
  <2>4. Stored(x) /\ Stored(x)'
    <3>1. ~(x >= nextShip)
      BY <2>2 DEF AnnounceInv, Used, TypeInv, TypeOK, ShipIds
    <3>2. Stored(x)'
      BY <1>1, <2>1, <2>2 DEF Stored
    <3>3. QED
      BY <3>1, <3>2
  <2>5. Owed(x, S)
    <3>1. Stored(slot[q].ship)
      BY <2>2, <2>4 DEF Stored
    <3>2. Owed(slot[q].ship, Upper(slot[q].dto.status))
      BY <1>1, <2>1, <3>1 DEF AnnounceInv, WriteOwed
    <3>3. QED
      BY <2>2, <2>3, <3>2 DEF Owed, Announcing
  <2>6. Owed(x, S)'
    BY <2>4, <2>5
  <2>7. QED
    BY <2>1, <2>2, <2>3, <2>6 DEF Owed, Announcing
<1>2. QED
  BY <1>1 DEF WriteOwed

\* Ids given are below the next one, whatever the step.
LEMMA UsedStep == TypeInv /\ Used /\ [Next]_vars => Used'
<1> SUFFICES ASSUME TypeInv, Used, [Next]_vars PROVE Used'
  OBVIOUS
<1>0. /\ \A x \in ShipIds : ships[x] \in Rows /\ x \in Nat
      /\ nextShip \in Nat /\ 0 < nextShip
      /\ \A q \in Requests : slot[q].ship \in Nat
  BY ShipmentsAssumption DEF TypeInv, TypeOK, Locals, ShipIds, NoShip
<1>1. ASSUME NEW r \in Requests, NEW l, Move(r, l), l.ship < nextShip,
             UNCHANGED <<ships, nextShip>>
      PROVE  Used'
  BY <1>1 DEF Move, Used, Stored, TypeInv, TypeOK
<1>2. ASSUME NEW r \in Requests, NEW x \in ShipIds, NEW l \in Locals, Stored(x), Accept(r, x, l),
             UNCHANGED <<ships, nextShip>>
      PROVE  Used'
  <2>1. [l EXCEPT !.ship = x].ship = x
    BY DEF Locals
  <2>2. QED
    BY <1>1, <1>2, <2>1 DEF Accept, Used
<1>3. Idle \in Locals /\ Idle.ship = 0
  BY Units DEF Idle, NoShip
<1>4. ASSUME NEW r \in Requests, Finish(r), UNCHANGED <<ships, nextShip>> PROVE Used'
  BY <1>0, <1>1, <1>3, <1>4 DEF Finish
<1>5. ASSUME NEW r \in Requests, Arrive(r) PROVE Used'
  <2>1. ASSUME NEW x \in ShipIds, NEW dto, UpdateRead(r, x, dto) PROVE Used'
    <3> DEFINE l == [Idle EXCEPT !.pc = "write", !.dto = dto,
                        !.announce = /\ dto.status # None
                                     /\ Upper(dto.status) # Upper(ships[x].status)]
    <3>1. [l EXCEPT !.ship = x].ship = x
      BY DEF Idle
    <3>2. Move(r, [l EXCEPT !.ship = x]) /\ Stored(x) /\ UNCHANGED <<ships, nextShip>>
      BY <2>1 DEF UpdateRead, Accept
    <3> HIDE DEF l
    <3>3. QED
      BY <1>1, <3>1, <3>2 DEF Used
  <2>2. ASSUME NEW x \in ShipIds, NEW status, StatusRead(r, x, status) PROVE Used'
    <3> DEFINE l == [Idle EXCEPT !.pc = "write", !.dto = [NoDto EXCEPT !.status = status],
                                 !.announce = TRUE]
    <3>1. [l EXCEPT !.ship = x].ship = x
      BY DEF Idle
    <3>2. Move(r, [l EXCEPT !.ship = x]) /\ Stored(x) /\ UNCHANGED <<ships, nextShip>>
      BY <2>2 DEF StatusRead, Accept
    <3> HIDE DEF l
    <3>3. QED
      BY <1>1, <3>1, <3>2 DEF Used
  <2>3. ASSUME NEW x \in ShipIds, RemoveRead(r, x) PROVE Used'
    <3>1. [Idle EXCEPT !.pc = "delete"] \in Locals
      BY <1>3 DEF Locals
    <3>2. QED
      BY <1>2, <2>3, <3>1 DEF RemoveRead
  <2>4. ASSUME NEW u \in Users, ShipFind(r, u) PROVE Used'
    <3> DEFINE lacking == {s \in Subs : OwnerOf[s] = u /\ subs[s] = "ACTIVE" /\ OfSub(s) = {}}
               l       == [Idle EXCEPT !.pc = "shipInsert", !.lacking = lacking]
    <3>1. Move(r, l) /\ UNCHANGED <<ships, nextShip>>
      BY <2>4 DEF ShipFind
    <3>2. l.ship = 0
      BY DEF Idle, NoShip
    <3> HIDE DEF l
    <3>3. QED
      BY <1>0, <1>1, <3>1, <3>2
  <2>5. QED
    BY <1>5, <2>1, <2>2, <2>3, <2>4 DEF Arrive
<1>6. ASSUME NEW r \in Requests, Write(r) PROVE Used'
  <2> DEFINE x == slot[r].ship
  <2>1. slot[r] \in Locals /\ slot[r].dto \in Dtos
    BY DEF TypeInv, TypeOK, Locals
  <2>2. \A q \in Requests : slot'[q].ship = slot[q].ship
    BY <1>6, <2>1 DEF Write, Move, TypeInv, TypeOK, Locals
  <2>3. \A y \in ShipIds : y # x \/ ~Stored(x) => ships'[y] = ships[y]
    BY <1>6 DEF Write, TypeInv, TypeOK
  <2>4. \A y \in ShipIds : Stored(y)' => Stored(y)
    BY <2>3 DEF Stored
  <2>5. QED
    BY <1>6, <2>2, <2>4 DEF Write, Used
<1>7. ASSUME NEW r \in Requests, Reread(r) PROVE Used'
  <2>1. [slot[r] EXCEPT !.pc = "push"].ship = slot[r].ship
    BY DEF TypeInv, TypeOK, Locals
  <2>2. slot[r].ship < nextShip /\ UNCHANGED <<ships, nextShip>>
    BY <1>7 DEF Used, Reread
  <2>3. Move(r, [slot[r] EXCEPT !.pc = "push"]) \/ Finish(r)
    BY <1>7 DEF Reread
  <2>4. QED
    BY <1>1, <1>4, <2>1, <2>2, <2>3
<1>8. ASSUME NEW r \in Requests, Push(r) \/ Fail(r) PROVE Used'
  BY <1>4, <1>8 DEF Push, Fail
<1>9. ASSUME NEW r \in Requests, Delete(r) PROVE Used'
  <2>1. \A y \in ShipIds : Stored(y)' => Stored(y)
    BY <1>9 DEF Delete, Stored, NoRow, TypeInv, TypeOK
  <2>2. \A q \in Requests : slot'[q].ship = 0 \/ slot'[q].ship = slot[q].ship
    BY <1>3, <1>9 DEF Delete, Finish, Move, TypeInv, TypeOK
  <2>3. QED
    BY <1>0, <1>9, <2>1, <2>2 DEF Delete, Used
<1>10. ASSUME NEW r \in Requests, ShipInsert(r) PROVE Used'
  <2> DEFINE n   == Cardinality(slot[r].lacking)
             new == nextShip .. nextShip + n - 1
  <2>1. n \in Nat
    <3>1. slot[r].lacking \subseteq Subs
      BY DEF TypeInv, TypeOK, Locals
    <3>2. QED
      BY <3>1, FS_Subset, FS_CardinalityType, ShipmentsAssumption
  <2>2. nextShip' = nextShip + n
    BY <1>10 DEF ShipInsert
  <2>3. \A x \in ShipIds : x \in new \/ ships'[x] = ships[x]
    BY <1>10 DEF ShipInsert
  <2>4. \A q \in Requests : slot'[q].ship = 0 \/ slot'[q].ship = slot[q].ship
    BY <1>3, <1>10 DEF ShipInsert, Finish, Move, TypeInv, TypeOK
  <2>5. \A x \in ShipIds : Stored(x)' => x < nextShip + n
    <3> HIDE DEF n
    <3>1. \A x \in ShipIds : Stored(x)' => x \in new \/ Stored(x)
      BY <2>3 DEF Stored
    <3>2. QED
      BY <1>0, <2>1, <3>1 DEF Used
  <2>6. \A q \in Requests : slot'[q].ship < nextShip + n
    <3> HIDE DEF n
    <3>1. QED
      BY <1>0, <2>1, <2>4 DEF Used
  <2>7. QED
    BY <2>2, <2>5, <2>6 DEF Used
<1>11. ASSUME NEW s \in Subs, NEW status \in CreateStatuses, Create(s, status) PROVE Used'
  <2>1. \A x \in ShipIds : x # nextShip => ships'[x] = ships[x]
    BY <1>11 DEF Create, TypeInv, TypeOK
  <2>2. QED
    BY <1>0, <1>11, <2>1 DEF Create, Used, Stored
<1>12. ASSUME NEW s \in Subs, NEW status \in {"ACTIVE", "PAUSED", "CANCELLED"},
              ChangeSubscription(s, status)
       PROVE  Used'
  BY <1>12 DEF ChangeSubscription, Used, Stored
<1>13. CASE UNCHANGED vars
  BY <1>13 DEF vars, Used, Stored
<1>14. QED
  BY <1>5, <1>6, <1>7, <1>8, <1>9, <1>10, <1>11, <1>12, <1>13 DEF Next, Continue

\* Only a handler that fails counts, and it counts one: what a property says of runs
\* without a failure is about every state before it too.
LEMMA FailuresCount ==
    ASSUME TypeInv, [Next]_vars
    PROVE  /\ fails' = fails \/ \E r \in Requests : Fail(r)
           /\ fails' = 0 => fails = 0
<1>1. ASSUME ~\E r \in Requests : Fail(r) PROVE fails' = fails
  BY <1>1 DEF Next, vars, Arrive, Continue, Create, ChangeSubscription, UpdateRead, StatusRead,
     RemoveRead, ShipFind, Write, Reread, Push, Delete, ShipInsert
<1>2. fails \in Nat
  BY ShipmentsAssumption DEF TypeInv, TypeOK
<1>3. QED
  BY <1>1, <1>2 DEF Fail

LEMMA OwedStep ==
    ASSUME AnnounceInv, fails = 0, [Next]_vars, fails' = 0
    PROVE  RowOwed' /\ WriteOwed'
<1>0. TypeInv /\ RowOwed /\ WriteOwed
  BY DEF AnnounceInv
<1>1. ASSUME NEW r \in Requests, Arrive(r) PROVE RowOwed' /\ WriteOwed'
  <2>1. ASSUME NEW x \in ShipIds, NEW dto, UpdateRead(r, x, dto) PROVE RowOwed' /\ WriteOwed'
    <3> DEFINE ann == /\ dto.status # None
                      /\ Upper(dto.status) # Upper(ships[x].status)
               l   == [[Idle EXCEPT !.pc = "write", !.dto = dto, !.announce = ann]
                          EXCEPT !.ship = x]
    <3>1. l.ship = x /\ l.announce = ann /\ l.dto = dto
      BY DEF Idle
    <3>2. Move(r, l) /\ At(r, "idle") /\ Stored(x) /\ UNCHANGED <<ships, told>>
      BY <2>1 DEF UpdateRead, Accept
    <3> HIDE DEF l
    <3>3. ~l.announce /\ l.dto.status # None => Upper(l.dto.status) = Upper(ships[x].status)
      BY <3>1
    <3>4. QED
      BY <3>1, <3>2, <3>3, BeginChange
  <2>2. ASSUME NEW x \in ShipIds, NEW status, StatusRead(r, x, status)
        PROVE  RowOwed' /\ WriteOwed'
    <3> DEFINE l == [[Idle EXCEPT !.pc = "write", !.dto = [NoDto EXCEPT !.status = status],
                                  !.announce = TRUE] EXCEPT !.ship = x]
    <3>1. l.ship = x /\ l.announce = TRUE
      BY DEF Idle
    <3>2. Move(r, l) /\ At(r, "idle") /\ Stored(x) /\ UNCHANGED <<ships, told>>
      BY <2>2 DEF StatusRead, Accept
    <3> HIDE DEF l
    <3>3. QED
      BY <3>1, <3>2, BeginChange
  <2>3. ASSUME NEW x \in ShipIds, RemoveRead(r, x) PROVE RowOwed' /\ WriteOwed'
    <3> DEFINE l == [[Idle EXCEPT !.pc = "delete"] EXCEPT !.ship = x]
    <3>1. l.pc = "delete"
      BY DEF Idle
    <3>2. Move(r, l) /\ At(r, "idle") /\ UNCHANGED <<ships, told>>
      BY <2>3 DEF RemoveRead, Accept
    <3> HIDE DEF l
    <3>3. QED
      BY <3>1, <3>2, BeginOrEnd DEF At
  <2>4. ASSUME NEW u \in Users, ShipFind(r, u) PROVE RowOwed' /\ WriteOwed'
    <3> DEFINE lacking == {s \in Subs : OwnerOf[s] = u /\ subs[s] = "ACTIVE" /\ OfSub(s) = {}}
               l       == [Idle EXCEPT !.pc = "shipInsert", !.lacking = lacking]
    <3>1. l.pc = "shipInsert"
      BY DEF Idle
    <3>2. Move(r, l) /\ At(r, "idle") /\ UNCHANGED <<ships, told>>
      BY <2>4 DEF ShipFind
    <3> HIDE DEF l
    <3>3. QED
      BY <3>1, <3>2, BeginOrEnd DEF At
  <2>5. QED
    BY <1>1, <2>1, <2>2, <2>3, <2>4 DEF Arrive
<1>i. Idle.pc = "idle"
  BY DEF Idle
<1>2. ASSUME NEW r \in Requests, Write(r) PROVE RowOwed' /\ WriteOwed'
  <2> DEFINE w == slot[r].ship
             l == [slot[r] EXCEPT !.pc = "reread", !.dto.sub = None]
  <2>1. w \in ShipIds /\ At(r, "write") /\ slot[r] \in Locals /\ slot[r].dto \in Dtos
    BY <1>0, <1>2 DEF Write, At, TypeInv, TypeOK, Busy, Locals
  <2>2. /\ l.pc = "reread" /\ l.ship = w /\ l.announce = slot[r].announce
        /\ l.dto.status = slot[r].dto.status
    BY <2>1 DEF Locals, Dtos
  <2>3. Move(r, l) /\ told' = told
    BY <1>2 DEF Write
  <2>4. slot'[r] = l
    BY <1>0, <2>3 DEF Move, TypeInv, TypeOK
  <2> HIDE DEF l
  <2>5. ASSUME NEW x \in ShipIds, NEW S, Owed(x, S) PROVE Owed(x, S)'
    BY <1>0, <2>1, <2>3, <2>5, OwedStays DEF Announcing, At
  <2>6. \A x \in ShipIds : x # w \/ ~Stored(x) => ships'[x] = ships[x]
    BY <1>0, <1>2 DEF Write, TypeInv, TypeOK
  <2>7. Stored(w) => ships'[w].status = OrElse(slot[r].dto.status, ships[w].status)
    BY <1>0, <1>2, <2>1 DEF Write, TypeInv, TypeOK, Rows
  <2>8. \A x \in ShipIds : Stored(x)' => Stored(x)
    BY <2>6 DEF Stored
  <2>9. ASSUME NEW x \in ShipIds, Stored(x)', NEW S \in Pushed, S = Upper(ships'[x].status)
        PROVE  Owed(x, S)'
    <3>1. Stored(x)
      BY <2>8, <2>9
    <3>2. CASE ships'[x].status = ships[x].status
      BY <1>0, <2>5, <2>9, <3>1, <3>2 DEF RowOwed
    <3>3. CASE x = w /\ slot[r].dto.status # None /\ ships'[x].status = slot[r].dto.status
      <4>1. CASE slot[r].announce
        BY <2>2, <2>4, <2>9, <3>3, <4>1 DEF Owed, Announcing
      <4>2. CASE ~slot[r].announce
        <5>1. Stored(slot[r].ship) /\ Upper(slot[r].dto.status) = S
          BY <2>9, <3>1, <3>3
        <5>2. Owed(slot[r].ship, Upper(slot[r].dto.status))
          BY <1>0, <2>1, <3>3, <4>2, <5>1 DEF WriteOwed
        <5>3. Owed(x, S)
          BY <3>3, <5>1, <5>2
        <5>4. QED
          BY <2>5, <5>3
      <4>3. QED
        BY <4>1, <4>2
    <3>4. QED
      BY <2>6, <2>7, <3>1, <3>2, <3>3 DEF OrElse
  <2>10. RowOwed'
    BY <2>9 DEF RowOwed, Owed, Announcing
  <2>11. WriteOwed'
    BY <2>2, <2>3, <2>5, <2>8, OthersOwed
  <2>12. QED
    BY <2>10, <2>11
<1>3. ASSUME NEW r \in Requests, Reread(r) PROVE RowOwed' /\ WriteOwed'
  <2>0. At(r, "reread") /\ UNCHANGED <<ships, told>> /\ slot[r] \in Locals
    BY <1>0, <1>3 DEF Reread, TypeInv, TypeOK
  <2>1. PICK l : Move(r, l) /\ l.pc # "write"
    <3>1. [slot[r] EXCEPT !.pc = "push"].pc = "push"
      BY <2>0 DEF Locals
    <3>2. QED
      BY <1>3, <1>i, <3>1 DEF Reread, Finish
  <2>2. ASSUME NEW x \in ShipIds, NEW S \in Pushed, Stored(x), Owed(x, S) PROVE Owed(x, S)'
    <3>1. CASE Announcing(r, x, S)
      <4>1. Move(r, [slot[r] EXCEPT !.pc = "push"])
        BY <1>3, <2>2, <3>1 DEF Reread, Announcing, Stored
      <4>2. slot'[r] = [slot[r] EXCEPT !.pc = "push"]
        BY <1>0, <4>1 DEF Move, TypeInv, TypeOK
      <4>3. Announcing(r, x, S)'
        BY <2>0, <3>1, <4>2 DEF Announcing, Locals
      <4>4. QED
        BY <4>3 DEF Owed
    <3>2. CASE ~Announcing(r, x, S)
      BY <1>0, <2>0, <2>1, <2>2, <3>2, OwedStays
    <3>3. QED
      BY <3>1, <3>2
  <2>3. RowOwed'
    BY <1>0, <2>0, <2>2 DEF RowOwed, Stored
  <2>4. WriteOwed'
    BY <2>0, <2>1, <2>2, OthersOwed DEF Stored
  <2>5. QED
    BY <2>3, <2>4
<1>4. ASSUME NEW r \in Requests, Push(r) PROVE RowOwed' /\ WriteOwed'
  <2> DEFINE w      == slot[r].ship
             status == Upper(slot[r].dto.status)
  <2>1. w \in ShipIds /\ ships' = ships /\ Move(r, Idle)
    BY <1>0, <1>4 DEF Push, At, TypeInv, Busy, Finish
  <2>2. told' = [told EXCEPT ![w] = @ \union {status}]
    BY <1>4 DEF Push
  <2>3. ASSUME NEW x \in ShipIds, NEW S \in Pushed, Owed(x, S) PROVE Owed(x, S)'
    <3>1. told[x] \subseteq told'[x]
      BY <1>0, <2>2 DEF TypeInv, TypeOK
    <3>2. Announcing(r, x, S) => S \in told'[x]
      BY <1>0, <2>1, <2>2 DEF Announcing, TypeInv, TypeOK
    <3>3. QED
      BY <1>0, <2>1, <2>3, <3>1, <3>2, OwedStays
  <2>4. RowOwed'
    BY <1>0, <2>1, <2>3 DEF RowOwed, Stored
  <2>5. WriteOwed'
    BY <1>i, <2>1, <2>3, OthersOwed DEF Stored
  <2>6. QED
    BY <2>4, <2>5
<1>5. ASSUME NEW r \in Requests, Delete(r) PROVE RowOwed' /\ WriteOwed'
  <2> DEFINE w == slot[r].ship
  <2>1. w \in ShipIds /\ At(r, "delete") /\ Move(r, Idle)
    BY <1>0, <1>5 DEF Delete, At, TypeInv, Busy, Finish
  <2>2. ships'[w].sub = None
    BY <1>0, <1>5, <2>1 DEF Delete, Stored, NoRow, TypeInv, TypeOK
  <2>3. \A x \in ShipIds : x # w => ships'[x] = ships[x] /\ told'[x] = told[x]
    BY <1>0, <1>5 DEF Delete, TypeInv, TypeOK
  <2>4. ASSUME NEW x \in ShipIds, NEW S \in Pushed, Stored(x)', Owed(x, S) PROVE Owed(x, S)'
    <3>1. x # w
      BY <2>2, <2>4 DEF Stored
    <3>2. QED
      BY <1>0, <2>1, <2>3, <2>4, <3>1, OwedStays DEF Announcing, At
  <2>5. \A x \in ShipIds : Stored(x)' => Stored(x) /\ ships'[x] = ships[x]
    BY <2>2, <2>3 DEF Stored
  <2>6. RowOwed'
    BY <1>0, <2>4, <2>5 DEF RowOwed
  <2>7. WriteOwed'
    BY <1>i, <2>1, <2>4, <2>5, OthersOwed
  <2>8. QED
    BY <2>6, <2>7
<1>6. ASSUME NEW r \in Requests, ShipInsert(r) PROVE RowOwed' /\ WriteOwed'
  <2> DEFINE new == nextShip .. nextShip + Cardinality(slot[r].lacking) - 1
  <2>1. At(r, "shipInsert") /\ Move(r, Idle) /\ told' = told
    BY <1>6 DEF ShipInsert, Finish
  <2>2. PICK subOf : ships' = [x \in ShipIds |-> IF x \in new
                                                 THEN [sub |-> subOf[x], status |-> "PENDING"]
                                                 ELSE ships[x]]
    BY <1>6 DEF ShipInsert
  <2>3. \A x \in ShipIds : ships'[x].status = "PENDING" \/ (x \notin new /\ ships'[x] = ships[x])
    BY <2>2
  <2>4. \A x \in ShipIds : Stored(x)' => Stored(x) \/ x >= nextShip
    <3>1. \A x \in ShipIds : x \in new => x >= nextShip
      BY <1>0 DEF TypeInv, TypeOK, ShipIds
    <3>2. QED
      BY <2>2, <3>1 DEF Stored
  <2>5. ASSUME NEW x \in ShipIds, NEW S, Owed(x, S) PROVE Owed(x, S)'
    BY <1>0, <2>1, <2>5, OwedStays DEF Announcing, At
  <2>6. RowOwed'
    <3>1. Upper("PENDING") \notin Pushed
      BY DEF Upper, Pushed
    <3>2. \A x \in ShipIds : Upper(ships'[x].status) \in Pushed => ships'[x] = ships[x]
      BY <2>3, <3>1
    <3>3. QED
      BY <1>0, <2>5, <3>2 DEF RowOwed, Stored
  <2>7. WriteOwed'
    BY <1>i, <2>1, <2>4, <2>5, OthersOwed
  <2>8. QED
    BY <2>6, <2>7
<1>7. ASSUME NEW r \in Requests, Fail(r) PROVE FALSE
  BY <1>7 DEF Fail
<1>8. ASSUME NEW s \in Subs, NEW status \in CreateStatuses, Create(s, status)
      PROVE  RowOwed' /\ WriteOwed'
  <2>1. slot' = slot /\ nextShip \in ShipIds
    BY <1>0, <1>8, ShipmentsAssumption DEF Create, TypeInv, TypeOK, ShipIds
  <2>2. \A x \in ShipIds : x # nextShip => ships'[x] = ships[x] /\ told'[x] = told[x]
    BY <1>0, <1>8 DEF Create, TypeInv, TypeOK
  <2>3. /\ ships'[nextShip].status = status
        /\ told'[nextShip] = {Upper(status)} \intersect Pushed
    BY <1>0, <1>8, <2>1 DEF Create, TypeInv, TypeOK
  <2>4. ASSUME NEW x \in ShipIds, x # nextShip, NEW S, Owed(x, S) PROVE Owed(x, S)'
    BY <2>1, <2>2, <2>4 DEF Owed, Announcing
  <2>5. RowOwed'
    <3>1. ASSUME NEW x \in ShipIds, Stored(x)', Upper(ships'[x].status) \in Pushed
          PROVE  Owed(x, Upper(ships[x].status))'
      <4>1. CASE x = nextShip
        BY <2>3, <3>1, <4>1 DEF Owed
      <4>2. CASE x # nextShip
        BY <1>0, <2>2, <2>4, <3>1, <4>2 DEF RowOwed, Stored
      <4>3. QED
        BY <4>1, <4>2
    <3>2. QED
      BY <3>1 DEF RowOwed
  <2>6. WriteOwed'
    <3>1. ASSUME NEW q \in Requests, At(q, "write"), ~slot[q].announce, slot[q].dto.status # None,
                 Stored(slot[q].ship)', Upper(slot[q].dto.status) \in Pushed
          PROVE  Owed(slot[q].ship, Upper(slot[q].dto.status))'
      <4>1. PICK x \in ShipIds : x = slot[q].ship
        BY <1>0, <3>1 DEF TypeInv, Busy, At
      <4>2. x # nextShip
        BY <1>0, <4>1 DEF AnnounceInv, Used, TypeInv, TypeOK
      <4>3. Stored(slot[q].ship)
        BY <2>1, <2>2, <3>1, <4>1, <4>2 DEF Stored
      <4>4. Owed(slot[q].ship, Upper(slot[q].dto.status))
        BY <1>0, <3>1, <4>3 DEF WriteOwed
      <4>5. QED
        BY <2>1, <2>2, <4>1, <4>2, <4>4 DEF Owed, Announcing
    <3>2. QED
      BY <2>1, <3>1 DEF WriteOwed, At
  <2>7. QED
    BY <2>5, <2>6
<1>9. ASSUME UNCHANGED <<ships, slot, told>> PROVE RowOwed' /\ WriteOwed'
  BY <1>0, <1>9 DEF RowOwed, WriteOwed, Owed, Announcing, Stored, At
<1>10. ASSUME NEW s \in Subs, NEW status \in {"ACTIVE", "PAUSED", "CANCELLED"},
              ChangeSubscription(s, status)
       PROVE  RowOwed' /\ WriteOwed'
  BY <1>9, <1>10 DEF ChangeSubscription
<1>11. CASE UNCHANGED vars
  BY <1>9, <1>11 DEF vars
<1>12. QED
  BY <1>1, <1>2, <1>3, <1>4, <1>5, <1>6, <1>7, <1>8, <1>10, <1>11 DEF Next, Continue

\* A failure ends the promise, and fails never goes back.
LEMMA AnnounceStep == AnnounceInv /\ [Next]_vars => AnnounceInv'
<1> SUFFICES ASSUME AnnounceInv, [Next]_vars PROVE AnnounceInv'
  OBVIOUS
<1>1. TypeInv' /\ Used'
  BY TypeStep, UsedStep DEF AnnounceInv
<1>2. fails' = 0 => fails = 0
  BY FailuresCount DEF AnnounceInv
<1>3. QED
  BY <1>1, <1>2, OwedStep DEF AnnounceInv

\* However many requests change, insert and delete shipments at once: while no call has
\* failed, a status of a shipment at rest has been sent to its subscriber.
THEOREM Announced == Spec => []EveryStatusAnnounced
<1>1. AnnounceInv => EveryStatusAnnounced
  BY DEF AnnounceInv, RowOwed, Owed, Announcing, EveryStatusAnnounced, Quiet, At
<1>2. QED
  BY <1>1, AnnounceInit, AnnounceStep, PTL DEF Spec

-----------------------------------------------------------------------------
(* The last message about a shipment whose changes did not overlap.         *)

\* What the request knows of its shipment while it is the only one: what it writes
\* without a word the row has already, and what it will announce the row has by now.
Knows(l) ==
    /\ l.announce => l.dto.status # None
    /\ l.pc = "push" => l.announce
    /\ l.ship \in ShipIds /\ l.ship \notin raced /\ Stored(l.ship) =>
        /\ l.pc = "write" /\ ~l.announce /\ l.dto.status # None
             => Upper(l.dto.status) = Upper(ships[l.ship].status)
        /\ l.pc \in {"reread", "push"} /\ l.announce
             => Upper(l.dto.status) = Upper(ships[l.ship].status)

Sole ==
    \A q, r \in Requests :
        /\ slot[q].ship \in ShipIds /\ slot[q].ship \notin raced
        /\ slot[q].ship = slot[r].ship
        => q = r

FollowInv ==
    /\ Used /\ Sole
    /\ \A r \in Requests : Knows(slot[r])
    /\ \A x \in ShipIds : last[x] # None => x < nextShip

LEMMA FollowInit == Init => FollowInv
BY AnnounceInit DEF Init, AnnounceInv, FollowInv, Sole, Knows, Idle, NoShip, ShipIds

\* A step of one slot that leaves alone the shipments of the others.
LEMMA FollowKept ==
    ASSUME TypeInv, FollowInv, NEW r \in Requests, NEW l, Move(r, l), raced \subseteq raced',
           \A x \in ShipIds : l.ship = x /\ x \notin raced'
               => slot[r].ship = x \/ \A q \in Requests : slot[q].ship # x,
           Knows(l)',
           \A q \in Requests : q # r /\ slot[q].ship \in ShipIds /\ slot[q].ship \notin raced
               => ships'[slot[q].ship] = ships[slot[q].ship]
    PROVE  Sole' /\ \A q \in Requests : Knows(slot[q])'
<1>1. slot'[r] = l /\ \A q \in Requests : q # r => slot'[q] = slot[q]
  BY DEF Move, TypeInv, TypeOK
<1>2. Sole'
  BY <1>1 DEF FollowInv, Sole
<1>3. ASSUME NEW q \in Requests PROVE Knows(slot[q])'
  <2>1. CASE q = r
    BY <1>1, <2>1 DEF Knows, Stored
  <2>2. CASE q # r
    <3>1. Knows(slot[q]) /\ slot'[q] = slot[q]
      BY <1>1, <2>2 DEF FollowInv
    <3>2. QED
      BY <2>2, <3>1 DEF Knows, Stored
  <2>3. QED
    BY <2>1, <2>2
<1>4. QED
  BY <1>2, <1>3

\* A request ends, whatever became of its shipment, or it begins.
LEMMA FollowFreed ==
    ASSUME TypeInv, FollowInv, NEW r \in Requests, Finish(r), UNCHANGED raced,
           \A q \in Requests : q # r /\ slot[q].ship \in ShipIds /\ slot[q].ship \notin raced
               => ships'[slot[q].ship] = ships[slot[q].ship]
    PROVE  Sole' /\ \A q \in Requests : Knows(slot[q])'
<1>1. Idle.ship \notin ShipIds /\ ~Idle.announce /\ Idle.pc = "idle"
  BY DEF Idle, NoShip, ShipIds
<1>2. Knows(Idle)'
  BY <1>1 DEF Knows
<1>3. QED
  BY <1>1, <1>2, FollowKept DEF Finish

LEMMA FollowArrive ==
    ASSUME TypeInv, FollowInv, NEW r \in Requests, Arrive(r)
    PROVE  Sole' /\ \A q \in Requests : Knows(slot[q])'
<1>0. ASSUME NEW x \in ShipIds, NEW l, Move(r, l), l.ship = x, UNCHANGED ships,
             raced' = IF \E q \in Requests : slot[q].ship = x THEN raced \union {x} ELSE raced,
             l.pc \notin {"reread", "push"},
             l.announce => l.dto.status # None,
             l.pc = "write" /\ ~l.announce /\ l.dto.status # None
               => Upper(l.dto.status) = Upper(ships[x].status)
      PROVE  Sole' /\ \A q \in Requests : Knows(slot[q])'
  <2>1. Knows(l)'
    BY <1>0 DEF Knows
  <2>2. QED
    BY <1>0, <2>1, FollowKept
<1>1. ASSUME NEW x \in ShipIds, NEW dto, UpdateRead(r, x, dto)
      PROVE  Sole' /\ \A q \in Requests : Knows(slot[q])'
  <2> DEFINE ann == /\ dto.status # None
                    /\ Upper(dto.status) # Upper(ships[x].status)
             l   == [[Idle EXCEPT !.pc = "write", !.dto = dto, !.announce = ann]
                        EXCEPT !.ship = x]
  <2>1. l.ship = x /\ l.pc = "write" /\ l.dto = dto /\ (l.announce <=> ann)
    BY DEF Idle
  <2>2. Move(r, l) /\ UNCHANGED ships
    BY <1>1 DEF UpdateRead, Accept
  <2>3. raced' = IF \E q \in Requests : slot[q].ship = x THEN raced \union {x} ELSE raced
    BY <1>1 DEF UpdateRead, Accept
  <2> HIDE DEF l
  <2>4. QED
    BY <1>0, <2>1, <2>2, <2>3
<1>2. ASSUME NEW x \in ShipIds, NEW status \in PutStatuses, StatusRead(r, x, status)
      PROVE  Sole' /\ \A q \in Requests : Knows(slot[q])'
  <2> DEFINE l == [[Idle EXCEPT !.pc = "write", !.dto = [NoDto EXCEPT !.status = status],
                                !.announce = TRUE] EXCEPT !.ship = x]
  <2>1. l.ship = x /\ l.pc = "write" /\ l.dto.status = status /\ l.announce
    BY DEF Idle, NoDto
  <2>2. Move(r, l) /\ UNCHANGED ships
    BY <1>2 DEF StatusRead, Accept
  <2>3. raced' = IF \E q \in Requests : slot[q].ship = x THEN raced \union {x} ELSE raced
    BY <1>2 DEF StatusRead, Accept
  <2>4. status # None
    BY ShipmentsAssumption DEF Statuses
  <2> HIDE DEF l
  <2>5. QED
    BY <1>0, <2>1, <2>2, <2>3, <2>4
<1>3. ASSUME NEW x \in ShipIds, RemoveRead(r, x)
      PROVE  Sole' /\ \A q \in Requests : Knows(slot[q])'
  <2> DEFINE l == [[Idle EXCEPT !.pc = "delete"] EXCEPT !.ship = x]
  <2>1. l.ship = x /\ l.pc = "delete" /\ ~l.announce
    BY DEF Idle
  <2>2. Move(r, l) /\ UNCHANGED ships
    BY <1>3 DEF RemoveRead, Accept
  <2>3. raced' = IF \E q \in Requests : slot[q].ship = x THEN raced \union {x} ELSE raced
    BY <1>3 DEF RemoveRead, Accept
  <2> HIDE DEF l
  <2>4. QED
    BY <1>0, <2>1, <2>2, <2>3
<1>4. ASSUME NEW u \in Users, ShipFind(r, u)
      PROVE  Sole' /\ \A q \in Requests : Knows(slot[q])'
  <2>0. ASSUME NEW S PROVE LET l == [Idle EXCEPT !.pc = "shipInsert", !.lacking = S]
                           IN  l.ship = NoShip /\ ~l.announce /\ l.pc = "shipInsert"
    BY DEF Idle
  <2>1. PICK S : Move(r, [Idle EXCEPT !.pc = "shipInsert", !.lacking = S])
    BY <1>4 DEF ShipFind
  <2> DEFINE l == [Idle EXCEPT !.pc = "shipInsert", !.lacking = S]
  <2>a. Move(r, l) /\ l.ship = NoShip /\ ~l.announce /\ l.pc = "shipInsert"
    BY <2>0, <2>1
  <2> HIDE DEF l
  <2>2. UNCHANGED <<ships, raced>> /\ NoShip \notin ShipIds
    BY <1>4 DEF ShipFind, NoShip, ShipIds
  <2>3. Knows(l)'
    BY <2>a, <2>2 DEF Knows
  <2>4. QED
    BY <2>a, <2>2, <2>3, FollowKept
<1>5. QED
  BY <1>1, <1>2, <1>3, <1>4 DEF Arrive

\* A step of the table that no request under way alone on its shipment can see.
LEMMA FollowTable ==
    ASSUME TypeInv, FollowInv, UNCHANGED <<slot, raced>>,
           \A x \in ShipIds : x < nextShip => ships'[x] = ships[x]
    PROVE  Sole' /\ \A q \in Requests : Knows(slot[q])'
<1>1. Sole'
  BY DEF FollowInv, Sole
<1>2. ASSUME NEW q \in Requests PROVE Knows(slot[q])'
  <2>1. Knows(slot[q]) /\ slot[q].ship < nextShip
    BY DEF FollowInv, Used
  <2>2. QED
    BY <2>1 DEF Knows, Stored
<1>3. QED
  BY <1>1, <1>2

\* Only a shipment that was inserted has a last message.
LEMMA LastUsed ==
    ASSUME TypeInv, FollowInv, [Next]_vars
    PROVE  \A x \in ShipIds : last'[x] # None => x < nextShip'
<1>0. /\ nextShip \in Nat /\ \A x \in ShipIds : x \in Nat
      /\ \A x \in ShipIds : last[x] # None => x < nextShip
      /\ last \in [ShipIds -> Pushed \union {None}]
      /\ \A q \in Requests : slot[q].ship < nextShip
      /\ \A q \in Requests : slot[q].lacking \in SUBSET Subs
  BY ShipmentsAssumption DEF TypeInv, TypeOK, FollowInv, Used, ShipIds, Locals
<1>1. ASSUME UNCHANGED <<last, nextShip>>
      PROVE  \A x \in ShipIds : last'[x] # None => x < nextShip'
  BY <1>0, <1>1
<1>2. ASSUME NEW r \in Requests, Push(r) \/ Delete(r)
      PROVE  \A x \in ShipIds : last'[x] # None => x < nextShip'
  <2>1. \A x \in ShipIds : x # slot[r].ship => last'[x] = last[x]
    BY <1>0, <1>2 DEF Push, Delete
  <2>2. nextShip' = nextShip
    BY <1>2 DEF Push, Delete
  <2>3. QED
    BY <1>0, <2>1, <2>2
<1>3. ASSUME NEW r \in Requests, ShipInsert(r)
      PROVE  \A x \in ShipIds : last'[x] # None => x < nextShip'
  <2>1. Cardinality(slot[r].lacking) \in Nat
    BY <1>0, FS_Subset, FS_CardinalityType, ShipmentsAssumption
  <2>2. nextShip' = nextShip + Cardinality(slot[r].lacking) /\ last' = last
    BY <1>3 DEF ShipInsert
  <2>3. QED
    BY <1>0, <2>1, <2>2
<1>4. ASSUME NEW s \in Subs, NEW status \in CreateStatuses, Create(s, status)
      PROVE  \A x \in ShipIds : last'[x] # None => x < nextShip'
  BY <1>0, <1>4 DEF Create
<1>5. ASSUME NEW r \in Requests, Arrive(r) \/ Write(r) \/ Reread(r) \/ Fail(r)
      PROVE  UNCHANGED <<last, nextShip>>
  BY <1>5 DEF Arrive, UpdateRead, StatusRead, RemoveRead, ShipFind, Write, Reread, Fail
<1>6. ASSUME NEW s \in Subs, NEW status, ChangeSubscription(s, status)
      PROVE  UNCHANGED <<last, nextShip>>
  BY <1>6 DEF ChangeSubscription
<1>7. CASE UNCHANGED vars
  BY <1>1, <1>7 DEF vars
<1>8. QED
  BY <1>1, <1>2, <1>3, <1>4, <1>5, <1>6, <1>7 DEF Next, Continue

LEMMA FollowStep == TypeInv /\ FollowInv /\ [Next]_vars => FollowInv'
<1> SUFFICES ASSUME TypeInv, FollowInv, [Next]_vars PROVE FollowInv'
  OBVIOUS
<1>0. /\ Used' /\ \A x \in ShipIds : last'[x] # None => x < nextShip'
  BY UsedStep, LastUsed DEF FollowInv
<1>i. /\ \A q \in Requests : slot[q] \in Locals /\ slot[q].ship < nextShip /\ Knows(slot[q])
      /\ \A x \in ShipIds : ships[x] \in Rows
  BY DEF TypeInv, TypeOK, FollowInv, Used
<1>1. ASSUME NEW r \in Requests, Arrive(r)
      PROVE  Sole' /\ \A q \in Requests : Knows(slot[q])'
  BY <1>1, FollowArrive
<1>2. ASSUME NEW r \in Requests, Write(r)
      PROVE  Sole' /\ \A q \in Requests : Knows(slot[q])'
  <2>a. PICK l : l = [slot[r] EXCEPT !.pc = "reread", !.dto.sub = None]
    OBVIOUS
  <2>0. Move(r, l) /\ UNCHANGED raced /\ slot[r].ship \in ShipIds /\ slot[r].pc = "write"
    BY <1>2, <2>a DEF Write, TypeInv, Busy, At
  <2>1. /\ l.ship = slot[r].ship /\ l.pc = "reread" /\ (l.announce <=> slot[r].announce)
        /\ l.dto.status = slot[r].dto.status
    BY <1>i, <2>a DEF Locals, Dtos
  <2>b. PICK x \in ShipIds : x = slot[r].ship
    BY <2>0
  <2>c. ships \in [ShipIds -> Rows]
    BY DEF TypeInv, TypeOK
  <2>2. /\ \A y \in ShipIds : y # x => ships'[y] = ships[y]
        /\ Stored(x) /\ slot[r].dto.status # None => ships'[x].status = slot[r].dto.status
        /\ Stored(x)' => Stored(x)
    <3>1. CASE Stored(x)
      <4>1. ships' = [ships EXCEPT ![x].status = OrElse(slot[r].dto.status, @),
                                   ![x].sub = OrElse(slot[r].dto.sub, @)]
        BY <1>2, <2>b, <3>1 DEF Write
      <4>2. QED
        BY <2>b, <2>c, <3>1, <4>1 DEF OrElse, Rows
    <3>2. CASE ~Stored(x)
      <4>1. ships' = ships
        BY <1>2, <2>b, <3>2 DEF Write
      <4>2. QED
        BY <3>2, <4>1 DEF Stored
    <3>3. QED
      BY <3>1, <3>2
  <2>3. Knows(l)'
    BY <1>i, <2>0, <2>1, <2>b, <2>2 DEF Knows
  <2>4. \A q \in Requests : q # r /\ slot[q].ship \in ShipIds /\ slot[q].ship \notin raced
            => ships'[slot[q].ship] = ships[slot[q].ship]
    BY <2>b, <2>2 DEF FollowInv, Sole
  <2>5. QED
    BY <2>0, <2>1, <2>3, <2>4, FollowKept
<1>3. ASSUME NEW r \in Requests, Reread(r)
      PROVE  Sole' /\ \A q \in Requests : Knows(slot[q])'
  <2>1. CASE Finish(r)
    BY <1>3, <2>1, FollowFreed DEF Reread
  <2>2. CASE slot[r].announce /\ Move(r, [slot[r] EXCEPT !.pc = "push"])
    <3>a. PICK l : l = [slot[r] EXCEPT !.pc = "push"]
      OBVIOUS
    <3>1. /\ l.ship = slot[r].ship /\ l.pc = "push" /\ (l.announce <=> slot[r].announce)
          /\ l.dto = slot[r].dto
      BY <1>i, <3>a DEF Locals
    <3>2. Move(r, l) /\ slot[r].pc = "reread" /\ UNCHANGED <<ships, raced>>
      BY <1>3, <2>2, <3>a DEF Reread, At
    <3>3. Knows(l)'
      BY <1>i, <2>2, <3>1, <3>2 DEF Knows, Stored
    <3>4. QED
      BY <3>1, <3>2, <3>3, FollowKept
  <2>3. QED
    BY <1>3, <2>1, <2>2 DEF Reread
<1>4. ASSUME NEW r \in Requests, Push(r) \/ Fail(r)
      PROVE  Sole' /\ \A q \in Requests : Knows(slot[q])'
  <2>1. Finish(r) /\ UNCHANGED <<ships, raced>>
    BY <1>4 DEF Push, Fail
  <2>2. QED
    BY <2>1, FollowFreed
<1>5. ASSUME NEW r \in Requests, Delete(r)
      PROVE  Sole' /\ \A q \in Requests : Knows(slot[q])'
  <2>1. /\ Finish(r) /\ UNCHANGED raced
        /\ \A x \in ShipIds : x # slot[r].ship => ships'[x] = ships[x]
    BY <1>5 DEF Delete, TypeInv, TypeOK
  <2>2. \A q \in Requests : q # r /\ slot[q].ship \in ShipIds /\ slot[q].ship \notin raced
            => ships'[slot[q].ship] = ships[slot[q].ship]
    BY <2>1 DEF FollowInv, Sole
  <2>3. QED
    BY <2>1, <2>2, FollowFreed
<1>6. ASSUME NEW r \in Requests, ShipInsert(r)
      PROVE  Sole' /\ \A q \in Requests : Knows(slot[q])'
  <2> DEFINE new == nextShip .. nextShip + Cardinality(slot[r].lacking) - 1
  <2>1. Finish(r) /\ UNCHANGED raced
    BY <1>6 DEF ShipInsert
  <2>2. \A x \in ShipIds : x \notin new => ships'[x] = ships[x]
    BY <1>6 DEF ShipInsert
  <2>3. \A x \in ShipIds : x < nextShip => x \notin new
    BY ShipmentsAssumption DEF ShipIds, TypeInv, TypeOK
  <2>4. QED
    BY <1>i, <2>1, <2>2, <2>3, FollowFreed
<1>7. ASSUME NEW s \in Subs, NEW status \in CreateStatuses, Create(s, status)
      PROVE  Sole' /\ \A q \in Requests : Knows(slot[q])'
  <2>1. UNCHANGED <<slot, raced>> /\ \A x \in ShipIds : x # nextShip => ships'[x] = ships[x]
    BY <1>7 DEF Create, TypeInv, TypeOK
  <2>2. \A x \in ShipIds : x < nextShip => x # nextShip
    BY ShipmentsAssumption DEF ShipIds, TypeInv, TypeOK
  <2>3. QED
    BY <2>1, <2>2, FollowTable
<1>8. ASSUME NEW s \in Subs, NEW status, ChangeSubscription(s, status)
      PROVE  Sole' /\ \A q \in Requests : Knows(slot[q])'
  BY <1>8, FollowTable DEF ChangeSubscription
<1>9. ASSUME UNCHANGED vars PROVE Sole' /\ \A q \in Requests : Knows(slot[q])'
  <2>1. UNCHANGED <<slot, raced>> /\ ships' = ships
    BY <1>9 DEF vars
  <2>2. QED
    BY <2>1, FollowTable
<1>10. Sole' /\ \A q \in Requests : Knows(slot[q])'
  <2>1. CASE \E r \in Requests : Arrive(r) \/ Continue(r) \/ Fail(r)
    BY <2>1, <1>1, <1>2, <1>3, <1>4, <1>5, <1>6 DEF Continue
  <2>2. CASE \E s \in Subs, status \in CreateStatuses : Create(s, status)
    BY <2>2, <1>7
  <2>3. CASE \E s \in Subs, status \in {"ACTIVE", "PAUSED", "CANCELLED"} :
               ChangeSubscription(s, status)
    BY <2>3, <1>8
  <2>4. QED
    BY <1>9, <2>1, <2>2, <2>3 DEF Next
<1>11. QED
  BY <1>0, <1>10 DEF FollowInv

\* The last message about x is true, or the request that makes it so has not come to it.
Right(x)   == Upper(ships[x].status) = last[x] \/ Upper(ships[x].status) \notin Pushed
Pending(x) == \E q \in Requests :
                 slot[q].ship = x /\ slot[q].pc \in {"reread", "push"} /\ slot[q].announce

LastRight ==
    \A x \in ShipIds : Stored(x) /\ x \notin raced /\ last[x] # None => Right(x) \/ Pending(x)

LastInv == TypeInv /\ FollowInv /\ (fails = 0 => LastRight)

LEMMA LastInit == Init => LastInv
<1> SUFFICES ASSUME Init PROVE LastInv
  OBVIOUS
<1>1. LastRight
  BY DEF Init, LastRight
<1>2. QED
  BY <1>1, TypeInit, FollowInit DEF LastInv

\* A slot that is not about to push moves on without a word about rows and messages.
LEMMA LastOther ==
    ASSUME TypeInv, LastRight, NEW r \in Requests, NEW l, Move(r, l), UNCHANGED last,
           raced \subseteq raced', slot[r].pc \notin {"reread", "push"},
           \A x \in ShipIds : Stored(x)' /\ last[x] # None => ships'[x] = ships[x]
    PROVE  LastRight'
<1>1. \A q \in Requests : q # r => slot'[q] = slot[q]
  BY DEF Move, TypeInv, TypeOK
<1>2. ASSUME NEW x \in ShipIds, Stored(x)', x \notin raced', last[x] # None
      PROVE  Right(x)' \/ Pending(x)'
  <2>1. ships'[x] = ships[x] /\ Stored(x) /\ x \notin raced
    BY <1>2 DEF Stored
  <2>2. CASE Right(x)
    BY <2>1, <2>2 DEF Right
  <2>3. CASE Pending(x)
    BY <1>1, <2>3 DEF Pending
  <2>4. QED
    BY <1>2, <2>1, <2>2, <2>3 DEF LastRight
<1>3. QED
  BY <1>2 DEF LastRight

LEMMA LastStep == LastInv /\ [Next]_vars => LastInv'
<1> SUFFICES ASSUME LastInv, [Next]_vars PROVE LastInv'
  OBVIOUS
<1>0. TypeInv /\ FollowInv /\ TypeInv' /\ FollowInv'
  BY TypeStep, FollowStep DEF LastInv
<1>i. /\ \A q \in Requests : slot[q] \in Locals /\ slot[q].ship < nextShip /\ Knows(slot[q])
      /\ \A x \in ShipIds : ships[x] \in Rows /\ (last[x] # None => x < nextShip)
      /\ ships \in [ShipIds -> Rows] /\ last \in [ShipIds -> Pushed \union {None}]
      /\ slot \in [Requests -> Locals] /\ fails \in Nat
  BY <1>0, ShipmentsAssumption DEF TypeInv, TypeOK, FollowInv, Used
<1>1. ASSUME NEW r \in Requests, Arrive(r), LastRight PROVE LastRight'
  <2>1. /\ slot[r].pc = "idle" /\ UNCHANGED <<ships, last>> /\ raced \subseteq raced'
        /\ \E l : Move(r, l)
    BY <1>1 DEF Arrive, UpdateRead, StatusRead, RemoveRead, ShipFind, Accept, At
  <2>2. QED
    BY <1>0, <1>1, <2>1, LastOther
<1>2. ASSUME NEW r \in Requests, Write(r), LastRight PROVE LastRight'
  <2>0. PICK x \in ShipIds : x = slot[r].ship
    BY <1>0, <1>2 DEF Write, TypeInv, Busy, At
  <2>1. /\ UNCHANGED <<last, raced>> /\ slot[r].pc = "write"
        /\ Move(r, [slot[r] EXCEPT !.pc = "reread", !.dto.sub = None])
    BY <1>2 DEF Write, At
  <2>2. /\ slot'[r].ship = x /\ slot'[r].pc = "reread"
        /\ (slot'[r].announce <=> slot[r].announce)
        /\ \A q \in Requests : q # r => slot'[q] = slot[q]
    BY <1>i, <2>0, <2>1 DEF Move, Locals
  <2>3. /\ \A y \in ShipIds : y # x => ships'[y] = ships[y]
        /\ Stored(x)' => /\ Stored(x)
                         /\ slot[r].dto.status = None => ships'[x].status = ships[x].status
                         /\ slot[r].dto.status # None => ships'[x].status = slot[r].dto.status
    <3>1. CASE Stored(x)
      <4>1. ships' = [ships EXCEPT ![x].status = OrElse(slot[r].dto.status, @),
                                   ![x].sub = OrElse(slot[r].dto.sub, @)]
        BY <1>2, <2>0, <3>1 DEF Write
      <4>2. QED
        BY <1>i, <2>0, <3>1, <4>1 DEF OrElse, Rows
    <3>2. CASE ~Stored(x)
      <4>1. ships' = ships
        BY <1>2, <2>0, <3>2 DEF Write
      <4>2. QED
        BY <3>2, <4>1 DEF Stored
    <3>3. QED
      BY <3>1, <3>2
  <2>4. ASSUME NEW y \in ShipIds, Stored(y)', y \notin raced', last[y] # None
        PROVE  Right(y)' \/ Pending(y)'
    <3>1. CASE y = x /\ slot[r].announce
      BY <2>2, <3>1 DEF Pending
    <3>2. CASE y # x \/ ~slot[r].announce
      <4>1. Stored(y) /\ y \notin raced
        BY <2>1, <2>3, <2>4 DEF Stored
      <4>2. Upper(ships'[y].status) = Upper(ships[y].status)
        BY <1>i, <2>0, <2>1, <2>3, <2>4, <3>2, <4>1 DEF Knows
      <4>3. CASE Right(y)
        BY <2>1, <4>2, <4>3 DEF Right
      <4>4. CASE Pending(y)
        BY <2>1, <2>2, <4>4 DEF Pending
      <4>5. QED
        BY <1>2, <2>4, <4>1, <4>3, <4>4 DEF LastRight
    <3>3. QED
      BY <3>1, <3>2
  <2>5. QED
    BY <2>1, <2>4 DEF LastRight
<1>3. ASSUME NEW r \in Requests, Reread(r), LastRight PROVE LastRight'
  <2>0. PICK x \in ShipIds : x = slot[r].ship
    BY <1>0, <1>3 DEF Reread, TypeInv, Busy, At
  <2>1. UNCHANGED <<ships, last, raced>> /\ slot[r].pc = "reread"
    BY <1>3 DEF Reread, At
  <2>2. \A q \in Requests : q # r => slot'[q] = slot[q]
    BY <1>3, <1>i DEF Reread, Move, Finish
  <2>3. \/ slot'[r].ship = x /\ slot'[r].pc = "push" /\ (slot'[r].announce <=> slot[r].announce)
        \/ ~(Stored(x) /\ slot[r].announce /\ Upper(slot[r].dto.status) \in Pushed)
    <3>1. CASE Move(r, [slot[r] EXCEPT !.pc = "push"])
      BY <1>i, <2>0, <3>1 DEF Move, Locals
    <3>2. QED
      BY <1>3, <2>0, <3>1 DEF Reread
  <2>4. ASSUME NEW y \in ShipIds, Stored(y), y \notin raced, last[y] # None
        PROVE  Right(y)' \/ Pending(y)'
    <3>1. CASE Right(y)
      BY <2>1, <3>1 DEF Right
    <3>2. CASE Pending(y)
      <4>1. PICK q \in Requests : /\ slot[q].ship = y /\ slot[q].announce
                                  /\ slot[q].pc \in {"reread", "push"}
        BY <3>2 DEF Pending
      <4>2. CASE q # r
        BY <2>2, <4>1, <4>2 DEF Pending
      <4>3. CASE q = r
        <5>1. Upper(slot[r].dto.status) = Upper(ships[y].status)
          BY <1>i, <2>4, <4>1, <4>3 DEF Knows
        <5>2. CASE Upper(slot[r].dto.status) \in Pushed
          BY <2>0, <2>3, <2>4, <4>1, <4>3, <5>2 DEF Pending
        <5>3. CASE Upper(slot[r].dto.status) \notin Pushed
          BY <2>1, <5>1, <5>3 DEF Right
        <5>4. QED
          BY <5>2, <5>3
      <4>4. QED
        BY <4>2, <4>3
    <3>3. QED
      BY <1>3, <2>4, <3>1, <3>2 DEF LastRight
  <2>5. QED
    BY <2>1, <2>4 DEF LastRight, Stored
<1>4. ASSUME NEW r \in Requests, Push(r), LastRight PROVE LastRight'
  <2>0. PICK x \in ShipIds : x = slot[r].ship
    BY <1>0, <1>4 DEF Push, TypeInv, Busy, At
  <2>1. UNCHANGED <<ships, raced>> /\ slot[r].pc = "push" /\ Finish(r)
    BY <1>4 DEF Push, At
  <2>2. \A q \in Requests : q # r => slot'[q] = slot[q]
    BY <1>i, <2>1 DEF Move, Finish
  <2>3. /\ \A y \in ShipIds : y # x => last'[y] = last[y]
        /\ last'[x] # None => last'[x] = Upper(slot[r].dto.status)
    BY <1>4, <1>i, <2>0 DEF Push
  <2>4. ASSUME NEW y \in ShipIds, Stored(y), y \notin raced, last'[y] # None
        PROVE  Right(y)' \/ Pending(y)'
    <3>1. CASE y = x
      <4>1. Upper(slot[r].dto.status) = Upper(ships[y].status)
        BY <1>i, <2>0, <2>1, <2>4, <3>1 DEF Knows
      <4>2. QED
        BY <2>1, <2>3, <2>4, <3>1, <4>1 DEF Right
    <3>2. CASE y # x
      <4>1. CASE Right(y)
        BY <2>1, <2>3, <3>2, <4>1 DEF Right
      <4>2. CASE Pending(y)
        BY <2>0, <2>2, <3>2, <4>2 DEF Pending
      <4>3. QED
        BY <1>4, <2>3, <2>4, <3>2, <4>1, <4>2 DEF LastRight
    <3>3. QED
      BY <3>1, <3>2
  <2>5. QED
    BY <2>1, <2>4 DEF LastRight, Stored
<1>5. ASSUME NEW r \in Requests, Delete(r), LastRight PROVE LastRight'
  <2>0. PICK x \in ShipIds : x = slot[r].ship
    BY <1>0, <1>5 DEF Delete, TypeInv, Busy, At
  <2>1. UNCHANGED raced /\ slot[r].pc = "delete" /\ Finish(r)
    BY <1>5 DEF Delete, At
  <2>2. \A q \in Requests : q # r => slot'[q] = slot[q]
    BY <1>i, <2>1 DEF Move, Finish
  <2>3. /\ \A y \in ShipIds : y # x => last'[y] = last[y] /\ ships'[y] = ships[y]
        /\ last'[x] = None
    BY <1>5, <1>i, <2>0 DEF Delete
  <2>4. ASSUME NEW y \in ShipIds, Stored(y)', y \notin raced, last'[y] # None
        PROVE  Right(y)' \/ Pending(y)'
    <3>1. y # x /\ Stored(y)
      BY <2>3, <2>4 DEF Stored
    <3>2. CASE Right(y)
      BY <2>3, <3>1, <3>2 DEF Right
    <3>3. CASE Pending(y)
      BY <2>0, <2>2, <3>1, <3>3 DEF Pending
    <3>4. QED
      BY <1>5, <2>3, <2>4, <3>1, <3>2, <3>3 DEF LastRight
  <2>5. QED
    BY <2>1, <2>4 DEF LastRight
<1>6. ASSUME NEW r \in Requests, ShipInsert(r), LastRight PROVE LastRight'
  <2> DEFINE new == nextShip .. nextShip + Cardinality(slot[r].lacking) - 1
  <2>1. Move(r, Idle) /\ UNCHANGED <<last, raced>> /\ slot[r].pc = "shipInsert"
    BY <1>6 DEF ShipInsert, Finish, At
  <2>2. \A x \in ShipIds : x \notin new => ships'[x] = ships[x]
    BY <1>6 DEF ShipInsert
  <2>3. \A x \in ShipIds : last[x] # None => x \notin new
    BY <1>0, <1>i, ShipmentsAssumption DEF ShipIds, TypeInv, TypeOK
  <2>4. QED
    BY <1>0, <1>6, <2>1, <2>2, <2>3, LastOther
<1>7. ASSUME NEW s \in Subs, NEW status \in CreateStatuses, Create(s, status), LastRight
      PROVE  LastRight'
  <2>1. UNCHANGED <<slot, raced, last>> /\ \A x \in ShipIds : x # nextShip => ships'[x] = ships[x]
    BY <1>i, <1>7 DEF Create
  <2>2. \A x \in ShipIds : last[x] # None => x # nextShip
    BY <1>0, <1>i, ShipmentsAssumption DEF ShipIds, TypeInv, TypeOK
  <2>3. QED
    BY <1>7, <2>1, <2>2 DEF LastRight, Right, Pending, Stored
<1>8. ASSUME NEW s \in Subs, NEW status, ChangeSubscription(s, status), LastRight
      PROVE  LastRight'
  BY <1>8 DEF ChangeSubscription, LastRight, Right, Pending, Stored
<1>9. ASSUME UNCHANGED vars, LastRight PROVE LastRight'
  BY <1>9 DEF vars, LastRight, Right, Pending, Stored
<1>10. ASSUME NEW r \in Requests, Fail(r) PROVE fails' # 0
  BY <1>10, <1>i DEF Fail
<1>11. fails' = 0 => fails = 0
  BY <1>0, FailuresCount
<1>12. ASSUME LastRight, fails' = 0 PROVE LastRight'
  <2>1. CASE \E r \in Requests : Arrive(r) \/ Continue(r) \/ Fail(r)
    BY <2>1, <1>1, <1>2, <1>3, <1>4, <1>5, <1>6, <1>10, <1>12 DEF Continue
  <2>2. CASE \E s \in Subs, status \in CreateStatuses : Create(s, status)
    BY <2>2, <1>7, <1>12
  <2>3. CASE \E s \in Subs, status \in {"ACTIVE", "PAUSED", "CANCELLED"} :
               ChangeSubscription(s, status)
    BY <2>3, <1>8, <1>12
  <2>4. QED
    BY <1>9, <1>12, <2>1, <2>2, <2>3 DEF Next
<1>13. QED
  BY <1>0, <1>11, <1>12 DEF LastInv

\* However many requests there are: while no call has failed, what was last sent about a
\* shipment whose changes did not overlap is still so, if it is a status that is sent.
THEOREM LastPushStaysTrue == Spec => []LastPushTrue
<1>1. LastInv => LastPushTrue
  BY DEF LastInv, LastRight, Right, Pending, LastPushTrue, Quiet, At
<1>2. QED
  BY <1>1, LastInit, LastStep, PTL DEF Spec

=============================================================================
