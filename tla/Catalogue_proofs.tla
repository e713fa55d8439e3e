--------------------------- MODULE Catalogue_proofs ---------------------------
(***************************************************************************)
(* Type correctness of Catalogue; that a file an upload has stored stays    *)
(* there until the upload has named it, whatever overlaps and fails; and,   *)
(* of uploads that overlap each other only, that rows name files that are   *)
(* there and that what is left behind is paid for by failures; that         *)
(* seed-products, run alone, finishes what earlier runs left; and that      *)
(* changes of plans one at a time implement CatalogueContract.              *)
(***************************************************************************)
EXTENDS Catalogue, FiniteSetTheorems, TLAPS

-----------------------------------------------------------------------------
(* Types. *)

LEMMA SlotTypes ==
    ASSUME TypeOK, NEW r \in Requests
    PROVE  /\ slot[r] \in Locals
           /\ \A l \in Locals : Move(r, l) => slot' \in [Requests -> Locals]
           /\ Finish(r) => slot' \in [Requests -> Locals]
<1>1. NoRow \in Rows
  BY DEF NoRow, Rows, NoFile
<1>2. Idle \in Locals
  BY <1>1, CatalogueAssumption DEF Idle, Locals, NoFile
<1>3. QED
  BY <1>2 DEF TypeOK, Move, Finish

LEMMA TypeInit == Init => TypeOK
<1> SUFFICES ASSUME Init PROVE TypeOK
  OBVIOUS
<1>1. NoRow \in Rows
  BY DEF NoRow, Rows, NoFile
<1>2. Idle \in Locals
  BY <1>1, CatalogueAssumption DEF Idle, Locals, NoFile
<1>3. QED
  BY <1>1, <1>2, CatalogueAssumption DEF Init, TypeOK

\* A new request: nothing but its slot changes.
LEMMA TypeArrive ==
    ASSUME TypeOK, NEW r \in Requests, Arrive(r)
    PROVE  TypeOK'
<1>0. ASSUME NEW op \in AllOps, NEW l \in Locals, Accept(r, op, l)
      PROVE  slot' \in [Requests -> Locals]
  <2>1. [l EXCEPT !.op = op] \in Locals
    BY DEF Locals
  <2>2. QED
    BY <1>0, <2>1, SlotTypes DEF Accept
<1>i. Idle \in Locals /\ NoRow \in Rows
  <2>1. NoRow \in Rows
    BY DEF NoRow, Rows, NoFile
  <2>2. QED
    BY <2>1, CatalogueAssumption DEF Idle, Locals, NoFile
<1>q. SUFFICES slot' \in [Requests -> Locals]
  BY DEF TypeOK, Arrive, UploadRead, RemoveRead, EditUserRead, AddRead, RemoveProductsRead,
         RemoveProductRead, SeedStart
<1>1. ASSUME NEW o \in Owners, UploadRead(r, o) PROVE slot' \in [Requests -> Locals]
  <2>1. [Idle EXCEPT !.pc = "store", !.owner = o, !.copy = rows[o]] \in Locals
    BY <1>i DEF Locals, TypeOK
  <2>2. QED
    BY <1>0, <1>1, <2>1 DEF UploadRead, AllOps
<1>2. ASSUME NEW o \in Owners, RemoveRead(r, o) PROVE slot' \in [Requests -> Locals]
  <2>1. [Idle EXCEPT !.pc = "delete", !.owner = o] \in Locals
    BY <1>i DEF Locals
  <2>2. QED
    BY <1>0, <1>2, <2>1 DEF RemoveRead, AllOps
<1>3. ASSUME NEW u \in People, EditUserRead(r, u) PROVE slot' \in [Requests -> Locals]
  <2>1. [Idle EXCEPT !.pc = "save", !.owner = u, !.copy = rows[u]] \in Locals
    BY <1>i DEF Locals, TypeOK, Owners
  <2>2. QED
    BY <1>0, <1>3, <2>1 DEF EditUserRead, AllOps
<1>4. ASSUME NEW b \in Boxes, NEW list \in SUBSET ProductIds, AddRead(r, b, list)
      PROVE  slot' \in [Requests -> Locals]
  <2>1. [Idle EXCEPT !.pc = "findProducts", !.owner = b, !.copy = rows[b], !.list = list] \in Locals
    BY <1>i DEF Locals, TypeOK, Owners
  <2>2. QED
    BY <1>0, <1>4, <2>1 DEF AddRead, AllOps
<1>5. ASSUME NEW b \in Boxes, NEW list \in SUBSET ProductIds, RemoveProductsRead(r, b, list)
      PROVE  slot' \in [Requests -> Locals]
  <2>1. [rows[b] EXCEPT !.products = @ \ list] \in Rows
    BY DEF TypeOK, Rows, Owners
  <2>2. [Idle EXCEPT !.pc = "save", !.owner = b,
                     !.copy = [rows[b] EXCEPT !.products = @ \ list], !.list = list] \in Locals
    BY <1>i, <2>1 DEF Locals, Owners
  <2>3. QED
    BY <1>0, <1>5, <2>2 DEF RemoveProductsRead, AllOps
<1>6. ASSUME NEW d \in ProductIds, RemoveProductRead(r, d) PROVE slot' \in [Requests -> Locals]
  <2>1. [Idle EXCEPT !.pc = "dropProduct", !.list = {d}] \in Locals
    BY <1>i DEF Locals
  <2>2. QED
    BY <1>0, <1>6, <2>1 DEF RemoveProductRead, AllOps
<1>7. ASSUME SeedStart(r) PROVE slot' \in [Requests -> Locals]
  <2>1. [Idle EXCEPT !.pc = "findSku"] \in Locals
    BY <1>i DEF Locals
  <2>2. QED
    BY <1>0, <1>7, <2>1 DEF SeedStart, AllOps
<1>8. QED
  BY <1>1, <1>2, <1>3, <1>4, <1>5, <1>6, <1>7 DEF Arrive

\* The step from a seed to the next one keeps the counter in its range.
LEMMA GotTypes ==
    ASSUME TypeOK, NEW r \in Requests, NEW d \in ProductIds, Got(r, d)
    PROVE  slot' \in [Requests -> Locals]
<1> DEFINE last == slot[r].k = Len(SeedSkus)
           l == [slot[r] EXCEPT !.list = @ \union {d},
                                !.pc = IF last THEN "findPlans" ELSE "findSku",
                                !.k = IF last THEN 1 ELSE @ + 1]
<1>1. slot[r] \in Locals /\ slot[r].k \in 1 .. Len(SeedSkus) /\ Len(SeedSkus) \in Nat \ {0}
  BY SlotTypes, CatalogueAssumption DEF Locals
<1>2. (IF last THEN 1 ELSE slot[r].k + 1) \in 1 .. Len(SeedSkus)
  BY <1>1
<1>3. l \in Locals
  BY <1>1, <1>2 DEF Locals
<1>4. QED
  BY <1>3, SlotTypes DEF Got

LEMMA TypeContinue ==
    ASSUME TypeOK, NEW r \in Requests, Continue(r)
    PROVE  TypeOK'
<1>l. slot[r] \in Locals
  BY SlotTypes
<1>p. ASSUME NEW o, NEW copy \in Rows, Put(o, copy) PROVE rows' \in [Owners -> Rows]
  BY <1>p DEF Put, TypeOK
<1>1. CASE StoreImage(r)
  <2> DEFINE m == [slot[r] EXCEPT !.file = nextFile,
                      !.pc = IF slot[r].copy.image = NoFile THEN "save" ELSE "deleteOld"]
  <2>1. nextFile \in FileIds /\ nextFile + 1 \in 1 .. MaxFiles + 1
    BY <1>1, CatalogueAssumption DEF StoreImage, TypeOK, FileIds
  <2>2. m \in Locals
    BY <1>l, <2>1 DEF Locals
  <2>3. slot' \in [Requests -> Locals]
    BY <1>1, <2>2, SlotTypes DEF StoreImage
  <2>4. files' \in [FileIds -> Owners \union {None}]
    BY <1>1, <1>l DEF StoreImage, TypeOK, Locals
  <2>5. QED
    BY <1>1, <2>1, <2>3, <2>4 DEF StoreImage, TypeOK
<1>2. CASE DeleteOld(r)
  <2>1. [slot[r] EXCEPT !.pc = "save"] \in Locals
    BY <1>l DEF Locals
  <2>2. slot' \in [Requests -> Locals]
    BY <1>2, <2>1, SlotTypes DEF DeleteOld
  <2>3. files' \in [FileIds -> Owners \union {None}] /\ fails' \in 0 .. MaxFails
    BY <1>2, CatalogueAssumption DEF DeleteOld, TypeOK
  <2>4. QED
    BY <1>2, <2>2, <2>3 DEF DeleteOld, TypeOK
<1>3. CASE Save(r)
  <2>1. slot[r].copy \in Rows /\ [slot[r].copy EXCEPT !.image = slot[r].file] \in Rows
    BY <1>l DEF Locals, Rows
  <2>2. rows' \in [Owners -> Rows]
    BY <1>3, <1>p, <2>1 DEF Save
  <2>3. QED
    BY <1>3, <2>2, SlotTypes DEF Save, TypeOK
<1>4. CASE Delete(r)
  <2>1. [NoRow EXCEPT !.is = "deleted"] \in Rows
    BY DEF NoRow, Rows, NoFile
  <2>2. rows' \in [Owners -> Rows]
    BY <1>4, <2>1 DEF Delete, TypeOK
  <2>3. QED
    BY <1>4, <2>2, SlotTypes DEF Delete, TypeOK
<1>5. CASE FindProducts(r)
  <2>1. [slot[r].copy EXCEPT !.products = @ \union slot[r].list] \in Rows
    BY <1>l DEF Locals, Rows
  <2>2. [slot[r] EXCEPT !.pc = "save", !.copy.products = @ \union slot[r].list] \in Locals
    BY <1>l, <2>1 DEF Locals
  <2>3. slot' \in [Requests -> Locals]
    BY <1>5, <2>2, SlotTypes DEF FindProducts
  <2>4. QED
    BY <1>5, <2>3 DEF FindProducts, TypeOK
<1>6. CASE DropProduct(r)
  <2>1. \A o \in Owners : [rows[o] EXCEPT !.products = @ \ slot[r].list] \in Rows
    BY DEF TypeOK, Rows
  <2>2. rows' \in [Owners -> Rows] /\ products' \in [ProductIds -> Skus \union {None}]
    BY <1>6, <2>1 DEF DropProduct, TypeOK
  <2>3. QED
    BY <1>6, <2>2, SlotTypes DEF DropProduct, TypeOK
<1>7. CASE FindSku(r)
  <2>1. [slot[r] EXCEPT !.pc = "insertSku"] \in Locals
    BY <1>l DEF Locals
  <2>2. slot' \in [Requests -> Locals]
    BY <1>7, <2>1, SlotTypes, GotTypes DEF FindSku, WithSku
  <2>3. QED
    BY <1>7, <2>2 DEF FindSku, TypeOK
<1>8. CASE InsertSku(r)
  <2>1. SeedSkus[slot[r].k] \in Skus
    BY <1>l DEF Locals, Skus, Seeded
  <2>2. products' \in [ProductIds -> Skus \union {None}]
    BY <1>8, <2>1 DEF InsertSku, TypeOK
  <2>3. slot' \in [Requests -> Locals]
    BY <1>8, GotTypes DEF InsertSku
  <2>4. QED
    BY <1>8, <2>2, <2>3 DEF InsertSku, TypeOK
<1>9. CASE FindPlans(r)
  <2> DEFINE lacking == {b \in SeedBoxes : IsRow(b) /\ ~(slot[r].list \subseteq rows[b].products)}
             m == [slot[r] EXCEPT !.pc = "assign", !.todo = lacking,
                                  !.copies = [b \in Boxes |-> rows[b]]]
  <2>1. lacking \subseteq Boxes /\ [b \in Boxes |-> rows[b]] \in [Boxes -> Rows]
    BY CatalogueAssumption DEF TypeOK, Owners
  <2>2. m \in Locals
    BY <1>l, <2>1 DEF Locals
  <2>3. slot' \in [Requests -> Locals]
    BY <1>9, <2>2, SlotTypes DEF FindPlans
  <2>4. QED
    BY <1>9, <2>3 DEF FindPlans, TypeOK
<1>10. CASE Assign(r)
  <2>1. PICK b \in slot[r].todo :
            /\ Put(b, [slot[r].copies[b] EXCEPT !.products = @ \union slot[r].list])
            /\ \/ Finish(r)
               \/ Move(r, [slot[r] EXCEPT !.todo = @ \ {b}])
    BY <1>10 DEF Assign
  <2>2. [slot[r].copies[b] EXCEPT !.products = @ \union slot[r].list] \in Rows
    BY <1>l DEF Locals, Rows
  <2>3. rows' \in [Owners -> Rows]
    BY <1>p, <2>1, <2>2
  <2>4. [slot[r] EXCEPT !.todo = @ \ {b}] \in Locals
    BY <1>l DEF Locals
  <2>5. slot' \in [Requests -> Locals]
    BY <2>1, <2>4, SlotTypes
  <2>6. QED
    BY <1>10, <2>3, <2>5 DEF Assign, TypeOK
<1>11. QED
  BY <1>1, <1>2, <1>3, <1>4, <1>5, <1>6, <1>7, <1>8, <1>9, <1>10 DEF Continue

LEMMA TypeNext == TypeOK /\ [Next]_vars => TypeOK'
<1> SUFFICES ASSUME TypeOK, [Next]_vars PROVE TypeOK'
  OBVIOUS
<1>1. ASSUME NEW r \in Requests, Fail(r) PROVE TypeOK'
  BY <1>1, SlotTypes, CatalogueAssumption DEF Fail, TypeOK
<1>2. ASSUME NEW o \in Owners, Create(o) PROVE TypeOK'
  <2>1. [rows[o] EXCEPT !.is = "stored"] \in Rows
    BY DEF TypeOK, Rows
  <2>2. QED
    BY <1>2, <2>1 DEF Create, TypeOK
<1>3. ASSUME NEW sku \in Skus, CreateProduct(sku) PROVE TypeOK'
  BY <1>3 DEF CreateProduct, TypeOK
<1>4. CASE UNCHANGED vars
  BY <1>4 DEF vars, TypeOK
<1>5. QED
  BY <1>1, <1>2, <1>3, <1>4, TypeArrive, TypeContinue DEF Next

\* Rows, products, files and the locals of every handler are well formed.
THEOREM TypeCorrect == Spec => []TypeOK
BY TypeInit, TypeNext, PTL DEF Spec

-----------------------------------------------------------------------------
(* The file an upload holds. *)

\* A file that was named once, and that no upload under way has stored.
Unheld(f) == f \in 0 .. nextFile - 1 /\ \A r \in Requests : slot[r].file = f => f = NoFile

\* What a handler will write or delete is unheld; what it holds is there, and held by
\* it alone.
HeldInv ==
    /\ \A o \in Owners : Unheld(rows[o].image)
    /\ \A r \in Requests :
        /\ At(r, "store") => slot[r].owner \in Owners
        /\ Unheld(slot[r].copy.image)
        /\ \A b \in Boxes : Unheld(slot[r].copies[b].image)
        /\ slot[r].file \in 0 .. nextFile - 1
        /\ slot[r].file # NoFile =>
            /\ files[slot[r].file] # None
            /\ \A q \in Requests : slot[q].file = slot[r].file => q = r

LEMMA HeldInit == Init => HeldInv
BY DEF Init, HeldInv, Unheld, Idle, NoRow, NoFile, At

\* A step of one slot that keeps or drops its file, reads only what is unheld, deletes
\* nothing that is held, and writes what is unheld or the file it drops.
LEMMA HeldKept ==
    ASSUME TypeOK, HeldInv, NEW r \in Requests, NEW l \in Locals, Move(r, l),
           UNCHANGED nextFile,
           l.file = NoFile \/ l.file = slot[r].file,
           l.pc = "store" => l.owner \in Owners,
           Unheld(l.copy.image),
           \A b \in Boxes : Unheld(l.copies[b].image),
           \A q \in Requests : slot[q].file # NoFile => files'[slot[q].file] # None,
           \A o \in Owners : \/ Unheld(rows'[o].image)
                             \/ l.file = NoFile /\ rows'[o].image = slot[r].file
    PROVE  HeldInv'
<1>1. slot' = [slot EXCEPT ![r] = l] /\ slot \in [Requests -> Locals] /\ nextFile \in Nat
  BY CatalogueAssumption DEF Move, TypeOK
<1>2. slot'[r] = l /\ \A q \in Requests : q # r => slot'[q] = slot[q]
  BY <1>1
<1>3. ASSUME NEW f, Unheld(f) PROVE Unheld(f)'
  BY <1>2, <1>3 DEF Unheld
<1>4. ASSUME NEW o \in Owners PROVE Unheld(rows[o].image)'
  <2>1. CASE Unheld(rows'[o].image)
    BY <1>2, <2>1 DEF Unheld
  <2>2. CASE l.file = NoFile /\ rows'[o].image = slot[r].file
    BY <1>2, <2>2 DEF Unheld, HeldInv, NoFile
  <2>3. QED
    BY <2>1, <2>2
<1>5. ASSUME NEW q \in Requests
      PROVE  /\ At(q, "store")' => slot'[q].owner \in Owners
             /\ Unheld(slot[q].copy.image)'
             /\ \A b \in Boxes : Unheld(slot[q].copies[b].image)'
  <2>1. CASE q = r
    BY <1>2, <2>1 DEF Unheld, At
  <2>2. CASE q # r
    BY <1>2, <2>2 DEF HeldInv, Unheld, At
  <2>3. QED
    BY <2>1, <2>2
<1>6. ASSUME NEW q \in Requests
      PROVE  /\ slot'[q].file \in 0 .. nextFile' - 1
             /\ slot'[q].file # NoFile =>
                  /\ files'[slot'[q].file] # None
                  /\ \A p \in Requests : slot'[p].file = slot'[q].file => p = q
  <2>1. 0 \in 0 .. nextFile - 1
    BY CatalogueAssumption DEF TypeOK
  <2>2. QED
    BY <1>2, <2>1 DEF HeldInv, NoFile
<1>7. QED
  BY <1>4, <1>5, <1>6 DEF HeldInv

\* The same for a slot that is freed.
LEMMA HeldFreed ==
    ASSUME TypeOK, HeldInv, NEW r \in Requests, Finish(r), UNCHANGED <<nextFile, files>>,
           \A o \in Owners : Unheld(rows'[o].image) \/ rows'[o].image = slot[r].file
    PROVE  HeldInv'
<1>1. Idle \in Locals
  BY CatalogueAssumption DEF Idle, Locals, NoFile, Rows, NoRow
<1>2. Unheld(NoFile)
  BY CatalogueAssumption DEF TypeOK, Unheld, NoFile
<1>3. /\ Idle.file = NoFile /\ Idle.pc # "store" /\ Idle.copy.image = NoFile
      /\ \A b \in Boxes : Idle.copies[b].image = NoFile
  BY DEF Idle, NoRow
<1>4. \A q \in Requests : slot[q].file # NoFile => files'[slot[q].file] # None
  BY DEF HeldInv
<1>5. QED
  BY <1>1, <1>2, <1>3, <1>4, HeldKept DEF Finish

\* A request starts with what it reads of a row.
LEMMA HeldArrive ==
    ASSUME TypeOK, HeldInv, NEW r \in Requests, Arrive(r)
    PROVE  HeldInv'
<1>1. UNCHANGED <<rows, files, nextFile>>
  BY DEF Arrive, UploadRead, RemoveRead, EditUserRead, AddRead, RemoveProductsRead,
         RemoveProductRead, SeedStart
<1>2. slot' \in [Requests -> Locals]
  BY TypeArrive DEF TypeOK
<1>3. Unheld(NoFile)
  BY CatalogueAssumption DEF TypeOK, Unheld, NoFile
<1>4. Move(r, slot'[r])
  <2>1. PICK l : Move(r, l)
    BY DEF Arrive, UploadRead, RemoveRead, EditUserRead, AddRead, RemoveProductsRead,
           RemoveProductRead, SeedStart, Accept
  <2>2. QED
    BY <2>1 DEF Move, TypeOK
<1>5. /\ slot'[r].file = NoFile
      /\ slot'[r].pc = "store" => slot'[r].owner \in Owners
      /\ \/ slot'[r].copy.image = NoFile
         \/ \E o \in Owners : slot'[r].copy.image = rows[o].image
      /\ slot'[r].copies = [b \in Boxes |-> NoRow]
  <2>1. slot \in [Requests -> Locals] /\ rows \in [Owners -> Rows]
    BY DEF TypeOK
  <2>2. ASSUME NEW o \in Owners, UploadRead(r, o) PROVE <1>5!:
    BY <2>1, <2>2 DEF UploadRead, Accept, Move, Idle, Rows
  <2>3. ASSUME NEW o \in Owners, RemoveRead(r, o) PROVE <1>5!:
    BY <2>1, <2>3 DEF RemoveRead, Accept, Move, Idle, NoRow
  <2>4. ASSUME NEW u \in People, EditUserRead(r, u) PROVE <1>5!:
    BY <2>1, <2>4 DEF EditUserRead, Accept, Move, Idle, Rows, Owners
  <2>5. ASSUME NEW b \in Boxes, NEW list \in SUBSET ProductIds, AddRead(r, b, list) PROVE <1>5!:
    BY <2>1, <2>5 DEF AddRead, Accept, Move, Idle, Rows, Owners
  <2>6. ASSUME NEW b \in Boxes, NEW list \in SUBSET ProductIds, RemoveProductsRead(r, b, list)
        PROVE  <1>5!:
    BY <2>1, <2>6 DEF RemoveProductsRead, Accept, Move, Idle, Rows, Owners
  <2>7. ASSUME NEW d \in ProductIds, RemoveProductRead(r, d) PROVE <1>5!:
    BY <2>1, <2>7 DEF RemoveProductRead, Accept, Move, Idle, NoRow
  <2>8. CASE SeedStart(r)
    BY <2>1, <2>8 DEF SeedStart, Accept, Move, Idle, NoRow
  <2>9. QED
    BY <2>2, <2>3, <2>4, <2>5, <2>6, <2>7, <2>8 DEF Arrive
<1>6. Unheld(slot'[r].copy.image) /\ \A b \in Boxes : Unheld(slot'[r].copies[b].image)
  BY <1>3, <1>5 DEF HeldInv, NoRow
<1>7. /\ \A q \in Requests : slot[q].file # NoFile => files'[slot[q].file] # None
      /\ \A o \in Owners : Unheld(rows'[o].image)
  BY <1>1 DEF HeldInv
<1>8. slot'[r] \in Locals
  BY <1>2
<1>9. QED
  BY <1>1, <1>4, <1>5, <1>6, <1>7, <1>8, HeldKept

\* A write leaves each row as it is, or makes it the copy.
LEMMA PutWrites ==
    ASSUME TypeOK, NEW o, NEW copy, Put(o, copy)
    PROVE  \A p \in Owners : rows'[p] = rows[p] \/ rows'[p] = copy
BY DEF Put, TypeOK

LEMMA HeldGot ==
    ASSUME TypeOK, HeldInv, NEW r \in Requests, NEW d \in ProductIds, Got(r, d),
           UNCHANGED <<rows, files, nextFile>>
    PROVE  HeldInv'
<1> DEFINE last == slot[r].k = Len(SeedSkus)
           l == [slot[r] EXCEPT !.list = @ \union {d},
                                !.pc = IF last THEN "findPlans" ELSE "findSku",
                                !.k = IF last THEN 1 ELSE @ + 1]
<1>1. slot[r] \in Locals /\ Move(r, l)
  BY SlotTypes DEF Got
<1>2. slot'[r] = l /\ l \in Locals
  BY <1>1, GotTypes DEF Move, TypeOK
<1>3. /\ l.file = slot[r].file /\ l.pc # "store"
      /\ l.copy = slot[r].copy /\ l.copies = slot[r].copies
  BY <1>1 DEF Locals
<1> HIDE DEF l
<1>4. QED
  BY <1>1, <1>2, <1>3, HeldKept DEF HeldInv

\* The steps of an upload.
LEMMA HeldUpload ==
    ASSUME TypeOK, HeldInv, NEW r \in Requests, StoreImage(r) \/ DeleteOld(r) \/ Save(r)
    PROVE  HeldInv'
<1>l. slot[r] \in Locals /\ slot \in [Requests -> Locals] /\ TypeOK'
  BY SlotTypes, TypeContinue DEF TypeOK, Continue
<1>1. CASE StoreImage(r)
  <2> DEFINE m == [slot[r] EXCEPT !.file = nextFile,
                      !.pc = IF slot[r].copy.image = NoFile THEN "save" ELSE "deleteOld"]
  <2>1. /\ slot' = [slot EXCEPT ![r] = m] /\ nextFile' = nextFile + 1 /\ rows' = rows
        /\ files' = [files EXCEPT ![nextFile] = slot[r].owner]
        /\ nextFile \in FileIds /\ nextFile \in Nat \ {0} /\ nextFile # NoFile
    BY <1>1, CatalogueAssumption DEF StoreImage, Move, TypeOK, FileIds, NoFile
  <2>2. /\ m.file = nextFile /\ m.pc # "store"
        /\ m.copy = slot[r].copy /\ m.copies = slot[r].copies
    BY <1>l DEF Locals
  <2> HIDE DEF m
  <2>3. slot'[r] = m /\ \A q \in Requests : q # r => slot'[q] = slot[q]
    BY <1>l, <2>1
  <2>4. \A q \in Requests : slot[q].file \in 0 .. nextFile - 1 /\ slot[q].file # nextFile
    BY <2>1 DEF HeldInv
  <2>5. ASSUME NEW f, Unheld(f) PROVE Unheld(f)'
    BY <2>1, <2>2, <2>3, <2>5 DEF Unheld
  <2>6. slot[r].owner # None
    BY <1>1, CatalogueAssumption DEF StoreImage, HeldInv
  <2>7. files'[nextFile] # None /\ \A f \in 0 .. nextFile - 1 : f # NoFile => files'[f] = files[f]
    BY <2>1, <2>6 DEF TypeOK, FileIds, NoFile
  <2>8. ASSUME NEW o \in Owners PROVE Unheld(rows[o].image)'
    BY <2>1, <2>5 DEF HeldInv
  <2>9. ASSUME NEW q \in Requests
        PROVE  /\ At(q, "store")' => slot'[q].owner \in Owners
               /\ Unheld(slot[q].copy.image)'
               /\ \A b \in Boxes : Unheld(slot[q].copies[b].image)'
    <3>1. Unheld(slot[q].copy.image) /\ \A b \in Boxes : Unheld(slot[q].copies[b].image)
      BY DEF HeldInv
    <3>2. slot'[q].copy = slot[q].copy /\ slot'[q].copies = slot[q].copies
      BY <2>2, <2>3
    <3>3. At(q, "store")' => slot'[q].owner \in Owners
      BY <2>2, <2>3 DEF At, HeldInv
    <3>4. Unheld(slot[q].copy.image)' /\ \A b \in Boxes : Unheld(slot[q].copies[b].image)'
      BY <2>5, <3>1, <3>2
    <3>5. QED
      BY <3>3, <3>4
  <2>10. ASSUME NEW q \in Requests
         PROVE  /\ slot'[q].file \in 0 .. nextFile' - 1
                /\ slot'[q].file # NoFile =>
                     /\ files'[slot'[q].file] # None
                     /\ \A p \in Requests : slot'[p].file = slot'[q].file => p = q
    BY <2>1, <2>2, <2>3, <2>4, <2>7 DEF HeldInv
  <2>11. QED
    BY <2>8, <2>9, <2>10 DEF HeldInv
<1>2. CASE DeleteOld(r)
  <2> DEFINE m == [slot[r] EXCEPT !.pc = "save"]
  <2>1. /\ Move(r, m) /\ UNCHANGED <<rows, nextFile>>
        /\ \/ files' = [files EXCEPT ![slot[r].copy.image] = None]
           \/ files' = files
    BY <1>2 DEF DeleteOld
  <2>2. /\ m \in Locals /\ m.file = slot[r].file /\ m.pc # "store"
        /\ m.copy = slot[r].copy /\ m.copies = slot[r].copies
    BY <1>l DEF Locals
  <2>3. \A q \in Requests : slot[q].file # NoFile => slot[q].file # slot[r].copy.image
    BY DEF HeldInv, Unheld
  <2>4. \A q \in Requests : slot[q].file # NoFile => files'[slot[q].file] # None
    <3>1. \A q \in Requests : slot[q].file # NoFile =>
            slot[q].file \in FileIds /\ files[slot[q].file] # None
      BY DEF HeldInv, TypeOK, Locals
    <3>2. QED
      BY <2>1, <2>3, <3>1 DEF TypeOK
  <2> HIDE DEF m
  <2>5. \A o \in Owners : Unheld(rows'[o].image)
    BY <2>1 DEF HeldInv
  <2>6. Unheld(m.copy.image) /\ \A b \in Boxes : Unheld(m.copies[b].image)
    BY <2>2 DEF HeldInv
  <2>7. QED
    BY <2>1, <2>2, <2>4, <2>5, <2>6, HeldKept
<1>3. CASE Save(r)
  <2>1. \A o \in Owners : \/ rows'[o] = rows[o] \/ rows'[o] = slot[r].copy
                           \/ rows'[o] = [slot[r].copy EXCEPT !.image = slot[r].file]
    BY <1>3, PutWrites DEF Save
  <2>2. [slot[r].copy EXCEPT !.image = slot[r].file].image = slot[r].file
    BY <1>l DEF Locals, Rows
  <2>3. \A o \in Owners : Unheld(rows'[o].image) \/ rows'[o].image = slot[r].file
    BY <2>1, <2>2 DEF HeldInv
  <2>4. QED
    BY <1>3, <2>3, HeldFreed DEF Save
<1>4. QED
  BY <1>1, <1>2, <1>3

\* The other steps name no file and store none.
LEMMA HeldContinue ==
    ASSUME TypeOK, HeldInv, NEW r \in Requests, Continue(r)
    PROVE  HeldInv'
<1>l. slot[r] \in Locals /\ TypeOK'
  BY SlotTypes, TypeContinue
<1>n. Unheld(NoFile) /\ \A o \in Owners : Unheld(rows[o].image)
  BY CatalogueAssumption DEF TypeOK, HeldInv, Unheld, NoFile
<1>1. CASE Delete(r)
  <2>1. [NoRow EXCEPT !.is = "deleted"].image = NoFile
    BY DEF NoRow
  <2>2. \A o \in Owners : Unheld(rows'[o].image)
    BY <1>1, <1>n, <2>1 DEF Delete, TypeOK
  <2>3. QED
    BY <1>1, <2>2, HeldFreed DEF Delete
<1>2. CASE DropProduct(r)
  <2>1. \A o \in Owners : rows'[o].image = rows[o].image
    BY <1>2 DEF DropProduct, TypeOK, Rows
  <2>2. \A o \in Owners : Unheld(rows'[o].image)
    BY <1>n, <2>1
  <2>3. QED
    BY <1>2, <2>2, HeldFreed DEF DropProduct
<1>3. CASE FindProducts(r)
  <2> DEFINE m == [slot[r] EXCEPT !.pc = "save", !.copy.products = @ \union slot[r].list]
  <2>1. CASE Finish(r)
    BY <1>3, <1>n, <2>1, HeldFreed DEF FindProducts
  <2>2. CASE Move(r, m)
    <3>1. /\ m.file = slot[r].file /\ m.pc # "store" /\ m.copies = slot[r].copies
          /\ m.copy.image = slot[r].copy.image
      BY <1>l DEF Locals, Rows
    <3>2. m \in Locals
      BY <1>l, <2>2 DEF Move, TypeOK
    <3> HIDE DEF m
    <3>3. QED
      BY <1>3, <1>n, <2>2, <3>1, <3>2, HeldKept DEF FindProducts, HeldInv
  <2>3. QED
    BY <1>3, <2>1, <2>2 DEF FindProducts
<1>4. CASE FindSku(r)
  <2> DEFINE m == [slot[r] EXCEPT !.pc = "insertSku"]
  <2>1. CASE \E d \in ProductIds : Got(r, d)
    BY <1>4, <2>1, HeldGot DEF FindSku
  <2>2. CASE Move(r, m)
    <3>1. /\ m \in Locals /\ m.file = slot[r].file /\ m.pc # "store"
          /\ m.copies = slot[r].copies /\ m.copy = slot[r].copy
      BY <1>l DEF Locals
    <3> HIDE DEF m
    <3>2. QED
      BY <1>4, <1>n, <2>2, <3>1, HeldKept DEF FindSku, HeldInv
  <2>3. QED
    BY <1>4, <2>1, <2>2 DEF FindSku, WithSku
<1>5. CASE InsertSku(r)
  BY <1>5, HeldGot DEF InsertSku
<1>6. CASE FindPlans(r)
  <2> DEFINE lacking == {b \in SeedBoxes : IsRow(b) /\ ~(slot[r].list \subseteq rows[b].products)}
             m == [slot[r] EXCEPT !.pc = "assign", !.todo = lacking,
                                  !.copies = [b \in Boxes |-> rows[b]]]
  <2>1. CASE Finish(r)
    BY <1>6, <1>n, <2>1, HeldFreed DEF FindPlans
  <2>2. CASE Move(r, m)
    <3>1. /\ m.file = slot[r].file /\ m.pc # "store" /\ m.copy = slot[r].copy
          /\ \A b \in Boxes : m.copies[b] = rows[b]
      BY <1>l DEF Locals
    <3>2. m \in Locals
      BY <1>l, <2>2 DEF Move, TypeOK
    <3> HIDE DEF m
    <3>3. \A b \in Boxes : Unheld(m.copies[b].image)
      BY <1>n, <3>1 DEF Owners
    <3>4. QED
      BY <1>6, <1>n, <2>2, <3>1, <3>2, <3>3, HeldKept DEF FindPlans, HeldInv
  <2>3. QED
    BY <1>6, <2>1, <2>2 DEF FindPlans
<1>7. CASE Assign(r)
  <2>1. PICK b \in slot[r].todo :
            /\ Put(b, [slot[r].copies[b] EXCEPT !.products = @ \union slot[r].list])
            /\ \/ Finish(r)
               \/ Move(r, [slot[r] EXCEPT !.todo = @ \ {b}])
    BY <1>7 DEF Assign
  <2> DEFINE copy == [slot[r].copies[b] EXCEPT !.products = @ \union slot[r].list]
             m == [slot[r] EXCEPT !.todo = @ \ {b}]
  <2>2. b \in Boxes /\ copy.image = slot[r].copies[b].image
    BY <1>l DEF Locals, Rows
  <2>3. \A o \in Owners : rows'[o] = rows[o] \/ rows'[o] = copy
    BY <2>1, PutWrites
  <2> HIDE DEF copy
  <2>4. \A o \in Owners : Unheld(rows'[o].image)
    BY <1>n, <2>2, <2>3 DEF HeldInv
  <2>5. CASE Finish(r)
    BY <1>7, <2>4, <2>5, HeldFreed DEF Assign
  <2>6. CASE Move(r, m)
    <3>1. /\ m \in Locals /\ m.file = slot[r].file /\ m.pc # "store"
          /\ m.copies = slot[r].copies /\ m.copy = slot[r].copy
      BY <1>l, <1>7 DEF Locals, Assign, At
    <3> HIDE DEF m
    <3>2. QED
      BY <1>7, <2>4, <2>6, <3>1, HeldKept DEF Assign, HeldInv
  <2>7. QED
    BY <2>1, <2>5, <2>6
<1>8. QED
  BY <1>1, <1>2, <1>3, <1>4, <1>5, <1>6, <1>7, HeldUpload DEF Continue

LEMMA HeldNext == TypeOK /\ HeldInv /\ [Next]_vars => HeldInv'
<1> SUFFICES ASSUME TypeOK, HeldInv, [Next]_vars PROVE HeldInv'
  OBVIOUS
<1>1. ASSUME NEW r \in Requests, Fail(r) PROVE HeldInv'
  <2>1. \A o \in Owners : Unheld(rows'[o].image)
    BY <1>1 DEF Fail, HeldInv
  <2>2. QED
    BY <1>1, <2>1, HeldFreed DEF Fail
<1>2. ASSUME NEW o \in Owners, Create(o) PROVE HeldInv'
  <2>1. \A p \in Owners : rows'[p].image = rows[p].image
    BY <1>2 DEF Create, TypeOK, Rows
  <2>2. UNCHANGED <<files, nextFile, slot>>
    BY <1>2 DEF Create
  <2>3. QED
    BY <2>1, <2>2 DEF HeldInv, Unheld, At
<1>3. ASSUME NEW sku \in Skus, CreateProduct(sku) PROVE HeldInv'
  BY <1>3 DEF CreateProduct, HeldInv, Unheld, At
<1>4. CASE UNCHANGED vars
  BY <1>4 DEF vars, HeldInv, Unheld, At
<1>5. QED
  BY <1>1, <1>2, <1>3, <1>4, HeldArrive, HeldContinue DEF Next

\* Whatever overlaps and whatever fails: the file an upload has stored is there until
\* the upload has named it.
THEOREM HeldFileStays == Spec => []HeldFileExists
<1>1. Init => TypeOK /\ HeldInv
  BY TypeInit, HeldInit
<1>2. TypeOK /\ HeldInv /\ [Next]_vars => (TypeOK /\ HeldInv)'
  BY TypeNext, HeldNext
<1>3. HeldInv => HeldFileExists
  BY DEF HeldInv, HeldFileExists
<1>4. QED
  BY <1>1, <1>2, <1>3, PTL DEF Spec

-----------------------------------------------------------------------------
(* Uploads that overlap each other only.                                    *)

Uploads == {"uploadImage", "uploadProfileImage"}

\* Whatever else writes rows is sent when nothing is under way.
WritersAlone == Ops \ Uploads \subseteq Alone

Busy(l)      == l.pc # "idle"
Uploading(l) == Busy(l) /\ l.op \in Uploads

Holds(o, copy) == rows[o].is = "stored" /\ rows[o].image = copy.image

\* What a handler has at which step: an upload a copy that can be saved, another writer
\* a copy with the image the row has now, and so has an upload that runs alone.
Fits(l) ==
    /\ Busy(l) => l.op \in Ops
    /\ Uploading(l) =>
         /\ \/ l.pc = "store" /\ l.file = NoFile
            \/ l.pc \in {"deleteOld", "save"} /\ l.file # NoFile
         /\ l.owner \in Owners /\ l.copy.is = "stored" /\ l.copy.products \subseteq Exists
         /\ l.op = "uploadImage" <=> l.owner \in Boxes
         /\ l.op \in Alone => Holds(l.owner, l.copy)
    /\ ~Uploading(l) => l.pc \notin {"store", "deleteOld"} /\ l.file = NoFile
    /\ ~Uploading(l) /\ l.pc \in {"findProducts", "save"} =>
         l.owner \in Owners /\ l.copy.is = "stored" /\ Holds(l.owner, l.copy)
    /\ l.pc = "assign" =>
         \A b \in l.todo : l.copies[b].is = "stored" /\ Holds(b, l.copies[b])

StepInv  == \A r \in Requests : Fits(slot[r])
AloneInv == \A q, r \in Requests :
                Busy(slot[r]) /\ slot[r].op \in Alone /\ Busy(slot[q]) => q = r
RowInv   == \A o \in Owners : /\ rows[o].is = "unused" => rows[o].image = NoFile
                              /\ rows[o].products \subseteq Exists
SoloInv  == StepInv /\ AloneInv /\ RowInv

LEMMA SoloInit == Init => SoloInv
BY DEF Init, SoloInv, StepInv, Fits, Holds, AloneInv, RowInv, Busy, Uploading, Idle, NoRow

\* Two handlers at once are two uploads.
LEMMA TwoUploads ==
    ASSUME WritersAlone, SoloInv, NEW q \in Requests, NEW r \in Requests, q # r,
           Busy(slot[q]), Busy(slot[r])
    PROVE  Uploading(slot[q]) /\ Uploading(slot[r])
BY DEF WritersAlone, SoloInv, StepInv, Fits, Holds, AloneInv, Uploading

\* The step of a handler: if it is no upload nobody else is there to see it.
LEMMA SoloKept ==
    ASSUME TypeOK, WritersAlone, SoloInv, NEW r \in Requests, NEW l, Move(r, l),
           Busy(slot[r]), Busy(l) => l.op = slot[r].op, Fits(l)',
           Uploading(slot[r]) => products' = products
    PROVE  StepInv' /\ AloneInv'
<1>1. slot'[r] = l /\ \A q \in Requests : q # r => slot'[q] = slot[q]
  BY DEF Move, TypeOK
<1>2. ASSUME NEW q \in Requests PROVE Fits(slot[q])'
  <2>1. CASE q = r
    BY <1>1, <2>1 DEF Fits, Holds, Busy, Uploading, Exists
  <2>2. CASE q # r /\ ~Busy(slot[q])
    BY <1>1, <2>2 DEF SoloInv, StepInv, Fits, Holds, Busy, Uploading
  <2>3. CASE q # r /\ Busy(slot[q])
    <3>1. Uploading(slot[q]) /\ products' = products /\ Fits(slot[q])
      BY <2>3, TwoUploads DEF SoloInv, StepInv
    <3>2. slot[q].pc # "assign" /\ slot[q].op \notin Alone
      BY <2>3, <3>1 DEF Fits, SoloInv, AloneInv
    <3>3. QED
      BY <1>1, <2>3, <3>1, <3>2 DEF Fits, Holds, Busy, Uploading, Exists
  <2>4. QED
    BY <2>1, <2>2, <2>3
<1>3. AloneInv'
  BY <1>1 DEF SoloInv, AloneInv, Busy
<1>4. QED
  BY <1>2, <1>3 DEF StepInv

LEMMA SoloFreed ==
    ASSUME TypeOK, WritersAlone, SoloInv, NEW r \in Requests, Finish(r), Busy(slot[r]),
           Uploading(slot[r]) => products' = products
    PROVE  StepInv' /\ AloneInv'
<1>1. Idle.pc = "idle" /\ Idle.file = NoFile
  BY DEF Idle
<1>2. Fits(Idle)' /\ ~Busy(Idle)
  BY <1>1 DEF Fits, Holds, Busy, Uploading
<1>3. QED
  BY <1>2, SoloKept DEF Finish

\* A handler begins.
LEMMA SoloArrive ==
    ASSUME TypeOK, WritersAlone, SoloInv, NEW r \in Requests, Arrive(r)
    PROVE  SoloInv'
<1>0. slot \in [Requests -> Locals] /\ rows \in [Owners -> Rows] /\ UNCHANGED <<rows, products>>
  BY DEF TypeOK, Arrive, UploadRead, RemoveRead, EditUserRead, AddRead, RemoveProductsRead,
         RemoveProductRead, SeedStart
<1>1. ASSUME NEW m, Move(r, m), m.op \in Ops, At(r, "idle"), m.op \in Alone => Quiet,
             \A q \in Requests : slot[q].op \notin Alone, Fits(m)
      PROVE  SoloInv'
  <2>1. slot'[r] = m /\ \A q \in Requests : q # r => slot'[q] = slot[q]
    BY <1>0, <1>1 DEF Move
  <2>2. ASSUME NEW q \in Requests PROVE Fits(slot[q])'
    <3>1. Fits(slot'[q])
      BY <1>1, <2>1 DEF SoloInv, StepInv
    <3>2. QED
      BY <1>0, <3>1 DEF Fits, Holds, Uploading, Busy, Exists
  <2>3. AloneInv'
    BY <1>1, <2>1 DEF AloneInv, SoloInv, Busy, Quiet, At
  <2>4. QED
    BY <1>0, <2>2, <2>3 DEF SoloInv, StepInv, RowInv, Exists
<1>2. ASSUME NEW o \in Owners, UploadRead(r, o) PROVE SoloInv'
  <2> DEFINE op == IF o \in Boxes THEN "uploadImage" ELSE "uploadProfileImage"
             m  == [[Idle EXCEPT !.pc = "store", !.owner = o, !.copy = rows[o]] EXCEPT !.op = op]
  <2>1. /\ m.pc = "store" /\ m.owner = o /\ m.copy = rows[o] /\ m.op = op /\ m.file = NoFile
        /\ op \in Uploads /\ (op = "uploadImage" <=> o \in Boxes)
    BY DEF Idle, Uploads
  <2>2. Move(r, m) /\ op \in Ops /\ At(r, "idle") /\ (op \in Alone => Quiet)
        /\ \A q \in Requests : slot[q].op \notin Alone
    BY <1>2 DEF UploadRead, Accept
  <2>3. rows[o].is = "stored" /\ rows[o].products \subseteq Exists
    BY <1>2 DEF UploadRead, IsRow, SoloInv, RowInv
  <2> HIDE DEF m, op
  <2>4. Fits(m)
    BY <2>1, <2>2, <2>3 DEF Fits, Holds, Busy, Uploading
  <2>5. QED
    BY <1>1, <2>1, <2>2, <2>4
<1>3. ASSUME NEW op \in AllOps \ Uploads, NEW l, Accept(r, op, l), [l EXCEPT !.op = op].op = op,
             [l EXCEPT !.op = op].file = NoFile,
             [l EXCEPT !.op = op].pc \in {"delete", "dropProduct", "findSku"}
      PROVE  SoloInv'
  <2> DEFINE m == [l EXCEPT !.op = op]
  <2>1. Move(r, m) /\ op \in Ops /\ At(r, "idle") /\ (op \in Alone => Quiet)
        /\ \A q \in Requests : slot[q].op \notin Alone
    BY <1>3 DEF Accept
  <2>2. m.op = op /\ m.file = NoFile /\ m.pc \in {"delete", "dropProduct", "findSku"}
    BY <1>3
  <2> HIDE DEF m
  <2>3. Fits(m)
    BY <2>1, <2>2 DEF Fits, Holds, Busy, Uploading
  <2>4. QED
    BY <1>1, <2>1, <2>2, <2>3
<1>4. ASSUME NEW o \in Owners, NEW op \in AllOps \ Uploads, NEW l, Accept(r, op, l), IsRow(o),
             [l EXCEPT !.op = op].op = op, [l EXCEPT !.op = op].file = NoFile,
             [l EXCEPT !.op = op].pc \in {"findProducts", "save"},
             [l EXCEPT !.op = op].owner = o,
             [l EXCEPT !.op = op].copy.is = rows[o].is,
             [l EXCEPT !.op = op].copy.image = rows[o].image
      PROVE  SoloInv'
  <2> DEFINE m == [l EXCEPT !.op = op]
  <2>1. Move(r, m) /\ op \in Ops /\ At(r, "idle") /\ (op \in Alone => Quiet)
        /\ \A q \in Requests : slot[q].op \notin Alone
    BY <1>4 DEF Accept
  <2>2. /\ m.op = op /\ m.file = NoFile /\ m.pc \in {"findProducts", "save"}
        /\ m.owner = o /\ m.copy.is = rows[o].is /\ m.copy.image = rows[o].image
    BY <1>4
  <2> HIDE DEF m
  <2>3. Fits(m)
    BY <1>4, <2>1, <2>2 DEF Fits, Holds, Busy, Uploading, IsRow
  <2>4. QED
    BY <1>1, <2>1, <2>2, <2>3
<1>5. ASSUME NEW o \in Owners, RemoveRead(r, o) PROVE SoloInv'
  BY <1>3, <1>5 DEF RemoveRead, Idle, AllOps, Uploads
<1>6. ASSUME NEW d \in ProductIds, RemoveProductRead(r, d) PROVE SoloInv'
  BY <1>3, <1>6 DEF RemoveProductRead, Idle, AllOps, Uploads
<1>7. CASE SeedStart(r)
  BY <1>3, <1>7 DEF SeedStart, Idle, AllOps, Uploads
<1>8. ASSUME NEW u \in People, EditUserRead(r, u) PROVE SoloInv'
  BY <1>4, <1>8 DEF EditUserRead, Idle, AllOps, Uploads, Owners
<1>9. ASSUME NEW b \in Boxes, NEW list \in SUBSET ProductIds, AddRead(r, b, list) PROVE SoloInv'
  BY <1>4, <1>9 DEF AddRead, Idle, AllOps, Uploads, Owners
<1>10. ASSUME NEW b \in Boxes, NEW list \in SUBSET ProductIds, RemoveProductsRead(r, b, list)
       PROVE  SoloInv'
  <2> DEFINE copy == [rows[b] EXCEPT !.products = @ \ list]
             l    == [Idle EXCEPT !.pc = "save", !.owner = b, !.copy = copy, !.list = list]
  <2>1. copy.is = rows[b].is /\ copy.image = rows[b].image /\ b \in Owners
    BY <1>0 DEF Rows, Owners
  <2> HIDE DEF copy
  <2>2. LET m == [l EXCEPT !.op = "removeProducts"]
        IN  /\ m.op = "removeProducts" /\ m.file = NoFile /\ m.pc = "save"
            /\ m.owner = b /\ m.copy = copy
    BY DEF Idle
  <2>3. Accept(r, "removeProducts", l) /\ IsRow(b)
    BY <1>10 DEF RemoveProductsRead, copy
  <2> HIDE DEF l
  <2>4. "removeProducts" \in AllOps \ Uploads
    BY DEF AllOps, Uploads
  <2>5. QED
    BY <1>4, <2>1, <2>2, <2>3, <2>4
<1>11. QED
  BY <1>2, <1>5, <1>6, <1>7, <1>8, <1>9, <1>10 DEF Arrive

\* What a handler saves is a row, whose products exist.
LEMMA PutRow ==
    ASSUME TypeOK, RowInv, NEW o, NEW copy, copy.is = "stored", Put(o, copy),
           products' = products
    PROVE  RowInv'
<1>1. ASSUME NEW p \in Owners
      PROVE  /\ rows'[p].is = "unused" => rows'[p].image = NoFile
             /\ rows'[p].products \subseteq Exists
  <2>1. rows'[p] = rows[p] \/ (rows'[p] = copy /\ copy.products \subseteq Exists)
    BY DEF Put, TypeOK
  <2>2. QED
    BY <2>1 DEF RowInv
<1>2. QED
  BY <1>1 DEF RowInv, Exists

\* The steps of an upload.
LEMMA SoloUpload ==
    ASSUME TypeOK, WritersAlone, SoloInv, NEW r \in Requests,
           StoreImage(r) \/ DeleteOld(r) \/ Save(r)
    PROVE  SoloInv'
<1>l. slot[r] \in Locals /\ Fits(slot[r]) /\ products' = products
  BY SlotTypes DEF SoloInv, StepInv, StoreImage, DeleteOld, Save
<1>1. CASE StoreImage(r)
  <2>1. PICK m : m = [slot[r] EXCEPT !.file = nextFile,
                          !.pc = IF slot[r].copy.image = NoFile THEN "save" ELSE "deleteOld"]
    OBVIOUS
  <2>2. Move(r, m) /\ rows' = rows /\ slot[r].pc = "store" /\ nextFile # NoFile
    BY <1>1, <2>1, CatalogueAssumption DEF StoreImage, At, TypeOK, NoFile
  <2>3. /\ m.pc \in {"save", "deleteOld"} /\ m.file = nextFile /\ m.op = slot[r].op
        /\ m.owner = slot[r].owner /\ m.copy = slot[r].copy
    BY <1>l, <2>1 DEF Locals
  <2>4. Fits(m)' /\ Busy(slot[r])
    BY <1>l, <2>2, <2>3 DEF Fits, Holds, Busy, Uploading, Exists
  <2>5. QED
    BY <1>l, <2>2, <2>3, <2>4, SoloKept DEF SoloInv, RowInv, Exists
<1>2. CASE DeleteOld(r)
  <2>1. PICK m : m = [slot[r] EXCEPT !.pc = "save"]
    OBVIOUS
  <2>2. Move(r, m) /\ rows' = rows /\ slot[r].pc = "deleteOld"
    BY <1>2, <2>1 DEF DeleteOld, At
  <2>3. /\ m.pc = "save" /\ m.file = slot[r].file /\ m.op = slot[r].op
        /\ m.owner = slot[r].owner /\ m.copy = slot[r].copy
    BY <1>l, <2>1 DEF Locals
  <2>4. Fits(m)' /\ Busy(slot[r])
    BY <1>l, <2>2, <2>3 DEF Fits, Holds, Busy, Uploading, Exists
  <2>5. QED
    BY <1>l, <2>2, <2>3, <2>4, SoloKept DEF SoloInv, RowInv, Exists
<1>3. CASE Save(r)
  <2>1. Finish(r) /\ slot[r].pc = "save" /\ slot[r].copy.is = "stored"
    BY <1>3, <1>l DEF Save, At, Fits, Holds, Busy, Uploading
  <2>2. [slot[r].copy EXCEPT !.image = slot[r].file].is = "stored"
    BY <1>l, <2>1 DEF Locals, Rows
  <2>3. RowInv'
    BY <1>3, <1>l, <2>1, <2>2, PutRow DEF Save, SoloInv
  <2>4. StepInv' /\ AloneInv'
    BY <1>l, <2>1, SoloFreed DEF Busy
  <2>5. QED
    BY <2>3, <2>4 DEF SoloInv
<1>4. QED
  BY <1>1, <1>2, <1>3

\* The step from a seed to the next one.
LEMMA SoloGot ==
    ASSUME TypeOK, WritersAlone, SoloInv, NEW r \in Requests, NEW d \in ProductIds, Got(r, d),
           slot[r].pc \in {"findSku", "insertSku"}
    PROVE  StepInv' /\ AloneInv'
<1>1. PICK l : l = [slot[r] EXCEPT !.list = @ \union {d},
                        !.pc = IF slot[r].k = Len(SeedSkus) THEN "findPlans" ELSE "findSku",
                        !.k = IF slot[r].k = Len(SeedSkus) THEN 1 ELSE @ + 1]
  OBVIOUS
<1>2. slot[r] \in Locals /\ Move(r, l) /\ Fits(slot[r])
  BY <1>1, SlotTypes DEF Got, SoloInv, StepInv
<1>3. l.pc \in {"findPlans", "findSku"} /\ l.op = slot[r].op /\ l.file = slot[r].file
  BY <1>1, <1>2 DEF Locals
<1>4. Fits(l)' /\ Busy(slot[r]) /\ ~Uploading(slot[r])
  BY <1>2, <1>3 DEF Fits, Holds, Busy, Uploading
<1>5. QED
  BY <1>2, <1>3, <1>4, SoloKept

LEMMA SoloContinue ==
    ASSUME TypeOK, WritersAlone, SoloInv, NEW r \in Requests, Continue(r)
    PROVE  SoloInv'
<1>l. slot[r] \in Locals /\ Fits(slot[r])
  BY SlotTypes DEF SoloInv, StepInv
<1>p. ASSUME rows' = rows, Exists \subseteq Exists' PROVE RowInv'
  BY <1>p DEF SoloInv, RowInv
<1>w. ASSUME slot[r].pc \notin {"idle", "store", "deleteOld", "save"}
      PROVE  Busy(slot[r]) /\ ~Uploading(slot[r])
  BY <1>l, <1>w DEF Fits, Holds, Busy, Uploading
<1>1. CASE Delete(r)
  <2>1. StepInv' /\ AloneInv'
    BY <1>1, <1>w, SoloFreed DEF Delete, At
  <2>2. [NoRow EXCEPT !.is = "deleted"].products = {} /\ [NoRow EXCEPT !.is = "deleted"].is = "deleted"
    BY DEF NoRow
  <2>3. RowInv'
    BY <1>1, <2>2 DEF Delete, TypeOK, SoloInv, RowInv, Exists
  <2>4. QED
    BY <2>1, <2>3 DEF SoloInv
<1>2. CASE DropProduct(r)
  <2>1. StepInv' /\ AloneInv'
    BY <1>2, <1>w, SoloFreed DEF DropProduct, At
  <2>2. ASSUME NEW o \in Owners
        PROVE  /\ rows'[o].is = rows[o].is /\ rows'[o].image = rows[o].image
               /\ rows'[o].products = rows[o].products \ slot[r].list
    BY <1>2 DEF DropProduct, TypeOK, Rows
  <2>3. Exists \ slot[r].list \subseteq Exists'
    BY <1>2 DEF DropProduct, Exists
  <2>4. RowInv'
    BY <2>2, <2>3 DEF SoloInv, RowInv
  <2>5. QED
    BY <2>1, <2>4 DEF SoloInv
<1>3. CASE FindProducts(r)
  <2>0. rows' = rows /\ Exists' = Exists /\ slot[r].pc = "findProducts"
    BY <1>3 DEF FindProducts, Exists, At
  <2>1. CASE Finish(r)
    BY <1>p, <1>w, <2>0, <2>1, SoloFreed DEF SoloInv
  <2>2. CASE ~Finish(r)
    <3>1. PICK m : m = [slot[r] EXCEPT !.pc = "save", !.copy.products = @ \union slot[r].list]
      OBVIOUS
    <3>2. Move(r, m)
      BY <1>3, <2>2, <3>1 DEF FindProducts
    <3>3. /\ m.pc = "save" /\ m.file = slot[r].file /\ m.op = slot[r].op
          /\ m.owner = slot[r].owner
          /\ m.copy.is = slot[r].copy.is /\ m.copy.image = slot[r].copy.image
      BY <1>l, <3>1 DEF Locals, Rows
    <3>4. Fits(m)'
      BY <1>l, <1>w, <2>0, <3>3 DEF Fits, Holds, Busy, Uploading
    <3>5. QED
      BY <1>p, <1>w, <2>0, <3>2, <3>3, <3>4, SoloKept DEF SoloInv
  <2>3. QED
    BY <2>1, <2>2
<1>4. CASE FindSku(r)
  <2>0. rows' = rows /\ Exists' = Exists /\ slot[r].pc = "findSku"
    BY <1>4 DEF FindSku, Exists, At
  <2>1. CASE \E d \in ProductIds : Got(r, d)
    BY <1>p, <2>0, <2>1, SoloGot DEF SoloInv
  <2>2. CASE Move(r, [slot[r] EXCEPT !.pc = "insertSku"])
    <3>1. PICK m : m = [slot[r] EXCEPT !.pc = "insertSku"]
      OBVIOUS
    <3>2. m.pc = "insertSku" /\ m.file = slot[r].file /\ m.op = slot[r].op
      BY <1>l, <3>1 DEF Locals
    <3>3. Fits(m)'
      BY <1>l, <1>w, <2>0, <3>2 DEF Fits, Holds, Busy, Uploading
    <3>4. QED
      BY <1>p, <1>w, <2>0, <2>2, <3>1, <3>2, <3>3, SoloKept DEF SoloInv
  <2>3. QED
    BY <1>4, <2>1, <2>2 DEF FindSku, WithSku
<1>5. CASE InsertSku(r)
  <2>1. PICK d \in ProductIds : products' = [products EXCEPT ![d] = SeedSkus[slot[r].k]] /\ Got(r, d)
    BY <1>5 DEF InsertSku
  <2>2. SeedSkus[slot[r].k] \in Skus
    BY <1>l DEF Locals, Skus, Seeded
  <2>3. Exists \subseteq Exists'
    BY <2>1, <2>2, CatalogueAssumption DEF Exists, TypeOK
  <2>4. rows' = rows /\ slot[r].pc = "insertSku"
    BY <1>5 DEF InsertSku, At
  <2>5. QED
    BY <1>p, <2>1, <2>3, <2>4, SoloGot DEF SoloInv
<1>6. CASE FindPlans(r)
  <2>0. rows' = rows /\ Exists' = Exists /\ slot[r].pc = "findPlans"
    BY <1>6 DEF FindPlans, Exists, At
  <2>1. CASE Finish(r)
    BY <1>p, <1>w, <2>0, <2>1, SoloFreed DEF SoloInv
  <2>2. CASE ~Finish(r)
    <3>1. PICK S, m : /\ S \subseteq {b \in SeedBoxes : IsRow(b)} /\ Move(r, m)
                      /\ m = [slot[r] EXCEPT !.pc = "assign", !.todo = S,
                                             !.copies = [b \in Boxes |-> rows[b]]]
      BY <1>6, <2>2 DEF FindPlans
    <3>2. /\ m.pc = "assign" /\ m.file = slot[r].file /\ m.op = slot[r].op /\ m.todo = S
          /\ m.copies = [b \in Boxes |-> rows[b]]
      BY <1>l, <3>1 DEF Locals
    <3>3. \A b \in S : m.copies[b] = rows[b] /\ rows[b].is = "stored"
      BY <3>1, <3>2, CatalogueAssumption DEF IsRow
    <3>4. Fits(m)'
      BY <1>l, <1>w, <2>0, <3>2, <3>3 DEF Fits, Holds, Busy, Uploading
    <3>5. QED
      BY <1>p, <1>w, <2>0, <3>1, <3>2, <3>4, SoloKept DEF SoloInv
  <2>3. QED
    BY <2>1, <2>2
<1>7. CASE Assign(r)
  <2>0. slot[r].pc = "assign" /\ products' = products
    BY <1>7 DEF Assign, At
  <2>1. PICK b \in slot[r].todo :
            /\ Put(b, [slot[r].copies[b] EXCEPT !.products = @ \union slot[r].list])
            /\ \/ Finish(r)
               \/ Move(r, [slot[r] EXCEPT !.todo = @ \ {b}])
    BY <1>7 DEF Assign
  <2>2. PICK copy : copy = [slot[r].copies[b] EXCEPT !.products = @ \union slot[r].list]
    OBVIOUS
  <2>3. Put(b, copy) /\ copy.is = "stored" /\ b \in Boxes
    <3>1. b \in Boxes /\ slot[r].copies[b] \in Rows /\ slot[r].copies[b].is = "stored"
      BY <1>l, <2>0 DEF Locals, Fits, Holds
    <3>2. QED
      BY <2>1, <2>2, <3>1 DEF Rows
  <2>4. RowInv'
    BY <2>0, <2>3, PutRow DEF SoloInv
  <2>5. CASE Finish(r)
    BY <1>w, <2>0, <2>4, <2>5, SoloFreed DEF SoloInv
  <2>6. CASE ~Finish(r)
    <3>1. PICK m : m = [slot[r] EXCEPT !.todo = @ \ {b}]
      OBVIOUS
    <3>2. Move(r, m)
      BY <2>1, <2>6, <3>1
    <3>3. /\ m.pc = "assign" /\ m.file = slot[r].file /\ m.op = slot[r].op
          /\ m.todo = slot[r].todo \ {b} /\ m.copies = slot[r].copies
      BY <1>l, <2>0, <3>1 DEF Locals
    <3>4. \A c \in m.todo : c # b /\ c \in slot[r].todo /\ rows'[c] = rows[c]
      BY <1>l, <2>3, <3>3 DEF Put, TypeOK, Locals, Owners
    <3>5. Fits(m)'
      BY <1>l, <1>w, <2>0, <3>3, <3>4 DEF Fits, Holds, Busy, Uploading
    <3>6. QED
      BY <1>w, <2>0, <2>4, <3>2, <3>3, <3>5, SoloKept DEF SoloInv
  <2>7. QED
    BY <2>5, <2>6
<1>8. QED
  BY <1>1, <1>2, <1>3, <1>4, <1>5, <1>6, <1>7, SoloUpload DEF Continue

LEMMA SoloNext == TypeOK /\ WritersAlone /\ SoloInv /\ [Next]_vars => SoloInv'
<1> SUFFICES ASSUME TypeOK, WritersAlone, SoloInv, [Next]_vars PROVE SoloInv'
  OBVIOUS
<1>1. ASSUME NEW r \in Requests, Fail(r) PROVE SoloInv'
  <2>1. StepInv' /\ AloneInv'
    BY <1>1, SoloFreed DEF Fail, Busy, At
  <2>2. QED
    BY <1>1, <2>1 DEF Fail, SoloInv, RowInv, Exists
<1>2. ASSUME NEW o \in Owners, Create(o) PROVE SoloInv'
  <2>1. \A p \in Owners : /\ rows'[p].image = rows[p].image
                          /\ rows'[p].products = rows[p].products
                          /\ rows'[p].is = "unused" => rows[p].is = "unused"
                          /\ rows[p].is = "stored" => rows'[p].is = "stored"
    BY <1>2 DEF Create, TypeOK, Rows
  <2>2. slot' = slot /\ products' = products
    BY <1>2 DEF Create
  <2>3. ASSUME NEW q \in Requests PROVE Fits(slot[q])'
    <3>1. Fits(slot[q]) /\ slot[q] \in Locals
      BY SlotTypes DEF SoloInv, StepInv
    <3>2. slot[q].pc = "assign" => 
            \A b \in slot[q].todo : Holds(b, slot[q].copies[b]) => Holds(b, slot[q].copies[b])'
      BY <2>1, <2>2, <3>1 DEF Locals, Owners, Holds
    <3>3. QED
      BY <2>1, <2>2, <3>1, <3>2 DEF Fits, Holds, Busy, Uploading, Exists
  <2>4. QED
    BY <2>1, <2>2, <2>3 DEF SoloInv, StepInv, AloneInv, RowInv, Exists
<1>3. ASSUME NEW sku \in Skus, CreateProduct(sku) PROVE SoloInv'
  <2>1. Exists \subseteq Exists' /\ rows' = rows /\ slot' = slot
    BY <1>3, CatalogueAssumption DEF CreateProduct, Exists, TypeOK
  <2>2. QED
    BY <2>1 DEF SoloInv, StepInv, Fits, Holds, Busy, Uploading, AloneInv, RowInv
<1>4. CASE UNCHANGED vars
  BY <1>4 DEF vars, SoloInv, StepInv, Fits, Holds, Busy, Uploading, AloneInv, RowInv, Exists
<1>5. QED
  BY <1>1, <1>2, <1>3, <1>4, SoloArrive, SoloContinue DEF Next

\* The image of a row changes to the file of an upload of it, or goes with the row.
LEMMA ImageMoves ==
    ASSUME TypeOK, WritersAlone, SoloInv, NEW r \in Requests, Continue(r), NEW o \in Owners
    PROVE  \/ rows'[o].image = rows[o].image
           \/ rows'[o].image = NoFile /\ rows'[o].is = "deleted"
           \/ /\ Save(r) /\ Uploading(slot[r]) /\ o = slot[r].owner
              /\ rows'[o].image = slot[r].file
<1>l. slot[r] \in Locals /\ Fits(slot[r]) /\ rows \in [Owners -> Rows]
  BY SlotTypes DEF SoloInv, StepInv, TypeOK
<1>1. CASE rows' = rows
  BY <1>1
<1>2. CASE Save(r)
  <2>0. slot[r].pc = "save" /\ slot[r].owner \in Owners
    BY <1>2, <1>l DEF Save, At, Fits, Holds, Busy
  <2>1. CASE Uploading(slot[r])
    <3>1. slot[r].file # NoFile
      BY <1>l, <2>0, <2>1 DEF Fits, Holds
    <3>2. [slot[r].copy EXCEPT !.image = slot[r].file].image = slot[r].file
      BY <1>l DEF Locals, Rows
    <3>3. PICK copy : copy.image = slot[r].file /\ Put(slot[r].owner, copy)
      BY <1>2, <3>1, <3>2 DEF Save
    <3>4. QED
      BY <1>2, <1>l, <2>1, <3>3 DEF Put
  <2>2. CASE ~Uploading(slot[r])
    <3>1. slot[r].copy.image = rows[slot[r].owner].image /\ Put(slot[r].owner, slot[r].copy)
      BY <1>2, <1>l, <2>0, <2>2 DEF Save, Fits, Holds
    <3>2. QED
      BY <1>l, <3>1 DEF Put
  <2>3. QED
    BY <2>1, <2>2
<1>3. CASE Delete(r)
  <2>1. LET row == [NoRow EXCEPT !.is = "deleted"]
        IN  row.image = NoFile /\ row.is = "deleted"
    BY DEF NoRow
  <2>2. QED
    BY <1>3, <1>l, <2>1 DEF Delete
<1>4. CASE DropProduct(r)
  BY <1>4, <1>l DEF DropProduct, Rows
<1>5. CASE Assign(r)
  <2>1. PICK b \in slot[r].todo :
            Put(b, [slot[r].copies[b] EXCEPT !.products = @ \union slot[r].list])
    BY <1>5 DEF Assign
  <2>2. /\ b \in Boxes
        /\ [slot[r].copies[b] EXCEPT !.products = @ \union slot[r].list].image = rows[b].image
    BY <1>5, <1>l DEF Locals, Rows, Fits, Holds, Assign, At
  <2>3. QED
    BY <1>l, <2>1, <2>2 DEF Put
<1>6. QED
  BY <1>1, <1>2, <1>3, <1>4, <1>5
     DEF Continue, StoreImage, DeleteOld, FindProducts, FindSku, InsertSku, FindPlans

\* An upload keeps what it has read, and stores one file.
LEMMA UploadMoves ==
    ASSUME TypeOK, SoloInv, NEW r \in Requests, Continue(r), Uploading(slot'[r])
    PROVE  /\ Uploading(slot[r])
           /\ slot'[r].owner = slot[r].owner /\ slot'[r].copy = slot[r].copy
           /\ \/ DeleteOld(r) /\ slot'[r].file = slot[r].file
              \/ StoreImage(r) /\ slot'[r].file = nextFile
<1>l. /\ slot \in [Requests -> Locals] /\ slot[r] \in Locals /\ Fits(slot[r])
      /\ \A l : Move(r, l) => slot'[r] = l
  BY DEF TypeOK, Move, SoloInv, StepInv
<1>1. ~Finish(r)
  BY <1>l DEF Finish, Idle, Uploading, Busy
<1>2. slot'[r].op = slot[r].op /\ Busy(slot[r])
  BY <1>1, <1>l DEF Continue, StoreImage, DeleteOld, Save, Delete, FindProducts, DropProduct,
                    FindSku, InsertSku, FindPlans, Assign, Got, Locals, At, Busy
<1>3. Uploading(slot[r])
  BY <1>2 DEF Uploading
<1>4. StoreImage(r) \/ DeleteOld(r) \/ Save(r)
  BY <1>3, <1>l DEF Fits, Holds, Continue, StoreImage, DeleteOld, Save, Delete, FindProducts, DropProduct,
                    FindSku, InsertSku, FindPlans, Assign, At
<1>5. CASE StoreImage(r)
  BY <1>5, <1>3, <1>l DEF StoreImage, Locals
<1>6. CASE DeleteOld(r)
  BY <1>6, <1>3, <1>l DEF DeleteOld, Locals
<1>7. QED
  BY <1>1, <1>4, <1>5, <1>6 DEF Save

\* A handler begins with no file; only an upload begins with "store".
LEMMA ArriveSlot ==
    ASSUME TypeOK, NEW r \in Requests, Arrive(r)
    PROVE  /\ slot'[r].file = NoFile
           /\ \/ /\ slot'[r].pc = "store" /\ slot'[r].owner \in Owners /\ IsRow(slot'[r].owner)
                 /\ slot'[r].copy = rows[slot'[r].owner]
              \/ slot'[r].pc # "store" /\ ~Uploading(slot'[r])
<1>0. slot \in [Requests -> Locals]
  BY DEF TypeOK
<1>1. ASSUME NEW op \in AllOps \ Uploads, NEW l, Accept(r, op, l), [l EXCEPT !.op = op].op = op,
             [l EXCEPT !.op = op].file = NoFile, [l EXCEPT !.op = op].pc # "store"
      PROVE  slot'[r].file = NoFile /\ slot'[r].pc # "store" /\ ~Uploading(slot'[r])
  BY <1>0, <1>1 DEF Accept, Move, Uploading
<1> USE DEF Idle, AllOps, Uploads
<1>2. ASSUME NEW o \in Owners, UploadRead(r, o)
      PROVE  /\ slot'[r].file = NoFile
             /\ slot'[r].pc = "store" /\ slot'[r].owner = o /\ IsRow(o)
             /\ slot'[r].copy = rows[o]
  BY <1>0, <1>2 DEF UploadRead, Accept, Move
<1>3. ASSUME NEW o \in Owners, RemoveRead(r, o)
      PROVE  slot'[r].file = NoFile /\ slot'[r].pc # "store" /\ ~Uploading(slot'[r])
  BY <1>1, <1>3 DEF RemoveRead
<1>4. ASSUME NEW u \in People, EditUserRead(r, u)
      PROVE  slot'[r].file = NoFile /\ slot'[r].pc # "store" /\ ~Uploading(slot'[r])
  BY <1>1, <1>4 DEF EditUserRead
<1>5. ASSUME NEW b \in Boxes, NEW list \in SUBSET ProductIds, AddRead(r, b, list)
      PROVE  slot'[r].file = NoFile /\ slot'[r].pc # "store" /\ ~Uploading(slot'[r])
  BY <1>1, <1>5 DEF AddRead
<1>6. ASSUME NEW b \in Boxes, NEW list \in SUBSET ProductIds, RemoveProductsRead(r, b, list)
      PROVE  slot'[r].file = NoFile /\ slot'[r].pc # "store" /\ ~Uploading(slot'[r])
  BY <1>1, <1>6 DEF RemoveProductsRead
<1>7. ASSUME NEW d \in ProductIds, RemoveProductRead(r, d)
      PROVE  slot'[r].file = NoFile /\ slot'[r].pc # "store" /\ ~Uploading(slot'[r])
  BY <1>1, <1>7 DEF RemoveProductRead
<1>8. ASSUME SeedStart(r)
      PROVE  slot'[r].file = NoFile /\ slot'[r].pc # "store" /\ ~Uploading(slot'[r])
  BY <1>1, <1>8 DEF SeedStart
<1>9. QED
  BY <1>2, <1>3, <1>4, <1>5, <1>6, <1>7, <1>8 DEF Arrive

\* An image that a row names, or that an upload of it will name or replace.
Claim(f, o) ==
    \/ rows[o].image = f
    \/ \E r \in Requests : /\ Uploading(slot[r]) /\ slot[r].owner = o
                           /\ f \in {slot[r].copy.image, slot[r].file}

OwnInv == \A f \in FileIds : \A o, p \in Owners : Claim(f, o) /\ Claim(f, p) => o = p

\* An image is claimed by whoever claimed it before, or by the upload that stores it.
LEMMA ClaimStep ==
    ASSUME TypeOK, WritersAlone, SoloInv, [Next]_vars,
           NEW f \in FileIds, NEW o \in Owners, Claim(f, o)'
    PROVE  \/ Claim(f, o)
           \/ f = nextFile /\ \E r \in Requests : slot'[r].file = f /\ slot'[r].owner = o
<1>0. /\ slot \in [Requests -> Locals] /\ rows \in [Owners -> Rows] /\ f # NoFile
      /\ \A l : \A q, r \in Requests : Move(r, l) /\ q # r => slot'[q] = slot[q]
  BY CatalogueAssumption DEF TypeOK, FileIds, NoFile, Move
<1>1. ASSUME NEW r \in Requests, Continue(r)
      PROVE  \/ Claim(f, o)
             \/ f = nextFile /\ \E q \in Requests : slot'[q].file = f /\ slot'[q].owner = o
  <2>0. \A q \in Requests : q # r => slot'[q] = slot[q]
    BY <1>0, <1>1 DEF Continue, StoreImage, DeleteOld, Save, Delete, FindProducts, DropProduct,
                      FindSku, InsertSku, FindPlans, Assign, Got, Finish
  <2>1. CASE rows'[o].image = f
    BY <1>0, <1>1, <2>1, ImageMoves DEF Claim
  <2>2. CASE \E q \in Requests : /\ Uploading(slot'[q]) /\ slot'[q].owner = o
                                 /\ f \in {slot'[q].copy.image, slot'[q].file}
    <3>1. PICK q \in Requests : /\ Uploading(slot'[q]) /\ slot'[q].owner = o
                                /\ f \in {slot'[q].copy.image, slot'[q].file}
      BY <2>2
    <3>2. CASE q # r
      BY <2>0, <3>1, <3>2 DEF Claim
    <3>3. CASE q = r
      BY <1>1, <3>1, <3>3, UploadMoves DEF Claim
    <3>4. QED
      BY <3>2, <3>3
  <2>3. QED
    BY <2>1, <2>2 DEF Claim, Uploading, Busy
<1>2. ASSUME NEW r \in Requests, Arrive(r) PROVE Claim(f, o)
  <2>0. rows' = rows /\ \A q \in Requests : q # r => slot'[q] = slot[q]
    BY <1>0, <1>2 DEF Arrive, UploadRead, RemoveRead, EditUserRead, AddRead, RemoveProductsRead,
                      RemoveProductRead, SeedStart, Accept
  <2>1. Uploading(slot'[r]) => /\ slot'[r].copy = rows[slot'[r].owner]
                               /\ slot'[r].file = NoFile
    BY <1>2, ArriveSlot
  <2>2. QED
    BY <1>0, <2>0, <2>1 DEF Claim, Uploading, Busy
<1>3. ASSUME NEW r \in Requests, Fail(r) PROVE Claim(f, o)
  <2>1. slot'[r] = Idle /\ rows' = rows /\ \A q \in Requests : q # r => slot'[q] = slot[q]
    BY <1>0, <1>3 DEF Fail, Finish, Move
  <2>2. ~Uploading(slot'[r])
    BY <2>1 DEF Uploading, Busy, Idle
  <2>3. QED
    BY <2>1, <2>2 DEF Claim, Uploading, Busy
<1>4. ASSUME NEW p \in Owners, Create(p) PROVE Claim(f, o)
  <2>1. rows'[o].image = rows[o].image /\ slot' = slot
    BY <1>0, <1>4 DEF Create, Rows
  <2>2. QED
    BY <2>1 DEF Claim, Uploading, Busy
<1>5. ASSUME NEW sku \in Skus, CreateProduct(sku) PROVE Claim(f, o)
  BY <1>5 DEF CreateProduct, Claim, Uploading, Busy
<1>6. CASE UNCHANGED vars
  BY <1>6 DEF vars, Claim, Uploading, Busy
<1>7. QED
  BY <1>1, <1>2, <1>3, <1>4, <1>5, <1>6 DEF Next

LEMMA OwnNext ==
    TypeOK /\ WritersAlone /\ HeldInv /\ SoloInv /\ OwnInv /\ [Next]_vars => OwnInv'
<1> SUFFICES ASSUME TypeOK, WritersAlone, HeldInv, SoloInv, OwnInv, [Next]_vars,
                    NEW f \in FileIds, NEW o \in Owners, NEW p \in Owners,
                    Claim(f, o)', Claim(f, p)'
             PROVE  o = p
  BY DEF OwnInv
<1>1. HeldInv' /\ f # NoFile
  BY HeldNext, CatalogueAssumption DEF FileIds, NoFile
<1>2. CASE f # nextFile
  BY <1>2, ClaimStep DEF OwnInv
<1>3. CASE f = nextFile
  <2>1. ASSUME NEW s \in Owners PROVE ~Claim(f, s)
    BY <1>1, <1>3, CatalogueAssumption DEF Claim, HeldInv, Unheld, TypeOK
  <2>2. PICK r \in Requests : slot'[r].file = f /\ slot'[r].owner = o
    BY <2>1, ClaimStep
  <2>3. PICK q \in Requests : slot'[q].file = f /\ slot'[q].owner = p
    BY <2>1, ClaimStep
  <2>4. QED
    BY <1>1, <2>2, <2>3 DEF HeldInv
<1>4. QED
  BY <1>2, <1>3

\* While nothing has failed, an image is there or an upload of its row is at its last step.
Covered(o) == \E q \in Requests : /\ Uploading(slot[q]) /\ slot[q].pc = "save"
                                  /\ slot[q].owner = o

NamedInv == \A o \in Owners : \/ rows[o].image = NoFile \/ Present(rows[o].image)
                              \/ Covered(o)

\* A step that changes no image and deletes no file, of no upload that has come to its end.
LEMMA NamedKept ==
    ASSUME TypeOK, NamedInv, NEW r \in Requests, NEW l, Move(r, l),
           ~(Uploading(slot[r]) /\ slot[r].pc = "save"),
           \A f \in FileIds : files[f] # None => files'[f] # None,
           \A o \in Owners : rows'[o].image \in {rows[o].image, NoFile}
    PROVE  NamedInv'
<1>1. \A q \in Requests : q # r => slot'[q] = slot[q]
  BY DEF Move, TypeOK
<1>2. ASSUME NEW o \in Owners, rows'[o].image # NoFile
      PROVE  Present(rows[o].image)' \/ Covered(o)'
  <2>1. CASE Present(rows[o].image)
    BY <1>2, <2>1 DEF Present
  <2>2. CASE Covered(o)
    BY <1>1, <2>2 DEF Covered, Uploading, Busy
  <2>3. QED
    BY <1>2, <2>1, <2>2 DEF NamedInv
<1>3. QED
  BY <1>2 DEF NamedInv

LEMMA NamedStep ==
    ASSUME TypeOK, WritersAlone, HeldInv, SoloInv, OwnInv, NamedInv, [Next]_vars, fails' = fails
    PROVE  NamedInv'
<1>0. /\ slot \in [Requests -> Locals] /\ rows \in [Owners -> Rows]
      /\ files \in [FileIds -> Owners \union {None}]
      /\ \A l : \A q, r \in Requests : Move(r, l) /\ q # r => slot'[q] = slot[q]
  BY DEF TypeOK, Move
<1>1. ASSUME NEW r \in Requests, Arrive(r) PROVE NamedInv'
  <2>1. /\ rows' = rows /\ files' = files /\ slot[r].pc = "idle"
        /\ \E l : Move(r, l)
    BY <1>1 DEF Arrive, UploadRead, RemoveRead, EditUserRead, AddRead, RemoveProductsRead,
                RemoveProductRead, SeedStart, Accept, At
  <2>2. QED
    BY <2>1, NamedKept
<1>2. ASSUME NEW r \in Requests, DeleteOld(r) PROVE NamedInv'
  <2>0. /\ slot[r] \in Locals /\ Fits(slot[r]) /\ slot[r].pc = "deleteOld"
        /\ rows' = rows /\ Move(r, [slot[r] EXCEPT !.pc = "save"])
        /\ files' = [files EXCEPT ![slot[r].copy.image] = None]
    BY <1>0, <1>2, CatalogueAssumption DEF DeleteOld, SoloInv, StepInv, At, TypeOK
  <2>1. Uploading(slot[r]) /\ slot[r].owner \in Owners
    BY <2>0 DEF Fits, Holds
  <2>2. slot'[r].pc = "save" /\ slot'[r].owner = slot[r].owner /\ Uploading(slot'[r])
    BY <1>0, <2>0, <2>1 DEF Move, Locals, Uploading, Busy
  <2>3. ASSUME NEW o \in Owners, rows[o].image # NoFile
        PROVE  Present(rows[o].image)' \/ Covered(o)'
    <3>1. rows[o].image \in FileIds
      BY <1>0, <2>3 DEF Rows
    <3>2. CASE rows[o].image = slot[r].copy.image
      <4>1. Claim(rows[o].image, o) /\ Claim(rows[o].image, slot[r].owner)
        BY <2>1, <3>2 DEF Claim
      <4>2. o = slot[r].owner
        BY <2>1, <3>1, <4>1 DEF OwnInv
      <4>3. QED
        BY <2>2, <4>2 DEF Covered, Uploading, Busy
    <3>3. CASE rows[o].image # slot[r].copy.image
      <4>1. CASE Present(rows[o].image)
        BY <1>0, <2>0, <3>1, <3>3, <4>1 DEF Present
      <4>2. CASE Covered(o)
        BY <1>0, <2>0, <2>2, <4>2 DEF Covered, Uploading, Busy
      <4>3. QED
        BY <2>3, <4>1, <4>2 DEF NamedInv
    <3>4. QED
      BY <3>2, <3>3
  <2>4. QED
    BY <2>0, <2>3 DEF NamedInv
<1>3. ASSUME NEW r \in Requests, Save(r), Uploading(slot[r]) PROVE NamedInv'
  <2>0. /\ slot[r] \in Locals /\ Fits(slot[r]) /\ slot[r].pc = "save"
        /\ files' = files /\ \A q \in Requests : q # r => slot'[q] = slot[q]
    BY <1>0, <1>3 DEF Save, SoloInv, StepInv, At, Finish
  <2>1. /\ slot[r].file # NoFile /\ slot[r].owner \in Owners
        /\ slot[r].copy.products \subseteq Exists
    BY <1>3, <2>0 DEF Fits, Holds
  <2>2. PICK copy : /\ copy = [slot[r].copy EXCEPT !.image = slot[r].file]
                    /\ Put(slot[r].owner, copy)
    BY <1>3, <2>1 DEF Save
  <2>3. copy.image = slot[r].file /\ copy.products \subseteq Exists
    BY <2>0, <2>1, <2>2 DEF Locals, Rows
  <2>4. rows' = [rows EXCEPT ![slot[r].owner] = copy]
    BY <2>2, <2>3 DEF Put
  <2>5. ASSUME NEW o \in Owners, rows'[o].image # NoFile
        PROVE  Present(rows[o].image)' \/ Covered(o)'
    <3>1. CASE o = slot[r].owner
      <4>1. slot[r].file \in FileIds /\ files[slot[r].file] # None
        BY <2>0, <2>1 DEF HeldInv, Locals
      <4>2. rows'[o].image = slot[r].file
        BY <1>0, <2>3, <2>4, <3>1
      <4>3. QED
        BY <2>0, <4>1, <4>2 DEF Present
    <3>2. CASE o # slot[r].owner
      <4>1. rows'[o] = rows[o]
        BY <1>0, <2>4, <3>2
      <4>2. CASE Present(rows[o].image)
        BY <2>0, <4>1, <4>2 DEF Present
      <4>3. CASE Covered(o)
        BY <2>0, <3>2, <4>3 DEF Covered, Uploading, Busy
      <4>4. QED
        BY <2>5, <4>1, <4>2, <4>3 DEF NamedInv
    <3>3. QED
      BY <3>1, <3>2
  <2>6. QED
    BY <2>5 DEF NamedInv
<1>4. ASSUME NEW r \in Requests, Continue(r), ~DeleteOld(r), ~(Save(r) /\ Uploading(slot[r]))
      PROVE  NamedInv'
  <2>0. slot[r] \in Locals /\ Fits(slot[r]) /\ \E l : Move(r, l)
    BY <1>0, <1>4 DEF SoloInv, StepInv, Continue, StoreImage, DeleteOld, Save, Delete, FindProducts,
                DropProduct, FindSku, InsertSku, FindPlans, Assign, Got, Finish
  <2>1. ~(Uploading(slot[r]) /\ slot[r].pc = "save")
    BY <1>4 DEF Continue, StoreImage, Delete, FindProducts, DropProduct, FindSku, InsertSku,
                FindPlans, Assign, At
  <2>2. \A f \in FileIds : files[f] # None => files'[f] # None
    <3>1. CASE StoreImage(r)
      BY <1>0, <3>1, CatalogueAssumption DEF StoreImage, HeldInv
    <3>2. CASE files' = files
      BY <3>2
    <3>3. QED
      BY <1>4, <3>1, <3>2 DEF Continue, Save, Delete, FindProducts, DropProduct, FindSku, InsertSku,
                FindPlans, Assign
  <2>3. \A o \in Owners : rows'[o].image \in {rows[o].image, NoFile}
    BY <1>4, ImageMoves
  <2>4. QED
    BY <2>0, <2>1, <2>2, <2>3, NamedKept
<1>5. ASSUME NEW r \in Requests, Fail(r) PROVE FALSE
  BY <1>5, CatalogueAssumption DEF Fail, TypeOK
<1>6. ASSUME NEW o \in Owners, Create(o) PROVE NamedInv'
  <2>1. \A p \in Owners : rows'[p].image = rows[p].image
    BY <1>0, <1>6 DEF Create, Rows
  <2>2. UNCHANGED <<files, slot>>
    BY <1>6 DEF Create
  <2>3. QED
    BY <2>1, <2>2 DEF NamedInv, Present, Covered, Uploading, Busy
<1>7. ASSUME NEW sku \in Skus, CreateProduct(sku) PROVE NamedInv'
  BY <1>7 DEF CreateProduct, NamedInv, Present, Covered, Uploading, Busy
<1>8. CASE UNCHANGED vars
  BY <1>8 DEF vars, NamedInv, Present, Covered, Uploading, Busy
<1>9. QED
  BY <1>1, <1>2, <1>3, <1>4, <1>5, <1>6, <1>7, <1>8 DEF Next

\* Uploads may overlap each other, of the same row too, as long as every other handler runs
\* alone: when all is done and nothing has failed, no row names a file that is not there.
THEOREM NamedFileStays == WritersAlone => (Spec => []NamedFileExists)
<1> SUFFICES ASSUME WritersAlone PROVE Spec => []NamedFileExists
  OBVIOUS
<1> DEFINE Inv == /\ TypeOK /\ HeldInv /\ SoloInv /\ OwnInv
                  /\ fails = 0 => NamedInv
<1>1. Init => Inv
  <2>1. Init => OwnInv /\ NamedInv
    BY CatalogueAssumption DEF Init, OwnInv, NamedInv, Claim, NoRow, NoFile, Idle, Uploading, Busy,
       FileIds
  <2>2. QED
    BY <2>1, TypeInit, HeldInit, SoloInit
<1>2. Inv /\ [Next]_vars => Inv'
  <2> SUFFICES ASSUME Inv, [Next]_vars PROVE Inv'
    OBVIOUS
  <2>1. TypeOK' /\ HeldInv' /\ SoloInv' /\ OwnInv'
    BY TypeNext, HeldNext, SoloNext, OwnNext
  <2>2. fails \in Nat /\ (fails' = fails \/ fails' = fails + 1)
    <3>1. ASSUME NEW r \in Requests, Arrive(r) PROVE fails' = fails
      BY <3>1 DEF Arrive, UploadRead, RemoveRead, EditUserRead, AddRead, RemoveProductsRead,
                  RemoveProductRead, SeedStart
    <3>2. ASSUME NEW r \in Requests, Continue(r) \/ Fail(r)
          PROVE  fails' = fails \/ fails' = fails + 1
      BY <3>2 DEF Continue, StoreImage, DeleteOld, Save, Delete, FindProducts, DropProduct,
                  FindSku, InsertSku, FindPlans, Assign, Fail
    <3>3. QED
      BY <3>1, <3>2, CatalogueAssumption DEF Next, Create, CreateProduct, vars, TypeOK
  <2>3. fails' = 0 => fails' = fails
    BY <2>2
  <2>4. QED
    BY <2>1, <2>3, NamedStep
<1>3. Inv => NamedFileExists
  BY DEF NamedInv, NamedFileExists, Covered, Uploading, Busy, Quiet, At
<1>4. QED
  BY <1>1, <1>2, <1>3, PTL DEF Spec

-----------------------------------------------------------------------------
(* What uploads leave behind.                                               *)

\* Profile images are uploaded at any time, the rest is sent when nothing is under way.
PlansApart == Ops \ {"uploadProfileImage"} \subseteq Alone

\* No row goes back to what it was before its INSERT.
LEMMA NeverUnused ==
    ASSUME TypeOK, SoloInv, [Next]_vars, NEW o \in Owners, rows'[o].is = "unused"
    PROVE  rows[o].is = "unused"
<1>0. rows \in [Owners -> Rows]
  BY DEF TypeOK
<1>1. CASE rows' = rows
  BY <1>1
<1>2. ASSUME NEW r \in Requests, Save(r) PROVE rows[o].is = "unused"
  <2>1. slot[r].copy.is = "stored" /\ [slot[r].copy EXCEPT !.image = slot[r].file].is = "stored"
    BY <1>2, SlotTypes DEF Save, SoloInv, StepInv, Fits, At, Locals, Rows, Busy
  <2>2. PICK copy : copy.is = "stored" /\ Put(slot[r].owner, copy)
    BY <1>2, <2>1 DEF Save
  <2>3. QED
    BY <2>2, PutWrites
<1>3. ASSUME NEW r \in Requests, Assign(r) PROVE rows[o].is = "unused"
  <2>1. PICK b \in slot[r].todo :
            Put(b, [slot[r].copies[b] EXCEPT !.products = @ \union slot[r].list])
    BY <1>3 DEF Assign
  <2>2. [slot[r].copies[b] EXCEPT !.products = @ \union slot[r].list].is = "stored"
    BY <1>3, SlotTypes DEF Assign, SoloInv, StepInv, Fits, At, Locals, Rows
  <2>3. QED
    BY <2>1, <2>2, PutWrites
<1>4. ASSUME NEW r \in Requests, Delete(r) PROVE rows[o].is = "unused"
  BY <1>0, <1>4 DEF Delete, NoRow
<1>5. ASSUME NEW r \in Requests, DropProduct(r) PROVE rows[o].is = "unused"
  BY <1>0, <1>5 DEF DropProduct, Rows
<1>6. ASSUME NEW p \in Owners, Create(p) PROVE rows[o].is = "unused"
  BY <1>0, <1>6 DEF Create, Rows
<1>7. ASSUME NEW r \in Requests, Arrive(r) PROVE rows' = rows
  BY <1>7 DEF Arrive, UploadRead, RemoveRead, EditUserRead, AddRead, RemoveProductsRead,
              RemoveProductRead, SeedStart
<1>8. QED
  BY <1>1, <1>2, <1>3, <1>4, <1>5, <1>6, <1>7
     DEF Next, Continue, StoreImage, DeleteOld, FindProducts, FindSku, InsertSku, FindPlans, Fail,
         CreateProduct, vars

\* A file is in the folder of a row that was once stored, what an upload holds in its own.
FolderInv ==
    /\ \A f \in FileIds : files[f] # None => rows[files[f]].is # "unused"
    /\ \A r \in Requests :
        /\ slot[r].pc = "store" => rows[slot[r].owner].is # "unused"
        /\ slot[r].file # NoFile => files[slot[r].file] = slot[r].owner

LEMMA FolderInit == Init => FolderInv
BY DEF Init, FolderInv, Idle

LEMMA FolderNext ==
    TypeOK /\ HeldInv /\ SoloInv /\ FolderInv /\ [Next]_vars => FolderInv'
<1> SUFFICES ASSUME TypeOK, HeldInv, SoloInv, FolderInv, [Next]_vars PROVE FolderInv'
  OBVIOUS
<1>0. /\ slot \in [Requests -> Locals] /\ files \in [FileIds -> Owners \union {None}]
      /\ \A q \in Requests : slot[q].pc = "store" => slot[q].owner \in Owners
      /\ \A o \in Owners : rows'[o].is = "unused" => rows[o].is = "unused"
      /\ None \notin Owners
  BY NeverUnused, CatalogueAssumption DEF TypeOK, HeldInv, At
<1>1. ASSUME files' = files, slot' = slot PROVE FolderInv'
  BY <1>0, <1>1 DEF FolderInv
<1>2. ASSUME NEW r \in Requests, NEW l, Move(r, l),
             l.pc = "store" => l.owner \in Owners /\ rows[l.owner].is # "unused",
             l.file # NoFile => l.file = slot[r].file /\ l.owner = slot[r].owner,
             \A f \in FileIds : files'[f] # None => files'[f] = files[f],
             \A q \in Requests : slot[q].file # NoFile =>
                 files'[slot[q].file] = files[slot[q].file]
      PROVE  FolderInv'
  <2>1. slot'[r] = l /\ \A q \in Requests : q # r => slot'[q] = slot[q]
    BY <1>0, <1>2 DEF Move
  <2>2. \A f \in FileIds : files'[f] # None => rows'[files'[f]].is # "unused"
    BY <1>0, <1>2 DEF FolderInv
  <2>3. ASSUME NEW q \in Requests
        PROVE  /\ slot'[q].pc = "store" => rows'[slot'[q].owner].is # "unused"
               /\ slot'[q].file # NoFile => files'[slot'[q].file] = slot'[q].owner
    BY <1>0, <1>2, <2>1 DEF FolderInv
  <2>4. QED
    BY <2>2, <2>3 DEF FolderInv
<1>3. ASSUME NEW r \in Requests, Finish(r), files' = files PROVE FolderInv'
  <2>1. Idle.pc = "idle" /\ Idle.file = NoFile
    BY DEF Idle
  <2>2. QED
    BY <1>2, <1>3, <2>1 DEF Finish
<1>4. ASSUME NEW r \in Requests, NEW m, Move(r, m), m.pc # "store", m.file = slot[r].file,
             m.owner = slot[r].owner, files' = files
      PROVE  FolderInv'
  BY <1>2, <1>4
<1>5. ASSUME NEW r \in Requests, Arrive(r) PROVE FolderInv'
  <2>0. files' = files /\ \E l : Move(r, l)
    BY <1>5 DEF Arrive, UploadRead, RemoveRead, EditUserRead, AddRead, RemoveProductsRead,
                RemoveProductRead, SeedStart, Accept
  <2>1. PICK l : Move(r, l)
    BY <2>0
  <2>2. slot'[r] = l
    BY <1>0, <2>1 DEF Move
  <2>3. l.file = NoFile /\ (l.pc = "store" => l.owner \in Owners /\ rows[l.owner].is # "unused")
    BY <1>5, <2>2, ArriveSlot DEF IsRow
  <2>4. QED
    BY <1>2, <2>0, <2>1, <2>3
<1>6. ASSUME NEW r \in Requests, StoreImage(r) PROVE FolderInv'
  <2>1. PICK m : m = [slot[r] EXCEPT !.file = nextFile,
                          !.pc = IF slot[r].copy.image = NoFile THEN "save" ELSE "deleteOld"]
    OBVIOUS
  <2>2. /\ slot' = [slot EXCEPT ![r] = m] /\ slot[r].pc = "store"
        /\ files' = [files EXCEPT ![nextFile] = slot[r].owner]
        /\ nextFile \in FileIds /\ nextFile \in Nat
    BY <1>6, <2>1, CatalogueAssumption DEF StoreImage, Move, At, TypeOK, FileIds
  <2>3. m.pc # "store" /\ m.file = nextFile /\ m.owner = slot[r].owner
    BY <1>0, <2>1 DEF Locals
  <2>4. slot'[r] = m /\ \A q \in Requests : q # r => slot'[q] = slot[q]
    BY <1>0, <2>2
  <2>5. \A q \in Requests : slot[q].file # nextFile
    BY <2>2 DEF HeldInv
  <2>6. /\ files'[nextFile] = slot[r].owner
        /\ \A f \in FileIds : f # nextFile => files'[f] = files[f]
    BY <1>0, <2>2
  <2>7. slot[r].owner \in Owners /\ rows[slot[r].owner].is # "unused"
    BY <1>0, <2>2 DEF FolderInv
  <2>8. \A f \in FileIds : files'[f] # None => rows'[files'[f]].is # "unused"
    BY <1>0, <2>6, <2>7 DEF FolderInv
  <2>9. ASSUME NEW q \in Requests
        PROVE  /\ slot'[q].pc = "store" => rows'[slot'[q].owner].is # "unused"
               /\ slot'[q].file # NoFile => files'[slot'[q].file] = slot'[q].owner
    <3>1. CASE q = r
      BY <2>3, <2>4, <2>6, <3>1
    <3>2. CASE q # r
      <4>1. slot[q].file # NoFile => slot[q].file \in FileIds
        BY <1>0 DEF Locals
      <4>2. QED
        BY <1>0, <2>4, <2>5, <2>6, <3>2, <4>1 DEF FolderInv
    <3>3. QED
      BY <3>1, <3>2
  <2>10. QED
    BY <2>8, <2>9 DEF FolderInv
<1>7. ASSUME NEW r \in Requests, DeleteOld(r) PROVE FolderInv'
  <2>1. PICK m : m = [slot[r] EXCEPT !.pc = "save"]
    OBVIOUS
  <2>2. /\ Move(r, m)
        /\ files' = [files EXCEPT ![slot[r].copy.image] = None] \/ files' = files
    BY <1>7, <2>1 DEF DeleteOld
  <2>3. m.pc = "save" /\ m.file = slot[r].file /\ m.owner = slot[r].owner
    BY <1>0, <2>1 DEF Locals
  <2>4. \A q \in Requests : slot[q].file # NoFile => slot[q].file # slot[r].copy.image
    BY DEF HeldInv, Unheld
  <2>5. \A q \in Requests : slot[q].file # NoFile => slot[q].file \in FileIds
    BY <1>0 DEF Locals
  <2>6. /\ \A f \in FileIds : files'[f] # None => files'[f] = files[f]
        /\ \A q \in Requests : slot[q].file # NoFile => files'[slot[q].file] = files[slot[q].file]
    BY <1>0, <2>2, <2>4, <2>5
  <2>7. QED
    BY <1>2, <2>2, <2>3, <2>6
<1>8. ASSUME NEW r \in Requests, Continue(r), ~StoreImage(r), ~DeleteOld(r), ~Finish(r)
      PROVE  FolderInv'
  <2>1. files' = files /\ slot[r] \in Locals
    BY <1>0, <1>8 DEF Continue, Save, Delete, FindProducts, DropProduct, FindSku, InsertSku,
                FindPlans, Assign
  <2>2. PICK l : Move(r, l)
    BY <1>8 DEF Continue, Save, Delete, FindProducts, DropProduct, FindSku, InsertSku, FindPlans,
                Assign, Got
  <2>3. slot'[r] = l
    BY <1>0, <2>2 DEF Move
  <2>4. l.pc # "store" /\ l.file = slot[r].file /\ l.owner = slot[r].owner
    <3>1. ASSUME NEW d, Got(r, d) PROVE <2>4!:
      <4>1. l = [slot[r] EXCEPT !.list = @ \union {d},
                     !.pc = IF slot[r].k = Len(SeedSkus) THEN "findPlans" ELSE "findSku",
                     !.k = IF slot[r].k = Len(SeedSkus) THEN 1 ELSE @ + 1]
        BY <1>0, <2>3, <3>1 DEF Got, Move
      <4>2. QED
        BY <2>1, <4>1 DEF Locals
    <3>2. CASE FindProducts(r)
      BY <1>0, <1>8, <2>1, <2>3, <3>2 DEF FindProducts, Move, Locals
    <3>3. CASE FindPlans(r)
      <4>1. PICK S : l = [slot[r] EXCEPT !.pc = "assign", !.todo = S,
                                         !.copies = [b \in Boxes |-> rows[b]]]
        BY <1>0, <1>8, <2>3, <3>3 DEF FindPlans, Move
      <4>2. QED
        BY <2>1, <4>1 DEF Locals
    <3>4. CASE Assign(r)
      BY <1>0, <1>8, <2>1, <2>3, <3>4 DEF Assign, Move, Locals, At
    <3>5. CASE Move(r, [slot[r] EXCEPT !.pc = "insertSku"])
      BY <1>0, <2>1, <2>3, <3>5 DEF Move, Locals
    <3>6. QED
      BY <1>8, <3>1, <3>2, <3>3, <3>4, <3>5 DEF Continue, Save, Delete, DropProduct, FindSku,
         InsertSku
  <2>5. QED
    BY <1>4, <2>1, <2>2, <2>4
<1>9. ASSUME NEW r \in Requests, Fail(r) PROVE FolderInv'
  BY <1>3, <1>9 DEF Fail
<1>10. ASSUME NEW r \in Requests, Continue(r) PROVE FolderInv'
  <2>1. CASE Finish(r) /\ ~StoreImage(r) /\ ~DeleteOld(r)
    BY <1>3, <1>10, <2>1 DEF Continue, Save, Delete, FindProducts, DropProduct, FindSku, InsertSku,
                FindPlans, Assign
  <2>2. QED
    BY <1>6, <1>7, <1>8, <1>10, <2>1
<1>11. QED
  BY <1>1, <1>5, <1>9, <1>10 DEF Next, Create, CreateProduct, vars

\* Files in the folder of a plan that it does not name or is about to stop naming, and
\* that nobody is about to name.
Dropped(f, b) == /\ rows[b].is = "stored" /\ rows[b].image # f
                 /\ \A r \in Requests : slot[r].file # f
Leaving(f, b) == \E r \in Requests : /\ Uploading(slot[r]) /\ slot[r].pc = "save"
                                     /\ slot[r].owner = b /\ slot[r].copy.image = f
Left == {f \in FileIds : \E b \in Boxes : files[f] = b /\ (Dropped(f, b) \/ Leaving(f, b))}

\* No step brings a plan back, but the INSERT of a new one.
LEMMA PlanStays ==
    ASSUME TypeOK, PlansApart, SoloInv, NEW r \in Requests, Continue(r), NEW b \in Boxes,
           rows'[b].is = "stored"
    PROVE  rows[b].is = "stored"
<1>0. /\ rows \in [Owners -> Rows] /\ slot[r] \in Locals /\ Fits(slot[r]) /\ b \in Owners
      /\ \A o \in Boxes : o \in Owners
  BY SlotTypes DEF TypeOK, SoloInv, StepInv, Owners
<1>1. CASE rows' = rows
  BY <1>1
<1>2. CASE Save(r)
  <2>1. slot[r].pc = "save" /\ slot[r].owner \in Owners
    BY <1>2, <1>0 DEF Save, At, Fits, Busy
  <2>2. slot[r].owner \in Boxes => rows[slot[r].owner].is = "stored"
    BY <1>0, <2>1 DEF Fits, Holds, Uploading, Busy, PlansApart
  <2>3. PICK copy : Put(slot[r].owner, copy)
    BY <1>2 DEF Save
  <2>4. QED
    BY <1>0, <2>1, <2>2, <2>3 DEF Put
<1>3. CASE Delete(r)
  BY <1>0, <1>3 DEF Delete, NoRow
<1>4. CASE DropProduct(r)
  BY <1>0, <1>4 DEF DropProduct, Rows
<1>5. CASE Assign(r)
  <2>1. PICK c \in slot[r].todo :
            Put(c, [slot[r].copies[c] EXCEPT !.products = @ \union slot[r].list])
    BY <1>5 DEF Assign
  <2>2. rows[c].is = "stored"
    BY <1>0, <1>5 DEF Assign, At, Fits, Holds
  <2>3. QED
    BY <1>0, <2>1, <2>2 DEF Put
<1>6. QED
  BY <1>1, <1>2, <1>3, <1>4, <1>5
     DEF Continue, StoreImage, DeleteOld, FindProducts, FindSku, InsertSku, FindPlans

\* A step of one slot makes a file left only if it drops the file, or is about to.
LEMMA LeftKept ==
    ASSUME TypeOK, NEW r \in Requests, NEW l, Move(r, l), NEW f \in FileIds, NEW b \in Boxes,
           Dropped(f, b)' \/ Leaving(f, b)', files[f] = b,
           rows'[b].is = "stored" => rows[b].is = "stored",
           rows'[b].image # f => rows[b].image # f,
           slot[r].file # f,
           ~(Uploading(l) /\ l.pc = "save" /\ l.owner = b /\ l.copy.image = f)
    PROVE  f \in Left
<1>1. slot'[r] = l /\ \A q \in Requests : q # r => slot'[q] = slot[q]
  BY DEF TypeOK, Move
<1>2. CASE Dropped(f, b)'
  BY <1>1, <1>2 DEF Left, Dropped
<1>3. CASE Leaving(f, b)'
  BY <1>1, <1>3 DEF Left, Leaving, Uploading, Busy
<1>4. QED
  BY <1>2, <1>3

\* The steps of an upload of b.
LEMMA LeftUpload ==
    ASSUME TypeOK, PlansApart, HeldInv, SoloInv, FolderInv, NEW r \in Requests,
           StoreImage(r) \/ DeleteOld(r) \/ (Save(r) /\ Uploading(slot[r])),
           NEW f \in FileIds, NEW b \in Boxes, files'[f] = b, Dropped(f, b)' \/ Leaving(f, b)'
    PROVE  f \in Left \/ (f = slot[r].copy.image /\ fails' = fails + 1)
<1>0. /\ rows \in [Owners -> Rows] /\ slot[r] \in Locals /\ Fits(slot[r]) /\ b \in Owners
      /\ files \in [FileIds -> Owners \union {None}] /\ f # NoFile /\ b # None
  BY SlotTypes, CatalogueAssumption DEF TypeOK, SoloInv, StepInv, Owners, FileIds, NoFile
<1>1. CASE StoreImage(r)
  <2>1. PICK m : m = [slot[r] EXCEPT !.file = nextFile,
                          !.pc = IF slot[r].copy.image = NoFile THEN "save" ELSE "deleteOld"]
    OBVIOUS
  <2>2. /\ Move(r, m) /\ slot[r].pc = "store" /\ rows' = rows
        /\ files' = [files EXCEPT ![nextFile] = slot[r].owner]
    BY <1>1, <2>1 DEF StoreImage, At
  <2>3. m.file = nextFile /\ m.copy = slot[r].copy /\ (m.pc = "save" => m.copy.image = NoFile)
    BY <1>0, <2>1 DEF Locals
  <2>4. slot'[r] = m /\ \A q \in Requests : q # r => slot'[q] = slot[q]
    BY <2>2 DEF TypeOK, Move
  <2>5. f # nextFile
    <3>1. SUFFICES ASSUME f = nextFile PROVE FALSE
      OBVIOUS
    <3>2. ~Dropped(f, b)'
      BY <2>3, <2>4, <3>1 DEF Dropped
    <3>3. \A q \in Requests : slot'[q].copy = slot[q].copy /\ slot[q].copy.image # f
      BY <2>3, <2>4, <3>1, CatalogueAssumption DEF HeldInv, Unheld, TypeOK
    <3>4. ~Leaving(f, b)'
      BY <3>3 DEF Leaving
    <3>5. QED
      BY <3>2, <3>4
  <2>6. slot[r].file # f
    BY <1>0, <2>2 DEF Fits
  <2>7. QED
    BY <1>0, <2>2, <2>3, <2>5, <2>6, LeftKept
<1>2. CASE DeleteOld(r) /\ f # slot[r].copy.image
  <2>1. PICK m : m = [slot[r] EXCEPT !.pc = "save"]
    OBVIOUS
  <2>2. Move(r, m) /\ rows' = rows /\ m.copy = slot[r].copy /\ slot[r].pc = "deleteOld"
    BY <1>0, <1>2, <2>1 DEF DeleteOld, Locals, At
  <2>3. files[f] = b
    BY <1>0, <1>2 DEF DeleteOld
  <2>4. slot[r].file # f
    <3>1. CASE Dropped(f, b)'
      <4>1. slot'[r].file = slot[r].file
        BY <1>0, <2>1, <2>2 DEF Move, TypeOK, Locals
      <4>2. QED
        BY <3>1, <4>1 DEF Dropped
    <3>2. CASE Leaving(f, b)'
      <4>1. \A q \in Requests : slot'[q].copy = slot[q].copy
        BY <2>2 DEF Move, TypeOK
      <4>2. PICK q \in Requests : slot[q].copy.image = f
        BY <3>2, <4>1 DEF Leaving
      <4>3. QED
        BY <1>0, <4>2 DEF HeldInv, Unheld
    <3>3. QED
      BY <3>1, <3>2
  <2>5. QED
    BY <1>2, <2>2, <2>3, <2>4, LeftKept
<1>3. CASE DeleteOld(r) /\ f = slot[r].copy.image
  BY <1>0, <1>3 DEF DeleteOld
<1>4. CASE Save(r) /\ Uploading(slot[r])
  <2>1. /\ slot[r].pc = "save" /\ slot[r].file # NoFile /\ slot[r].owner \in Owners
        /\ slot[r].copy.products \subseteq Exists /\ files' = files /\ Finish(r)
    BY <1>0, <1>4 DEF Save, At, Fits
  <2>2. PICK copy : /\ copy = [slot[r].copy EXCEPT !.image = slot[r].file]
                    /\ Put(slot[r].owner, copy)
    BY <1>4, <2>1 DEF Save
  <2>3. copy.image = slot[r].file
    BY <1>0, <2>2 DEF Locals, Rows
  <2>4. rows' = [rows EXCEPT ![slot[r].owner] = copy]
    BY <2>1, <2>2 DEF Put, Locals, Rows
  <2>5. slot'[r] = Idle /\ \A q \in Requests : q # r => slot'[q] = slot[q]
    BY <2>1 DEF Finish, Move, TypeOK
  <2>6. f # slot[r].file
    <3>1. SUFFICES ASSUME f = slot[r].file PROVE FALSE
      OBVIOUS
    <3>2. b = slot[r].owner
      BY <2>1, <3>1 DEF FolderInv
    <3>3. ~Dropped(f, b)'
      BY <1>0, <2>3, <2>4, <3>1, <3>2 DEF Dropped
    <3>4. PICK q \in Requests : /\ Uploading(slot'[q]) /\ slot'[q].copy.image = f
      BY <3>3 DEF Leaving, Uploading, Busy
    <3>5. q # r
      BY <2>5, <3>4 DEF Uploading, Busy, Idle
    <3>6. slot[q].copy.image = f
      BY <2>5, <3>4, <3>5
    <3>7. QED
      BY <1>0, <3>1, <3>6 DEF HeldInv, Unheld
  <2>7. ~Uploading(Idle)
    BY DEF Uploading, Busy, Idle
  <2>8. CASE b # slot[r].owner
    <3>1. rows'[b] = rows[b]
      BY <1>0, <2>4, <2>8
    <3>2. QED
      BY <2>1, <2>6, <2>7, <3>1, LeftKept DEF Finish
  <2>9. CASE b = slot[r].owner
    <3>1. Holds(b, slot[r].copy)
      BY <1>0, <1>4, <2>1, <2>9 DEF Fits, Uploading, PlansApart
    <3>2. CASE f = slot[r].copy.image
      BY <1>4, <2>1, <2>9, <3>2 DEF Left, Leaving
    <3>3. CASE f # slot[r].copy.image
      BY <2>1, <2>6, <2>7, <3>1, <3>3, LeftKept DEF Finish, Holds
    <3>4. QED
      BY <3>2, <3>3
  <2>10. QED
    BY <2>8, <2>9
<1>5. QED
  BY <1>1, <1>2, <1>3, <1>4

\* Every step leaves at most one more file behind, and only if a call fails.
LEMMA LeftStep ==
    ASSUME TypeOK, PlansApart, HeldInv, SoloInv, FolderInv, [Next]_vars
    PROVE  \/ Left' \subseteq Left /\ fails' \in {fails, fails + 1}
           \/ \E g : Left' \subseteq Left \union {g} /\ fails' = fails + 1
<1>0. /\ slot \in [Requests -> Locals] /\ rows \in [Owners -> Rows] /\ WritersAlone
      /\ \A f \in FileIds : f # NoFile
      /\ \A b \in Boxes : b \in Owners /\ b # None
  BY CatalogueAssumption DEF TypeOK, WritersAlone, PlansApart, Uploads, FileIds, NoFile, Owners
<1>1. ASSUME NEW r \in Requests, Arrive(r) PROVE Left' \subseteq Left /\ fails' = fails
  <2>1. UNCHANGED <<rows, files, fails>> /\ slot[r].pc = "idle" /\ \E l : Move(r, l)
    BY <1>1 DEF Arrive, UploadRead, RemoveRead, EditUserRead, AddRead, RemoveProductsRead,
                RemoveProductRead, SeedStart, Accept, At
  <2>2. PICK l : Move(r, l)
    BY <2>1
  <2>3. slot'[r] = l
    BY <1>0, <2>2 DEF Move
  <2>4. ~(Uploading(l) /\ l.pc = "save") /\ slot[r].file = NoFile
    BY <1>1, <2>1, <2>3, ArriveSlot DEF SoloInv, StepInv, Fits, Uploading, Busy
  <2>5. ASSUME NEW f \in FileIds, NEW b \in Boxes, files[f] = b,
               Dropped(f, b)' \/ Leaving(f, b)'
        PROVE  f \in Left
    BY <1>0, <2>1, <2>2, <2>4, <2>5, LeftKept
  <2>6. QED
    BY <2>1, <2>5 DEF Left
<1>2. ASSUME NEW r \in Requests,
             StoreImage(r) \/ DeleteOld(r) \/ (Save(r) /\ Uploading(slot[r]))
      PROVE  \/ Left' \subseteq Left /\ fails' \in {fails, fails + 1}
             \/ Left' \subseteq Left \union {slot[r].copy.image} /\ fails' = fails + 1
  <2>1. fails' \in {fails, fails + 1}
    BY <1>2 DEF StoreImage, DeleteOld, Save
  <2>2. \A f \in Left' : f \in Left \/ (f = slot[r].copy.image /\ fails' = fails + 1)
    BY <1>2, LeftUpload DEF Left
  <2>3. QED
    BY <2>1, <2>2
<1>3. ASSUME NEW r \in Requests, Continue(r), ~StoreImage(r), ~DeleteOld(r),
             ~(Save(r) /\ Uploading(slot[r]))
      PROVE  Left' \subseteq Left /\ fails' = fails
  <2>1. files' = files /\ fails' = fails /\ slot[r] \in Locals /\ Fits(slot[r])
    BY <1>0, <1>3 DEF Continue, Save, Delete, FindProducts, DropProduct, FindSku, InsertSku,
                FindPlans, Assign, SoloInv, StepInv
  <2>2. PICK l : Move(r, l)
    BY <1>3 DEF Continue, Save, Delete, FindProducts, DropProduct, FindSku, InsertSku, FindPlans,
                Assign, Got, Finish
  <2>3. slot'[r] = l
    BY <1>0, <2>2 DEF Move
  <2>4. ~Uploading(l)
    BY <1>3, <2>3, UploadMoves
  <2>5. slot[r].file = NoFile
    <3>1. ~Uploading(slot[r])
      BY <1>3, <2>1 DEF Continue, Save, Delete, FindProducts, DropProduct, FindSku, InsertSku,
                FindPlans, Assign, At, Fits
    <3>2. QED
      BY <2>1, <3>1 DEF Fits
  <2>6. ASSUME NEW f \in FileIds, NEW b \in Boxes, files[f] = b,
               Dropped(f, b)' \/ Leaving(f, b)'
        PROVE  f \in Left
    <3>1. rows'[b].is = "stored" => rows[b].is = "stored"
      BY <1>3, PlanStays
    <3>2. CASE rows'[b].image = rows[b].image
      BY <1>0, <2>2, <2>4, <2>5, <2>6, <3>1, <3>2, LeftKept
    <3>3. CASE rows'[b].image # rows[b].image
      <4>1. ~Dropped(f, b)'
        BY <1>0, <1>3, <3>3, ImageMoves DEF Dropped
      <4>2. PICK q \in Requests : /\ Uploading(slot'[q]) /\ slot'[q].pc = "save"
                                  /\ slot'[q].owner = b /\ slot'[q].copy.image = f
        BY <2>6, <4>1 DEF Leaving, Uploading, Busy
      <4>3. slot'[q] = slot[q]
        BY <1>0, <2>2, <2>3, <2>4, <4>2 DEF Move
      <4>4. QED
        BY <2>6, <4>2, <4>3 DEF Left, Leaving
    <3>4. QED
      BY <3>2, <3>3
  <2>7. QED
    BY <2>1, <2>6 DEF Left
<1>4. ASSUME NEW r \in Requests, Fail(r)
      PROVE  Left' \subseteq Left \union {slot[r].file} /\ fails' = fails + 1
  <2>1. UNCHANGED <<rows, files>> /\ Move(r, Idle) /\ fails' = fails + 1
    BY <1>4 DEF Fail, Finish
  <2>2. ~Uploading(Idle)
    BY DEF Uploading, Busy, Idle
  <2>3. ASSUME NEW f \in FileIds, NEW b \in Boxes, files[f] = b, f # slot[r].file,
               Dropped(f, b)' \/ Leaving(f, b)'
        PROVE  f \in Left
    BY <2>1, <2>2, <2>3, LeftKept
  <2>4. QED
    BY <2>1, <2>3 DEF Left
<1>5. ASSUME NEW o \in Owners, Create(o) PROVE Left' \subseteq Left /\ fails' = fails
  <2>1. /\ UNCHANGED <<files, slot, fails>> /\ rows[o].is = "unused"
        /\ \A p \in Owners : p # o => rows'[p] = rows[p]
    BY <1>0, <1>5 DEF Create
  <2>2. ASSUME NEW f \in FileIds, NEW b \in Boxes, files[f] = b PROVE rows'[b] = rows[b]
    BY <1>0, <2>1, <2>2 DEF FolderInv
  <2>3. QED
    BY <2>1, <2>2 DEF Left, Dropped, Leaving, Uploading, Busy
<1>6. ASSUME NEW sku \in Skus, CreateProduct(sku) PROVE Left' = Left /\ fails' = fails
  BY <1>6 DEF CreateProduct, Left, Dropped, Leaving, Uploading, Busy
<1>7. ASSUME UNCHANGED vars PROVE Left' = Left /\ fails' = fails
  BY <1>7 DEF vars, Left, Dropped, Leaving, Uploading, Busy
<1>8. ASSUME NEW r \in Requests, Continue(r)
      PROVE  \/ Left' \subseteq Left /\ fails' \in {fails, fails + 1}
             \/ \E g : Left' \subseteq Left \union {g} /\ fails' = fails + 1
  BY <1>2, <1>3, <1>8
<1>9. QED
  BY <1>1, <1>4, <1>5, <1>6, <1>7, <1>8 DEF Next

\* Uploads of plans that do not overlap, beside uploads of profile images that do: when
\* nothing is under way, a plan's folder holds one file too many per failure at most.
THEOREM OrphansCostFailures == PlansApart => (Spec => []OneOrphanPerFailure)
<1> SUFFICES ASSUME PlansApart PROVE Spec => []OneOrphanPerFailure
  OBVIOUS
<1> DEFINE Inv == TypeOK /\ HeldInv /\ SoloInv /\ FolderInv /\ Cardinality(Left) <= fails
<1>0. /\ WritersAlone
      /\ IsFiniteSet(FileIds)
  BY FS_Interval, CatalogueAssumption DEF WritersAlone, PlansApart, Uploads, FileIds
<1>1. Init => Inv
  <2> SUFFICES ASSUME Init PROVE Inv
    OBVIOUS
  <2>1. Left = {}
    BY CatalogueAssumption DEF Init, Left, Owners
  <2>2. QED
    BY <2>1, TypeInit, HeldInit, SoloInit, FolderInit, FS_EmptySet DEF Init
<1>2. Inv /\ [Next]_vars => Inv'
  <2> SUFFICES ASSUME Inv, [Next]_vars PROVE Inv'
    OBVIOUS
  <2>1. TypeOK' /\ HeldInv' /\ SoloInv' /\ FolderInv' /\ fails \in Nat
    BY <1>0, TypeNext, HeldNext, SoloNext, FolderNext, CatalogueAssumption DEF TypeOK
  <2>2. IsFiniteSet(Left) /\ IsFiniteSet(Left')
    BY <1>0, FS_Subset DEF Left
  <2>3. Cardinality(Left) \in Nat /\ Cardinality(Left') \in Nat
    BY <2>2, FS_CardinalityType
  <2>4. Cardinality(Left') <= fails'
    <3>1. CASE Left' \subseteq Left /\ fails' \in {fails, fails + 1}
      <4>1. Cardinality(Left') <= Cardinality(Left)
        BY <2>2, <3>1, FS_Subset
      <4>2. QED
        BY <2>1, <2>3, <3>1, <4>1
    <3>2. ASSUME NEW g, Left' \subseteq Left \union {g}, fails' = fails + 1
          PROVE  Cardinality(Left') <= fails'
      <4>1. IsFiniteSet(Left \union {g}) /\ Cardinality(Left \union {g}) <= Cardinality(Left) + 1
        BY <2>2, <2>3, FS_AddElement
      <4>2. Cardinality(Left') <= Cardinality(Left \union {g})
        BY <3>2, <4>1, FS_Subset
      <4>3. Cardinality(Left \union {g}) \in Nat
        BY <4>1, FS_CardinalityType
      <4>4. QED
        BY <2>1, <2>3, <3>2, <4>1, <4>2, <4>3
    <3>3. QED
      BY <3>1, <3>2, LeftStep
  <2>5. QED
    BY <2>1, <2>4
<1>3. Inv => OneOrphanPerFailure
  <2> SUFFICES ASSUME Inv, Quiet PROVE Cardinality(Orphans) <= fails
    BY DEF OneOrphanPerFailure
  <2>1. Orphans \subseteq Left
    BY CatalogueAssumption DEF Orphans, Left, Dropped, IsRow, SoloInv, StepInv, Fits, Uploading, Busy,
       Quiet, At, FileIds, NoFile
  <2>2. IsFiniteSet(Left)
    BY <1>0, FS_Subset DEF Left
  <2>3. Cardinality(Orphans) <= Cardinality(Left) /\ IsFiniteSet(Orphans)
    BY <2>1, <2>2, FS_Subset
  <2>4. Cardinality(Left) \in Nat /\ Cardinality(Orphans) \in Nat /\ fails \in Nat
    BY <2>2, <2>3, FS_CardinalityType, CatalogueAssumption DEF TypeOK
  <2>5. QED
    BY <2>3, <2>4
<1>4. QED
  BY <1>1, <1>2, <1>3, PTL DEF Spec

-----------------------------------------------------------------------------
(* Seeding that runs alone. *)

\* seed-products is sent when nothing else is under way; all else may overlap.
SeedAlone == "seedProducts" \in Ops => "seedProducts" \in Alone

Seeding(l) == l.pc \in {"findSku", "insertSku", "findPlans", "assign"}

Has(l, sku) == \E d \in l.list : products[d] = sku

\* What a run of the seeds has in its list: a product of each seed it is done with. The
\* plans it has yet to save are what it read; those it has saved have its list.
Gathers(l) ==
    /\ l.list \subseteq Exists
    /\ l.pc \in {"findSku", "insertSku"} => \A j \in 1 .. l.k - 1 : Has(l, SeedSkus[j])
    /\ l.pc \in {"findPlans", "assign"} => \A sku \in Seeded : Has(l, sku)
    /\ l.pc = "assign" =>
         /\ \A b \in l.todo : l.copies[b].products = rows[b].products
         /\ \A b \in SeedBoxes \ l.todo :
                l.copies[b].is = "stored" => l.list \subseteq rows[b].products

JoinInv == \A o \in Owners : rows[o].products \subseteq Exists

SeedInv ==
    \A r \in Requests : Seeding(slot[r]) =>
        /\ slot[r].op = "seedProducts" /\ "seedProducts" \in Alone
        /\ Gathers(slot[r])
        /\ \A q \in Requests : q # r => At(q, "idle")

LEMMA SeedInit == Init => SeedInv /\ JoinInv
BY DEF Init, SeedInv, JoinInv, Seeding, Idle, NoRow

\* What is in the join table exists: the foreign keys see to it.
LEMMA JoinKept ==
    ASSUME TypeOK, JoinInv, NEW o, NEW copy, Put(o, copy), products' = products
    PROVE  JoinInv'
<1>1. ASSUME NEW p \in Owners PROVE rows'[p].products \subseteq Exists
  BY <1>1 DEF Put, TypeOK, JoinInv
<1>2. QED
  BY <1>1 DEF JoinInv, Exists

LEMMA JoinNext == TypeOK /\ JoinInv /\ [Next]_vars => JoinInv'
<1> SUFFICES ASSUME TypeOK, JoinInv, [Next]_vars PROVE JoinInv'
  OBVIOUS
<1>0. /\ rows \in [Owners -> Rows] /\ products \in [ProductIds -> Skus \union {None}]
      /\ \A d \in ProductIds : \A sku \in Skus : sku # None
  BY CatalogueAssumption DEF TypeOK
<1>1. CASE UNCHANGED <<rows, products>>
  BY <1>1 DEF JoinInv, Exists
<1>2. ASSUME rows' = rows, NEW d \in ProductIds, NEW sku \in Skus,
             products' = [products EXCEPT ![d] = sku]
      PROVE  JoinInv'
  BY <1>0, <1>2 DEF JoinInv, Exists
<1>3. ASSUME NEW r \in Requests, Save(r) PROVE JoinInv'
  <2>1. PICK copy : Put(slot[r].owner, copy)
    BY <1>3 DEF Save
  <2>2. QED
    BY <1>3, <2>1, JoinKept DEF Save
<1>4. ASSUME NEW r \in Requests, Assign(r) PROVE JoinInv'
  <2>1. PICK b \in slot[r].todo :
            Put(b, [slot[r].copies[b] EXCEPT !.products = @ \union slot[r].list])
    BY <1>4 DEF Assign
  <2>2. QED
    BY <1>4, <2>1, JoinKept DEF Assign
<1>5. ASSUME NEW r \in Requests, Delete(r) PROVE JoinInv'
  <2>1. ASSUME NEW p \in Owners PROVE rows'[p].products \subseteq Exists
    BY <1>0, <1>5 DEF Delete, NoRow, JoinInv
  <2>2. QED
    BY <1>5, <2>1 DEF Delete, JoinInv, Exists
<1>6. ASSUME NEW r \in Requests, DropProduct(r) PROVE JoinInv'
  <2>1. ASSUME NEW p \in Owners, NEW d \in rows'[p].products
        PROVE  d \in ProductIds /\ products'[d] # None
    <3>1. d \in rows[p].products /\ d \notin slot[r].list
      BY <1>0, <1>6, <2>1 DEF DropProduct, Rows
    <3>2. QED
      BY <1>6, <3>1 DEF DropProduct, JoinInv, Exists
  <2>2. QED
    BY <2>1 DEF JoinInv, Exists
<1>7. ASSUME NEW r \in Requests, InsertSku(r) PROVE JoinInv'
  <2>1. SeedSkus[slot[r].k] \in Skus
    BY SlotTypes DEF Locals, Skus, Seeded
  <2>2. QED
    BY <1>2, <1>7, <2>1 DEF InsertSku
<1>8. ASSUME NEW o \in Owners, Create(o) PROVE JoinInv'
  <2>1. ASSUME NEW p \in Owners PROVE rows'[p].products = rows[p].products
    BY <1>0, <1>8 DEF Create, Rows
  <2>2. QED
    BY <1>8, <2>1 DEF Create, JoinInv, Exists
<1>9. ASSUME NEW sku \in Skus, CreateProduct(sku) PROVE JoinInv'
  BY <1>2, <1>9 DEF CreateProduct
<1>10. QED
  BY <1>1, <1>3, <1>4, <1>5, <1>6, <1>7, <1>8, <1>9
     DEF Next, Arrive, UploadRead, RemoveRead, EditUserRead, AddRead, RemoveProductsRead,
         RemoveProductRead, SeedStart, Continue, StoreImage, DeleteOld, FindProducts, FindSku,
         FindPlans, Fail, vars

\* The step of a handler: while it runs nobody else is seeding.
LEMMA SeedKept ==
    ASSUME TypeOK, SeedInv, NEW r \in Requests, NEW l, Move(r, l), ~At(r, "idle"),
           Seeding(l) => Seeding(slot[r]) /\ l.op = slot[r].op /\ Gathers(l)'
    PROVE  SeedInv'
<1>1. slot'[r] = l /\ \A q \in Requests : q # r => slot'[q] = slot[q]
  BY DEF Move, TypeOK
<1>2. ASSUME NEW q \in Requests, q # r PROVE ~Seeding(slot'[q])
  BY <1>1, <1>2 DEF SeedInv
<1>3. ASSUME Seeding(l)
      PROVE  /\ l.op = "seedProducts" /\ "seedProducts" \in Alone
             /\ \A q \in Requests : q # r => At(q, "idle")'
  BY <1>1, <1>3 DEF SeedInv, At
<1>4. ASSUME NEW q \in Requests, Seeding(slot'[q])
      PROVE  /\ slot'[q].op = "seedProducts" /\ "seedProducts" \in Alone
             /\ Gathers(slot[q])'
             /\ \A p \in Requests : p # q => At(p, "idle")'
  <2>1. q = r
    BY <1>2, <1>4
  <2>2. Seeding(l)
    BY <1>1, <1>4, <2>1
  <2>3. Gathers(l)'
    BY <2>2
  <2>4. Gathers(slot[r])'
    BY <1>1, <2>3 DEF Gathers, Has, Exists
  <2>5. QED
    BY <1>1, <1>3, <2>1, <2>2, <2>4
<1>5. QED
  BY <1>4 DEF SeedInv, Seeding, At

\* A request begins: nobody is seeding, and a run of the seeds begins with nothing.
LEMMA SeedArrive ==
    ASSUME TypeOK, SeedAlone, SeedInv, NEW r \in Requests, Arrive(r)
    PROVE  SeedInv'
<1>0. slot \in [Requests -> Locals]
  BY DEF TypeOK
<1>1. /\ \E l : Move(r, l)
      /\ \A q \in Requests : slot[q].op \notin Alone
  BY DEF Arrive, UploadRead, RemoveRead, EditUserRead, AddRead, RemoveProductsRead,
         RemoveProductRead, SeedStart, Accept
<1>2. PICK l : Move(r, l)
  BY <1>1
<1>3. slot'[r] = l /\ \A q \in Requests : q # r => slot'[q] = slot[q]
  BY <1>0, <1>2 DEF Move
<1>4. \A q \in Requests : ~Seeding(slot[q])
  BY <1>1 DEF SeedInv
<1>5. CASE SeedStart(r)
  <2>1. /\ "seedProducts" \in Alone /\ Quiet
        /\ l = [[Idle EXCEPT !.pc = "findSku"] EXCEPT !.op = "seedProducts"]
    BY <1>0, <1>3, <1>5 DEF SeedStart, Accept, SeedAlone, Move
  <2>2. l.pc = "findSku" /\ l.op = "seedProducts" /\ l.list = {} /\ l.k = 1
    BY <2>1 DEF Idle
  <2>3. Gathers(slot[r])'
    BY <1>3, <2>2 DEF Gathers
  <2>4. ASSUME NEW q \in Requests, q # r PROVE slot'[q].pc = "idle"
    BY <1>3, <2>1, <2>4 DEF Quiet, At
  <2>5. ASSUME NEW q \in Requests, Seeding(slot'[q]) PROVE q = r
    BY <2>4, <2>5 DEF Seeding
  <2>6. QED
    BY <1>3, <2>1, <2>2, <2>3, <2>4, <2>5 DEF SeedInv, Seeding, At
<1>6. CASE ~SeedStart(r)
  <2>1. ~Seeding(l)
    <3> USE <1>0, <1>3 DEF Accept, Move, Idle, Seeding
    <3>1. ASSUME NEW o \in Owners, UploadRead(r, o) \/ RemoveRead(r, o) PROVE ~Seeding(l)
      BY <3>1 DEF UploadRead, RemoveRead
    <3>2. ASSUME NEW u \in People, EditUserRead(r, u) PROVE ~Seeding(l)
      BY <3>2 DEF EditUserRead
    <3>3. ASSUME NEW b \in Boxes, NEW list \in SUBSET ProductIds,
                 AddRead(r, b, list) \/ RemoveProductsRead(r, b, list)
          PROVE  ~Seeding(l)
      BY <3>3 DEF AddRead, RemoveProductsRead
    <3>4. ASSUME NEW d \in ProductIds, RemoveProductRead(r, d) PROVE ~Seeding(l)
      BY <3>4 DEF RemoveProductRead
    <3>5. QED
      BY <1>6, <3>1, <3>2, <3>3, <3>4 DEF Arrive
  <2>2. \A q \in Requests : ~Seeding(slot'[q])
    BY <1>3, <1>4, <2>1
  <2>3. QED
    BY <2>2 DEF SeedInv, Seeding
<1>7. QED
  BY <1>5, <1>6

\* A seed has its product.
LEMMA SeedGot ==
    ASSUME TypeOK, SeedInv, NEW r \in Requests, Seeding(slot[r]),
           slot[r].pc \in {"findSku", "insertSku"},
           NEW d \in ProductIds, Got(r, d), products'[d] = SeedSkus[slot[r].k],
           \A e \in ProductIds : products[e] # None => products'[e] = products[e]
    PROVE  SeedInv'
<1> DEFINE last == slot[r].k = Len(SeedSkus)
           l == [slot[r] EXCEPT !.list = @ \union {d},
                                !.pc = IF last THEN "findPlans" ELSE "findSku",
                                !.k = IF last THEN 1 ELSE @ + 1]
<1>1. /\ slot[r] \in Locals /\ slot[r].k \in 1 .. Len(SeedSkus) /\ Len(SeedSkus) \in Nat \ {0}
      /\ SeedSkus[slot[r].k] # None /\ Gathers(slot[r])
  BY SlotTypes, CatalogueAssumption DEF Locals, Skus, Seeded, SeedInv
<1>2. /\ Move(r, l) /\ l.op = slot[r].op /\ l.list = slot[r].list \union {d}
      /\ l.pc = IF last THEN "findPlans" ELSE "findSku"
      /\ ~last => l.k = slot[r].k + 1
  BY <1>1 DEF Got, Locals
<1>3. \A e \in slot[r].list : products'[e] = products[e] /\ products[e] # None
  BY <1>1 DEF Gathers, Exists
<1>4. \A e \in l.list : e \in ProductIds /\ products'[e] # None
  BY <1>1, <1>2, <1>3 DEF Locals
<1>5. ASSUME NEW j \in 1 .. slot[r].k PROVE \E e \in l.list : products'[e] = SeedSkus[j]
  <2>1. CASE j = slot[r].k
    BY <1>2, <2>1
  <2>2. CASE j # slot[r].k
    <3>1. j \in 1 .. slot[r].k - 1
      BY <1>1, <2>2
    <3>2. Has(slot[r], SeedSkus[j])
      BY <1>1, <3>1 DEF Gathers
    <3>3. QED
      BY <1>2, <1>3, <3>2 DEF Has
  <2>3. QED
    BY <2>1, <2>2
<1>6. last => \A sku \in Seeded : \E e \in l.list : products'[e] = sku
  BY <1>5 DEF Seeded
<1>7. ~last => \A j \in 1 .. l.k - 1 : \E e \in l.list : products'[e] = SeedSkus[j]
  <2>1. ~last => l.k - 1 = slot[r].k
    BY <1>1, <1>2
  <2>2. QED
    BY <1>5, <2>1
<1>8. PICK m : m = l
  OBVIOUS
<1>9. Gathers(m)'
  <2>1. /\ \A e \in m.list : e \in ProductIds /\ products'[e] # None
        /\ m.pc = IF last THEN "findPlans" ELSE "findSku"
        /\ last => \A sku \in Seeded : \E e \in m.list : products'[e] = sku
        /\ ~last => \A j \in 1 .. m.k - 1 : \E e \in m.list : products'[e] = SeedSkus[j]
    BY <1>2, <1>4, <1>6, <1>7, <1>8
  <2> HIDE DEF last
  <2>2. QED
    BY <2>1 DEF Gathers, Has, Exists
<1>10. QED
  <2>1. Move(r, m) /\ m.op = slot[r].op
    BY <1>2, <1>8
  <2>2. ~At(r, "idle")
    BY DEF At
  <2>3. QED
    BY <1>9, <2>1, <2>2, SeedKept

\* The save of a plan: it gets the list, the other plans keep what they have.
LEMMA SeedAssign ==
    ASSUME TypeOK, JoinInv, SeedInv, NEW r \in Requests, Assign(r)
    PROVE  /\ SeedInv'
           /\ slot'[r].pc = "idle" =>
                \A b \in SeedBoxes : slot[r].copies[b].is = "stored" =>
                    slot[r].list \subseteq rows'[b].products
<1>1. /\ slot[r] \in Locals /\ rows \in [Owners -> Rows] /\ Gathers(slot[r])
      /\ slot[r].pc = "assign" /\ products' = products
      /\ \A b \in Boxes : b \in Owners
      /\ SeedBoxes \subseteq Boxes
  BY SlotTypes, CatalogueAssumption DEF TypeOK, SeedInv, Seeding, Assign, At, Owners
<1>2. PICK b \in slot[r].todo :
        LET copy == [slot[r].copies[b] EXCEPT !.products = @ \union slot[r].list]
        IN  /\ Put(b, copy)
            /\ IF slot[r].todo = {b} \/ ~(copy.products \subseteq Exists)
               THEN Finish(r)
               ELSE Move(r, [slot[r] EXCEPT !.todo = @ \ {b}])
  BY DEF Assign
<1>3. PICK copy : copy = [slot[r].copies[b] EXCEPT !.products = @ \union slot[r].list]
  OBVIOUS
<1>4. copy.products = rows[b].products \union slot[r].list /\ b \in Boxes
  BY <1>1, <1>3 DEF Gathers, Locals, Rows
<1>5. copy.products \subseteq Exists
  BY <1>1, <1>4 DEF Gathers, JoinInv
<1>6. /\ rows' = [rows EXCEPT ![b] = copy]
      /\ IF slot[r].todo = {b} THEN Finish(r) ELSE Move(r, [slot[r] EXCEPT !.todo = @ \ {b}])
  BY <1>2, <1>3, <1>5 DEF Put
<1>7. /\ slot[r].list \subseteq rows'[b].products
      /\ \A c \in Boxes : c # b => rows'[c] = rows[c]
  BY <1>1, <1>4, <1>6
<1>8. \A c \in SeedBoxes \ (slot[r].todo \ {b}) :
        slot[r].copies[c].is = "stored" => slot[r].list \subseteq rows'[c].products
  BY <1>1, <1>7 DEF Gathers
<1>9. CASE slot[r].todo = {b}
  <2>1. Move(r, Idle) /\ Idle.pc = "idle" /\ ~At(r, "idle")
    BY <1>1, <1>6, <1>9 DEF Finish, Idle, At
  <2>2. SeedInv'
    BY <2>1, SeedKept DEF Seeding
  <2>3. QED
    BY <1>8, <1>9, <2>2
<1>10. CASE slot[r].todo # {b}
  <2>1. PICK m : m = [slot[r] EXCEPT !.todo = @ \ {b}]
    OBVIOUS
  <2>2. /\ Move(r, m) /\ m.pc = "assign" /\ m.op = slot[r].op /\ m.list = slot[r].list
        /\ m.todo = slot[r].todo \ {b} /\ m.copies = slot[r].copies
    BY <1>1, <1>6, <1>10, <2>1 DEF Locals
  <2>3. Gathers(m)'
    <3>1. \A c \in m.todo : m.copies[c].products = rows'[c].products
      BY <1>1, <1>7, <2>2 DEF Gathers, Locals
    <3>2. \A c \in SeedBoxes \ m.todo :
            m.copies[c].is = "stored" => m.list \subseteq rows'[c].products
      BY <1>8, <2>2
    <3>3. m.list \subseteq Exists /\ \A sku \in Seeded : Has(m, sku)
      BY <1>1, <2>2 DEF Gathers, Has
    <3>4. QED
      BY <1>1, <2>2, <3>1, <3>2, <3>3 DEF Gathers, Has, Exists
  <2>4. SeedInv'
    BY <1>1, <2>2, <2>3, SeedKept DEF Seeding, At
  <2>5. slot'[r].pc # "idle"
    BY <2>2 DEF TypeOK, Move
  <2>6. QED
    BY <2>4, <2>5
<1>11. QED
  BY <1>9, <1>10

LEMMA SeedContinue ==
    ASSUME TypeOK, JoinInv, SeedInv, NEW r \in Requests, Continue(r) \/ Fail(r)
    PROVE  SeedInv'
<1>1. slot[r] \in Locals /\ slot \in [Requests -> Locals] /\ ~Seeding(Idle)
  BY SlotTypes DEF TypeOK, Idle, Seeding
<1>2. ASSUME Finish(r), ~At(r, "idle") PROVE SeedInv'
  BY <1>1, <1>2, SeedKept DEF Finish
<1>3. ASSUME NEW l, Move(r, l), ~At(r, "idle"), ~Seeding(l) PROVE SeedInv'
  BY <1>3, SeedKept
<1>4. CASE Save(r) \/ Delete(r) \/ DropProduct(r) \/ Fail(r)
  BY <1>2, <1>4 DEF Save, Delete, DropProduct, Fail, At
<1>5. CASE StoreImage(r)
  <2>1. PICK m : m = [slot[r] EXCEPT !.file = nextFile,
                          !.pc = IF slot[r].copy.image = NoFile THEN "save" ELSE "deleteOld"]
    OBVIOUS
  <2>2. Move(r, m) /\ ~Seeding(m) /\ ~At(r, "idle")
    BY <1>1, <1>5, <2>1 DEF StoreImage, Locals, Seeding, At
  <2>3. QED
    BY <1>3, <2>2
<1>6. CASE DeleteOld(r)
  <2>1. PICK m : m = [slot[r] EXCEPT !.pc = "save"]
    OBVIOUS
  <2>2. Move(r, m) /\ ~Seeding(m) /\ ~At(r, "idle")
    BY <1>1, <1>6, <2>1 DEF DeleteOld, Locals, Seeding, At
  <2>3. QED
    BY <1>3, <2>2
<1>7. CASE FindProducts(r)
  <2>1. PICK m : m = [slot[r] EXCEPT !.pc = "save", !.copy.products = @ \union slot[r].list]
    OBVIOUS
  <2>2. ~Seeding(m) /\ ~At(r, "idle") /\ (Move(r, m) \/ Finish(r))
    BY <1>1, <1>7, <2>1 DEF FindProducts, Locals, Seeding, At
  <2>3. QED
    BY <1>2, <1>3, <2>2
<1>8. CASE FindSku(r)
  <2>1. /\ slot[r].pc = "findSku" /\ Seeding(slot[r]) /\ Gathers(slot[r])
        /\ UNCHANGED <<rows, products>>
    BY <1>8 DEF FindSku, At, Seeding, SeedInv
  <2>2. ASSUME NEW d \in WithSku(SeedSkus[slot[r].k]), Got(r, d) PROVE SeedInv'
    BY <2>1, <2>2, SeedGot DEF WithSku
  <2>3. ASSUME Move(r, [slot[r] EXCEPT !.pc = "insertSku"]) PROVE SeedInv'
    <3>1. PICK m : m = [slot[r] EXCEPT !.pc = "insertSku"]
      OBVIOUS
    <3>2. /\ m.pc = "insertSku" /\ m.op = slot[r].op /\ m.list = slot[r].list /\ m.k = slot[r].k
          /\ Move(r, m) /\ ~At(r, "idle")
      BY <1>1, <2>1, <2>3, <3>1 DEF Locals, At
    <3>3. Gathers(m)'
      BY <2>1, <3>2 DEF Gathers, Has, Exists
    <3>4. QED
      BY <2>1, <3>2, <3>3, SeedKept
  <2>4. QED
    BY <1>8, <2>2, <2>3 DEF FindSku
<1>9. CASE InsertSku(r)
  <2>1. PICK d \in ProductIds : /\ products[d] = None
                                /\ products' = [products EXCEPT ![d] = SeedSkus[slot[r].k]]
                                /\ Got(r, d)
    BY <1>9 DEF InsertSku
  <2>2. slot[r].pc = "insertSku" /\ Seeding(slot[r])
    BY <1>9 DEF InsertSku, At, Seeding
  <2>3. /\ products'[d] = SeedSkus[slot[r].k]
        /\ \A e \in ProductIds : products[e] # None => products'[e] = products[e]
    BY <2>1 DEF TypeOK
  <2>4. QED
    BY <2>1, <2>2, <2>3, SeedGot
<1>10. CASE FindPlans(r)
  <2> DEFINE lacking == {b \in SeedBoxes : IsRow(b) /\ ~(slot[r].list \subseteq rows[b].products)}
  <2>1. /\ slot[r].pc = "findPlans" /\ Seeding(slot[r]) /\ Gathers(slot[r])
        /\ UNCHANGED <<rows, products>> /\ ~At(r, "idle") /\ SeedBoxes \subseteq Boxes
    BY <1>10, CatalogueAssumption DEF FindPlans, At, Seeding, SeedInv
  <2>2. PICK m : m = [slot[r] EXCEPT !.pc = "assign", !.todo = lacking,
                                     !.copies = [b \in Boxes |-> rows[b]]]
    OBVIOUS
  <2>3. /\ m.pc = "assign" /\ m.op = slot[r].op /\ m.list = slot[r].list /\ m.todo = lacking
        /\ m.copies = [b \in Boxes |-> rows[b]]
    BY <1>1, <2>2 DEF Locals
  <2>4. Finish(r) \/ Move(r, m)
    BY <1>10, <2>2 DEF FindPlans
  <2>5. /\ \A b \in m.todo : m.copies[b].products = rows[b].products
        /\ \A b \in SeedBoxes \ m.todo :
               m.copies[b].is = "stored" => m.list \subseteq rows[b].products
    BY <2>1, <2>3 DEF IsRow
  <2>6. Gathers(m)'
    BY <2>1, <2>3, <2>5 DEF Gathers, Has, Exists
  <2>7. QED
    BY <1>2, <2>1, <2>3, <2>4, <2>6, SeedKept
<1>11. QED
  BY <1>4, <1>5, <1>6, <1>7, <1>8, <1>9, <1>10, SeedAssign DEF Continue

LEMMA SeedNext == TypeOK /\ SeedAlone /\ JoinInv /\ SeedInv /\ [Next]_vars => SeedInv'
<1> SUFFICES ASSUME TypeOK, SeedAlone, JoinInv, SeedInv, [Next]_vars PROVE SeedInv'
  OBVIOUS
<1>1. ASSUME slot' = slot, products' = products,
             \A b \in Boxes : rows'[b].products = rows[b].products
      PROVE  SeedInv'
  <2>1. ASSUME NEW r \in Requests, Seeding(slot[r])
        PROVE  Gathers(slot[r])'
    <3>1. \A b \in slot[r].todo : b \in Boxes
      BY SlotTypes DEF Locals
    <3>2. Gathers(slot[r]) /\ SeedBoxes \subseteq Boxes
      BY <2>1, CatalogueAssumption DEF SeedInv
    <3>3. QED
      BY <1>1, <3>1, <3>2 DEF Gathers, Has, Exists
  <2>2. QED
    BY <1>1, <2>1 DEF SeedInv, Seeding, At
<1>2. ASSUME NEW o \in Owners, Create(o) PROVE SeedInv'
  <2>1. \A b \in Boxes : rows'[b].products = rows[b].products
    BY <1>2 DEF Create, TypeOK, Owners, Rows
  <2>2. QED
    BY <1>1, <1>2, <2>1 DEF Create
<1>3. ASSUME NEW sku \in Skus, CreateProduct(sku) PROVE SeedInv'
  <2>1. slot' = slot /\ \A r \in Requests : ~Seeding(slot'[r])
    BY <1>3 DEF CreateProduct, Quiet, At, Seeding
  <2>2. QED
    BY <2>1 DEF SeedInv, Seeding
<1>4. CASE UNCHANGED vars
  BY <1>1, <1>4 DEF vars
<1>5. QED
  BY <1>2, <1>3, <1>4, SeedArrive, SeedContinue DEF Next

\* What a run of the seeds leaves when it returns without an error.
LEMMA SeedReturns ==
    ASSUME TypeOK, JoinInv, SeedInv, [Next]_vars, NEW r \in Requests,
           slot[r].pc \in {"findPlans", "assign"}, slot'[r].pc = "idle", fails' = fails,
           NEW b \in SeedBoxes, Found(r, b), rows'[b].is = "stored", NEW sku \in Seeded
    PROVE  \E d \in rows'[b].products : products'[d] = sku
<1>0. /\ slot[r] \in Locals /\ fails \in Nat /\ Seeding(slot[r]) /\ slot \in [Requests -> Locals]
      /\ \A q \in Requests : q # r => At(q, "idle")
      /\ Gathers(slot[r]) /\ Has(slot[r], sku)
  BY SlotTypes, CatalogueAssumption DEF TypeOK, SeedInv, Seeding, Gathers
<1>1. /\ slot'[r] # slot[r] /\ ~At(r, "idle")
  BY DEF At
<1>2. FindPlans(r) \/ Assign(r)
  <2>1. ASSUME NEW q \in Requests, q # r, Arrive(q) PROVE FALSE
    <3>1. \E l : Move(q, l)
      BY <2>1 DEF Arrive, UploadRead, RemoveRead, EditUserRead, AddRead, RemoveProductsRead,
         RemoveProductRead, SeedStart, Accept
    <3>2. slot'[r] = slot[r]
      BY <1>0, <2>1, <3>1 DEF Move
    <3>3. QED
      BY <1>1, <3>2
  <2>2. ~Arrive(r)
    BY <1>1 DEF Arrive, UploadRead, RemoveRead, EditUserRead, AddRead, RemoveProductsRead,
         RemoveProductRead, SeedStart, Accept
  <2>3. ASSUME NEW q \in Requests, Fail(q) PROVE FALSE
    BY <1>0, <2>3 DEF Fail
  <2>4. ASSUME NEW q \in Requests, q # r, Continue(q) PROVE FALSE
    BY <1>0, <2>4 DEF Continue, StoreImage, DeleteOld, Save, Delete, FindProducts, DropProduct,
       FindSku, InsertSku, FindPlans, Assign, At
  <2>5. Continue(r)
    BY <1>1, <2>1, <2>2, <2>3, <2>4 DEF Next, Create, CreateProduct, vars
  <2>6. QED
    BY <2>5 DEF Continue, StoreImage, DeleteOld, Save, Delete, FindProducts, DropProduct,
       FindSku, InsertSku, At
<1>3. products' = products
  BY <1>2 DEF FindPlans, Assign
<1>4. slot[r].list \subseteq rows'[b].products
  <2>1. CASE FindPlans(r)
    <3> DEFINE lacking == {c \in SeedBoxes : IsRow(c) /\ ~(slot[r].list \subseteq rows[c].products)}
    <3>1. lacking = {}
      <4>1. SUFFICES ASSUME lacking # {} PROVE slot'[r].pc = "assign"
        OBVIOUS
      <4>2. PICK m : m = [slot[r] EXCEPT !.pc = "assign", !.todo = lacking,
                                         !.copies = [c \in Boxes |-> rows[c]]]
        OBVIOUS
      <4>3. Move(r, m)
        BY <2>1, <4>1, <4>2 DEF FindPlans
      <4>4. QED
        BY <1>0, <4>2, <4>3 DEF Move, Locals
    <3>2. IsRow(b) /\ rows' = rows
      BY <2>1 DEF Found, FindPlans
    <3>3. QED
      BY <3>1, <3>2
  <2>2. CASE Assign(r)
    <3>1. slot[r].copies[b].is = "stored"
      BY <2>2 DEF Assign, Found, At
    <3>2. QED
      BY <2>2, <3>1, SeedAssign
  <2>3. QED
    BY <1>2, <2>1, <2>2
<1>5. QED
  BY <1>0, <1>3, <1>4 DEF Has

\* When seed-products runs alone, also after runs that failed half way, whatever else
\* overlaps when it does not run: every plan of the name that it found, and that is still
\* stored, has every product of the seeds when it returns.
THEOREM SeedsComplete == SeedAlone => (Spec => SeedsAssigned)
<1> SUFFICES ASSUME SeedAlone PROVE Spec => SeedsAssigned
  OBVIOUS
<1>1. TypeOK /\ JoinInv /\ SeedInv /\ [Next]_vars
        => [\A r \in Requests :
              /\ slot[r].pc \in {"findPlans", "assign"} /\ slot'[r].pc = "idle"
              /\ fails' = fails
              => \A b \in SeedBoxes : Found(r, b) /\ rows'[b].is = "stored" =>
                   \A sku \in Seeded : \E d \in rows'[b].products : products'[d] = sku]_vars
  BY SeedReturns
<1>2. QED
  BY <1>1, SeedInit, SeedNext, JoinNext, TypeInit, TypeNext, PTL DEF Spec, SeedsAssigned

-----------------------------------------------------------------------------
(* What the catalogue promises. *)

PlanLists == [b \in Boxes |-> rows[b].products]
Waiting   == [r \in Requests |-> Asked(slot[r])]

\* A copy about to be saved is the row that was read, changed by what was sent.
Changes(l) ==
    \/ /\ l.op \in Uploads \union {"editUser"}
       /\ l.owner \in Boxes => l.copy.products = rows[l.owner].products
    \/ /\ l.op = "addProducts" /\ l.owner \in Boxes
       /\ l.copy.products = rows[l.owner].products \union l.list
    \/ /\ l.op = "removeProducts" /\ l.owner \in Boxes
       /\ l.copy.products = rows[l.owner].products \ l.list

\* Which request a handler answers at which step, and what it has read for it.
Tracks(l) ==
    /\ l.pc = "idle" => Asked(l) = Contract!Nothing
    /\ l.pc \in {"store", "deleteOld"} =>
         l.op \in Uploads /\ (l.owner \in Boxes => l.copy.products = rows[l.owner].products)
    /\ l.pc = "findProducts" =>
         /\ l.op = "addProducts" /\ l.owner \in Boxes
         /\ l.copy.products = rows[l.owner].products
    /\ l.pc = "save" => Changes(l)
    /\ l.pc = "delete" => l.op = "remove"
    /\ l.pc = "dropProduct" => l.op = "removeProduct"
    /\ l.pc = "insertSku" => WithSku(SeedSkus[l.k]) = {}
    /\ l.pc = "assign" => l.todo \subseteq SeedBoxes

ListInv == \A r \in Requests : Tracks(slot[r])

\* A step that the contract allows, or does not see.
Mapped == Contract!Next \/ UNCHANGED <<products, PlanLists, Waiting>>

LEMMA ListInit == Init => ListInv /\ Contract!Init
<1> SUFFICES ASSUME Init PROVE ListInv /\ Contract!Init
  OBVIOUS
<1>1. Asked(Idle) = Contract!Nothing /\ Idle.pc = "idle"
  BY CatalogueAssumption DEF Idle, Asked, Contract!Nothing, Skus
<1>2. \A r \in Requests : slot[r] = Idle
  BY DEF Init
<1>3. ListInv
  BY <1>1, <1>2 DEF ListInv, Tracks
<1>4. Waiting = [r \in Requests |-> Contract!Nothing]
  BY <1>1, <1>2 DEF Waiting
<1>5. PlanLists = [b \in Boxes |-> {}]
  BY DEF Init, NoRow, Owners, PlanLists
<1>6. QED
  BY <1>3, <1>4, <1>5 DEF Contract!Init, Init, PlanLists, Waiting

LEMMA IdleAsks == Asked(Idle) = Contract!Nothing
BY CatalogueAssumption DEF Idle, Asked, Contract!Nothing, Skus

LEMMA AskedMoves ==
    ASSUME TypeOK, NEW r \in Requests, NEW l, Move(r, l)
    PROVE  /\ Waiting' = [Waiting EXCEPT ![r] = Asked(l)]
           /\ Waiting[r] = Asked(slot[r])
           /\ Asked(l) = Asked(slot[r]) => Waiting' = Waiting
<1>1. slot' = [slot EXCEPT ![r] = l] /\ slot \in [Requests -> Locals]
  BY DEF Move, TypeOK
<1>2. \A q \in Requests : Asked(slot[q])' = IF q = r THEN Asked(l) ELSE Asked(slot[q])
  BY <1>1 DEF Asked
<1>3. QED
  BY <1>2 DEF Waiting

\* A handler that returns answers.
LEMMA AskedEnds ==
    ASSUME TypeOK, NEW r \in Requests, Finish(r)
    PROVE  Contract!Answer(r)
BY AskedMoves, IdleAsks DEF Finish, Contract!Answer, Waiting

LEMMA ListsStay ==
    ASSUME \A b \in Boxes : rows'[b].products = rows[b].products
    PROVE  PlanLists' = PlanLists
BY DEF PlanLists

\* One that returns and has changed no list has refused, for the contract.
LEMMA RefuseMaps ==
    ASSUME TypeOK, NEW r \in Requests, Finish(r), products' = products, PlanLists' = PlanLists
    PROVE  Mapped
<1>1. Contract!Refuse(r)
  BY AskedEnds DEF Contract!Refuse, PlanLists
<1>2. QED
  BY <1>1 DEF Mapped, Contract!Next

\* A handler's step is seen by no other handler that changes a plan.
LEMMA ListKept ==
    ASSUME TypeOK, PlansApart, SoloInv, ListInv, NEW r \in Requests, NEW l, Move(r, l),
           Busy(slot[r]), Tracks(l)'
    PROVE  ListInv'
<1>1. slot'[r] = l /\ \A q \in Requests : q # r => slot'[q] = slot[q]
  BY DEF Move, TypeOK
<1>2. ASSUME NEW q \in Requests PROVE Tracks(slot[q])'
  <2>1. CASE q = r
    <3>1. slot'[q] = l
      BY <1>1, <2>1
    <3>2. QED
      BY <3>1 DEF Tracks, Changes, WithSku, Asked
  <2>2. CASE q # r /\ ~Busy(slot[q])
    <3>1. slot'[q] = slot[q] /\ slot[q].pc = "idle" /\ Asked(slot[q]) = Contract!Nothing
      BY <1>1, <2>2 DEF Busy, ListInv, Tracks
    <3>2. QED
      BY <3>1 DEF Tracks, Asked
  <2>3. CASE q # r /\ Busy(slot[q])
    <3>1. WritersAlone
      BY DEF WritersAlone, PlansApart, Uploads
    <3>2. Uploading(slot[q]) /\ Fits(slot[q])
      BY <2>3, <3>1, TwoUploads DEF SoloInv, StepInv
    <3>3. slot[q].op # "uploadImage"
      BY <2>3, <3>2 DEF Fits, PlansApart, SoloInv, AloneInv
    <3>4. /\ slot[q].owner \notin Boxes /\ slot[q].pc \in {"store", "deleteOld", "save"}
          /\ slot[q].op \in Uploads
      BY <3>2, <3>3 DEF Fits, Uploading
    <3>5. slot'[q] = slot[q]
      BY <1>1, <2>3
    <3>6. QED
      BY <3>4, <3>5 DEF Tracks, Changes
  <2>4. QED
    BY <2>1, <2>2, <2>3
<1>3. QED
  BY <1>2 DEF ListInv

LEMMA ListFreed ==
    ASSUME TypeOK, PlansApart, SoloInv, ListInv, NEW r \in Requests, Finish(r), Busy(slot[r])
    PROVE  ListInv'
<1>1. Idle.pc = "idle" /\ Asked(Idle) = Contract!Nothing
  BY IdleAsks DEF Idle
<1>2. Tracks(Idle)'
  BY <1>1 DEF Tracks, Asked
<1>3. QED
  BY <1>2, ListKept DEF Finish

LEMMA AskMaps ==
    ASSUME NEW r \in Requests, Contract!Ask(r)
    PROVE  Mapped
BY DEF Mapped, Contract!Next

\* A request begins with the products of the row it reads, and is one the contract knows
\* or no change of a list at all.
LEMMA ListArrive ==
    ASSUME TypeOK, ListInv, NEW r \in Requests, Arrive(r)
    PROVE  ListInv' /\ Mapped
<1>0. slot \in [Requests -> Locals] /\ rows \in [Owners -> Rows] /\ UNCHANGED <<rows, products>>
  BY DEF TypeOK, Arrive, UploadRead, RemoveRead, EditUserRead, AddRead, RemoveProductsRead,
         RemoveProductRead, SeedStart
<1>1. ASSUME NEW m, Move(r, m), At(r, "idle"), Tracks(m),
             Asked(m) \in Contract!Sent \/ Asked(m) = Contract!Nothing
      PROVE  ListInv' /\ Mapped
  <2>1. slot'[r] = m /\ \A q \in Requests : q # r => slot'[q] = slot[q]
    BY <1>0, <1>1 DEF Move
  <2>2. ASSUME NEW q \in Requests PROVE Tracks(slot[q])'
    <3>1. Tracks(slot'[q])
      BY <1>1, <2>1 DEF ListInv
    <3>2. QED
      BY <1>0, <3>1 DEF Tracks, Changes, WithSku, Asked
  <2>3. Waiting[r] = Contract!Nothing /\ Waiting' = [Waiting EXCEPT ![r] = Asked(m)]
    BY <1>1, AskedMoves DEF ListInv, Tracks, At
  <2>4. PlanLists' = PlanLists
    BY <1>0, ListsStay
  <2>5. CASE Asked(m) = Contract!Nothing
    <3>1. Waiting' = Waiting
      BY <2>3, <2>5 DEF Waiting
    <3>2. QED
      BY <1>0, <2>2, <2>4, <3>1 DEF Mapped, ListInv
  <2>6. CASE Asked(m) \in Contract!Sent
    <3>1. Contract!Ask(r)
      BY <1>0, <2>3, <2>4, <2>6 DEF Contract!Ask, Waiting, PlanLists
    <3>2. QED
      BY <2>2, <3>1, AskMaps DEF ListInv
  <2>7. QED
    BY <1>1, <2>5, <2>6
<1>2. ASSUME NEW op, NEW l, Accept(r, op, l), NEW m, m = [l EXCEPT !.op = op], Tracks(m),
             Asked(m) \in Contract!Sent \/ Asked(m) = Contract!Nothing
      PROVE  ListInv' /\ Mapped
  BY <1>1, <1>2 DEF Accept
<1>4. ASSUME NEW o \in Owners, UploadRead(r, o) PROVE ListInv' /\ Mapped
  <2> DEFINE l == [Idle EXCEPT !.pc = "store", !.owner = o, !.copy = rows[o]]
  <2>1. PICK op \in Uploads : Accept(r, op, l)
    BY <1>4 DEF UploadRead, Uploads
  <2>2. PICK m : m = [l EXCEPT !.op = op]
    OBVIOUS
  <2>3. m.pc = "store" /\ m.owner = o /\ m.copy = rows[o] /\ m.op = op
    BY <2>2 DEF Idle
  <2>4. Tracks(m)
    BY <2>3 DEF Tracks
  <2>5. Asked(m) = Contract!Nothing
    BY <2>3 DEF Asked, Uploads, Contract!Nothing
  <2> HIDE DEF l
  <2>6. QED
    BY <1>2, <2>1, <2>2, <2>4, <2>5
<1>5. ASSUME NEW o \in Owners, RemoveRead(r, o) PROVE ListInv' /\ Mapped
  <2> DEFINE l == [Idle EXCEPT !.pc = "delete", !.owner = o]
  <2>1. Accept(r, "remove", l)
    BY <1>5 DEF RemoveRead
  <2>2. PICK m : m = [l EXCEPT !.op = "remove"]
    OBVIOUS
  <2>3. m.pc = "delete" /\ m.op = "remove" /\ m.owner = o /\ m.list = {}
    BY <2>2 DEF Idle
  <2>4. Tracks(m)
    BY <2>3 DEF Tracks
  <2>5. Asked(m) \in Contract!Sent \/ Asked(m) = Contract!Nothing
    BY <2>3 DEF Asked, Contract!Sent, Contract!Nothing
  <2> HIDE DEF l
  <2>6. QED
    BY <1>2, <2>1, <2>2, <2>4, <2>5
<1>6. ASSUME NEW u \in People, EditUserRead(r, u) PROVE ListInv' /\ Mapped
  <2> DEFINE l == [Idle EXCEPT !.pc = "save", !.owner = u, !.copy = rows[u]]
  <2>1. Accept(r, "editUser", l)
    BY <1>6 DEF EditUserRead
  <2>2. PICK m : m = [l EXCEPT !.op = "editUser"]
    OBVIOUS
  <2>3. m.pc = "save" /\ m.op = "editUser" /\ m.owner = u /\ m.copy = rows[u]
    BY <2>2 DEF Idle
  <2>4. Tracks(m)
    BY <2>3 DEF Tracks, Changes
  <2>5. Asked(m) = Contract!Nothing
    BY <2>3 DEF Asked, Contract!Nothing
  <2> HIDE DEF l
  <2>6. QED
    BY <1>2, <2>1, <2>2, <2>4, <2>5
<1>7. ASSUME NEW b \in Boxes, NEW list \in SUBSET ProductIds, AddRead(r, b, list)
      PROVE  ListInv' /\ Mapped
  <2> DEFINE l == [Idle EXCEPT !.pc = "findProducts", !.owner = b, !.copy = rows[b], !.list = list]
  <2>1. Accept(r, "addProducts", l)
    BY <1>7 DEF AddRead
  <2>2. PICK m : m = [l EXCEPT !.op = "addProducts"]
    OBVIOUS
  <2>3. /\ m.pc = "findProducts" /\ m.op = "addProducts" /\ m.owner = b /\ m.copy = rows[b]
        /\ m.list = list
    BY <2>2 DEF Idle
  <2>4. Tracks(m)
    BY <2>3 DEF Tracks
  <2>5. Asked(m) \in Contract!Sent
    BY <2>3 DEF Asked, Contract!Sent
  <2> HIDE DEF l
  <2>6. QED
    BY <1>2, <2>1, <2>2, <2>4, <2>5
<1>8. ASSUME NEW b \in Boxes, NEW list \in SUBSET ProductIds, RemoveProductsRead(r, b, list)
      PROVE  ListInv' /\ Mapped
  <2> DEFINE l == [Idle EXCEPT !.pc = "save", !.owner = b,
                               !.copy = [rows[b] EXCEPT !.products = @ \ list], !.list = list]
  <2>1. Accept(r, "removeProducts", l)
    BY <1>8 DEF RemoveProductsRead
  <2>2. PICK m : m = [l EXCEPT !.op = "removeProducts"]
    OBVIOUS
  <2>3. /\ m.pc = "save" /\ m.op = "removeProducts" /\ m.owner = b /\ m.list = list
        /\ m.copy.products = rows[b].products \ list
    BY <1>0, <2>2 DEF Idle, Rows, Owners
  <2>4. Tracks(m)
    BY <2>3 DEF Tracks, Changes
  <2>5. Asked(m) \in Contract!Sent
    BY <2>3 DEF Asked, Contract!Sent
  <2> HIDE DEF l
  <2>6. QED
    BY <1>2, <2>1, <2>2, <2>4, <2>5
<1>9. ASSUME NEW d \in ProductIds, RemoveProductRead(r, d) PROVE ListInv' /\ Mapped
  <2> DEFINE l == [Idle EXCEPT !.pc = "dropProduct", !.list = {d}]
  <2>1. Accept(r, "removeProduct", l)
    BY <1>9 DEF RemoveProductRead
  <2>2. PICK m : m = [l EXCEPT !.op = "removeProduct"]
    OBVIOUS
  <2>3. m.pc = "dropProduct" /\ m.op = "removeProduct" /\ m.owner = None /\ m.list = {d}
    BY <2>2 DEF Idle
  <2>4. Tracks(m)
    BY <2>3 DEF Tracks
  <2>5. Asked(m) \in Contract!Sent
    BY <2>3 DEF Asked, Contract!Sent
  <2> HIDE DEF l
  <2>6. QED
    BY <1>2, <2>1, <2>2, <2>4, <2>5
<1>10. ASSUME SeedStart(r) PROVE ListInv' /\ Mapped
  <2> DEFINE l == [Idle EXCEPT !.pc = "findSku"]
  <2>1. Accept(r, "seedProducts", l)
    BY <1>10 DEF SeedStart
  <2>2. PICK m : m = [l EXCEPT !.op = "seedProducts"]
    OBVIOUS
  <2>3. m.pc = "findSku" /\ m.op = "seedProducts" /\ m.owner = None /\ m.list = {}
    BY <2>2 DEF Idle
  <2>4. Tracks(m)
    BY <2>3 DEF Tracks
  <2>5. Asked(m) \in Contract!Sent
    BY <2>3 DEF Asked, Contract!Sent
  <2> HIDE DEF l
  <2>6. QED
    BY <1>2, <2>1, <2>2, <2>4, <2>5
<1>11. QED
  BY <1>4, <1>5, <1>6, <1>7, <1>8, <1>9, <1>10 DEF Arrive

\* The save() of an upload, of a user's edit, and of the products of a plan.
LEMMA ListSave ==
    ASSUME TypeOK, ListInv, NEW r \in Requests, Save(r)
    PROVE  Mapped
<1>1. /\ slot[r] \in Locals /\ rows \in [Owners -> Rows] /\ \A c \in Boxes : c \in Owners
      /\ Changes(slot[r]) /\ Finish(r) /\ products' = products
  BY SlotTypes DEF TypeOK, Owners, Save, At, ListInv, Tracks
<1>2. PICK copy : Put(slot[r].owner, copy) /\ copy.products = slot[r].copy.products
  <2>1. [slot[r].copy EXCEPT !.image = slot[r].file].products = slot[r].copy.products
    BY <1>1 DEF Locals, Rows
  <2>2. QED
    BY <2>1 DEF Save
<1>3. CASE PlanLists' = PlanLists
  BY <1>1, <1>3, RefuseMaps
<1>4. CASE PlanLists' # PlanLists
  <2>1. rows' # rows
    BY <1>4 DEF PlanLists
  <2>2. /\ rows' = [rows EXCEPT ![slot[r].owner] = copy] /\ copy.products \subseteq Exists
    BY <1>2, <2>1 DEF Put
  <2>3. PICK b \in Boxes : b = slot[r].owner
    BY <1>4, <2>2 DEF PlanLists
  <2>4. PlanLists' = [PlanLists EXCEPT ![b] = slot[r].copy.products] /\ PlanLists[b] = rows[b].products
    BY <1>1, <1>2, <2>2, <2>3 DEF PlanLists
  <2>5. CASE slot[r].op \in Uploads \union {"editUser"}
    <3>1. slot[r].copy.products = rows[b].products
      BY <1>1, <2>3, <2>5 DEF Changes, Uploads
    <3>2. PlanLists' = PlanLists
      BY <2>4, <3>1 DEF PlanLists
    <3>3. QED
      BY <1>4, <3>2
  <2>6. CASE slot[r].op = "addProducts"
    <3>1. slot[r].copy.products = rows[b].products \union slot[r].list
      BY <1>1, <2>3, <2>6 DEF Changes, Uploads
    <3>2. Waiting[r].op = "addProducts" /\ Waiting[r].plan = b /\ Waiting[r].products = slot[r].list
      BY <2>3, <2>6 DEF Waiting, Asked
    <3>3. slot[r].list \subseteq Contract!Stocked
      BY <1>2, <2>2, <3>1 DEF Exists, Contract!Stocked
    <3>4. Contract!Add(r)
      BY <1>1, <2>4, <3>1, <3>2, <3>3, AskedEnds DEF Contract!Add, Waiting, PlanLists
    <3>5. QED
      BY <3>4 DEF Mapped, Contract!Next
  <2>7. CASE slot[r].op = "removeProducts"
    <3>1. slot[r].copy.products = rows[b].products \ slot[r].list
      BY <1>1, <2>3, <2>7 DEF Changes, Uploads
    <3>2. /\ Waiting[r].op = "removeProducts" /\ Waiting[r].plan = b
          /\ Waiting[r].products = slot[r].list
      BY <2>3, <2>7 DEF Waiting, Asked
    <3>3. Contract!Take(r)
      BY <1>1, <2>4, <3>1, <3>2, AskedEnds DEF Contract!Take, Waiting, PlanLists
    <3>4. QED
      BY <3>3 DEF Mapped, Contract!Next
  <2>8. QED
    BY <1>1, <2>5, <2>6, <2>7 DEF Changes
<1>5. QED
  BY <1>3, <1>4

LEMMA ListDelete ==
    ASSUME TypeOK, ListInv, NEW r \in Requests, Delete(r)
    PROVE  Mapped
<1>1. /\ rows \in [Owners -> Rows] /\ \A c \in Boxes : c \in Owners
      /\ slot[r].op = "remove" /\ Finish(r) /\ products' = products
      /\ rows' = [rows EXCEPT ![slot[r].owner] = [NoRow EXCEPT !.is = "deleted"]]
  BY DEF TypeOK, Owners, Delete, At, ListInv, Tracks
<1>2. CASE slot[r].owner \in Boxes
  <2>1. PICK b \in Boxes : b = slot[r].owner
    BY <1>2
  <2>2. PlanLists' = [PlanLists EXCEPT ![b] = {}]
    BY <1>1, <2>1 DEF NoRow, PlanLists
  <2>3. Waiting[r].op = "remove" /\ Waiting[r].plan = b
    BY <1>1, <2>1 DEF Waiting, Asked
  <2>4. Contract!RemovePlan(r)
    BY <1>1, <2>2, <2>3, AskedEnds DEF Contract!RemovePlan, Waiting, PlanLists
  <2>5. QED
    BY <2>4 DEF Mapped, Contract!Next
<1>3. CASE slot[r].owner \notin Boxes
  BY <1>1, <1>3, ListsStay, RefuseMaps
<1>4. QED
  BY <1>2, <1>3

LEMMA ListDrop ==
    ASSUME TypeOK, ListInv, NEW r \in Requests, DropProduct(r)
    PROVE  Mapped
<1>1. /\ rows \in [Owners -> Rows] /\ \A c \in Boxes : c \in Owners
      /\ slot[r].op = "removeProduct" /\ Finish(r)
  BY DEF TypeOK, Owners, DropProduct, At, ListInv, Tracks
<1>2. Waiting[r].op = "removeProduct" /\ Waiting[r].products = slot[r].list
  BY <1>1 DEF Waiting, Asked
<1>3. PlanLists' = [b \in Boxes |-> PlanLists[b] \ slot[r].list]
  BY <1>1 DEF DropProduct, Rows, PlanLists
<1>4. Contract!DropProduct(r)
  BY <1>1, <1>2, <1>3, AskedEnds DEF Contract!DropProduct, DropProduct, Waiting, PlanLists
<1>5. QED
  BY <1>4 DEF Mapped, Contract!Next

\* The save of one plan after the other, from the copies of one read.
LEMMA ListAssign ==
    ASSUME TypeOK, PlansApart, SoloInv, JoinInv, SeedInv, ListInv, NEW r \in Requests, Assign(r)
    PROVE  ListInv' /\ Mapped
<1>1. /\ slot[r] \in Locals /\ rows \in [Owners -> Rows] /\ Tracks(slot[r]) /\ Busy(slot[r])
      /\ slot[r].pc = "assign" /\ products' = products /\ slot[r].op = "seedProducts"
      /\ Gathers(slot[r]) /\ slot[r].todo \subseteq SeedBoxes /\ SeedBoxes \subseteq Boxes
      /\ \A b \in Boxes : b \in Owners
  BY SlotTypes, CatalogueAssumption
     DEF TypeOK, ListInv, SeedInv, Seeding, Assign, At, Busy, Tracks, Owners
<1>2. PICK b \in slot[r].todo :
        /\ Put(b, [slot[r].copies[b] EXCEPT !.products = @ \union slot[r].list])
        /\ Finish(r) \/ Move(r, [slot[r] EXCEPT !.todo = @ \ {b}])
  BY DEF Assign
<1>3. PICK copy : copy = [slot[r].copies[b] EXCEPT !.products = @ \union slot[r].list]
  OBVIOUS
<1>4. copy.products = rows[b].products \union slot[r].list /\ b \in SeedBoxes /\ b \in Boxes
  BY <1>1, <1>2, <1>3 DEF Gathers, Locals, Rows
<1>5. rows' = [rows EXCEPT ![b] = copy]
  BY <1>1, <1>2, <1>3, <1>4 DEF Put, Gathers, JoinInv
<1>6. PlanLists' = [PlanLists EXCEPT ![b] = @ \union slot[r].list]
  BY <1>1, <1>4, <1>5 DEF PlanLists
<1>7. Waiting[r].op = "seedProducts" /\ Waiting[r].products = slot[r].list
  BY <1>1 DEF Waiting, Asked
<1>8. \A sku \in Seeded : \E d \in Waiting[r].products : products[d] = sku
  BY <1>1, <1>7 DEF Gathers, Has
<1>9. ASSUME Contract!Answer(r) \/ Waiting' = Waiting PROVE Mapped
  <2>1. Contract!SeedPlan(r)
    BY <1>1, <1>4, <1>6, <1>7, <1>8, <1>9 DEF Contract!SeedPlan, Waiting, PlanLists
  <2>2. QED
    BY <2>1 DEF Mapped, Contract!Next
<1>10. CASE Finish(r)
  BY <1>1, <1>9, <1>10, AskedEnds, ListFreed
<1>11. CASE Move(r, [slot[r] EXCEPT !.todo = @ \ {b}])
  <2>1. PICK m : m = [slot[r] EXCEPT !.todo = @ \ {b}]
    OBVIOUS
  <2>2. /\ Move(r, m) /\ m.pc = "assign" /\ m.todo = slot[r].todo \ {b}
        /\ Asked(m) = Asked(slot[r])
    BY <1>1, <1>11, <2>1 DEF Locals, Asked
  <2>3. Tracks(m)'
    BY <1>1, <2>2 DEF Tracks
  <2>4. ListInv'
    BY <1>1, <2>2, <2>3, ListKept
  <2>5. QED
    BY <1>9, <2>2, <2>4, AskedMoves
<1>12. QED
  BY <1>2, <1>10, <1>11

\* The seeding has a product of its next seed, an old or a new one.
LEMMA ListGot ==
    ASSUME TypeOK, PlansApart, SoloInv, SeedInv, ListInv, NEW r \in Requests,
           slot[r].pc \in {"findSku", "insertSku"}, rows' = rows,
           NEW d \in ProductIds, Got(r, d),
           \/ products[d] \in Seeded /\ products' = products
           \/ /\ products[d] = None
              /\ \E sku \in Seeded : WithSku(sku) = {} /\ products' = [products EXCEPT ![d] = sku]
    PROVE  ListInv' /\ Mapped
<1>1. /\ slot[r] \in Locals /\ Busy(slot[r]) /\ slot[r].op = "seedProducts"
  BY SlotTypes DEF SeedInv, Seeding, Busy
<1>2. PICK m : m = [slot[r] EXCEPT !.list = @ \union {d},
                        !.pc = IF slot[r].k = Len(SeedSkus) THEN "findPlans" ELSE "findSku",
                        !.k = IF slot[r].k = Len(SeedSkus) THEN 1 ELSE @ + 1]
  OBVIOUS
<1>3. /\ Move(r, m) /\ m.pc \in {"findPlans", "findSku"} /\ m.op = "seedProducts"
      /\ m.owner = slot[r].owner /\ m.list = slot[r].list \union {d}
  BY <1>1, <1>2 DEF Got, Locals
<1>4. ListInv'
  <2>1. Tracks(m)'
    BY <1>3 DEF Tracks
  <2>2. QED
    BY <1>1, <1>3, <2>1, ListKept
<1>5. Asked(m) = [Asked(slot[r]) EXCEPT !.products = @ \union {d}]
  BY <1>1, <1>3 DEF Asked
<1>6. Waiting[r].op = "seedProducts" /\ Waiting' = [Waiting EXCEPT ![r].products = @ \union {d}]
  <2>1. Waiting[r] = Asked(slot[r]) /\ Waiting' = [Waiting EXCEPT ![r] = Asked(m)]
    BY <1>3, AskedMoves
  <2>2. QED
    BY <1>1, <1>5, <2>1 DEF Asked
<1>7. PlanLists' = PlanLists
  BY ListsStay
<1>8. \/ products[d] \in Seeded /\ products' = products
      \/ /\ d \notin Contract!Stocked
         /\ \E sku \in Seeded :
             /\ \A e \in Contract!Stocked : products[e] # sku
             /\ products' = [products EXCEPT ![d] = sku]
  BY DEF Contract!Stocked, WithSku
<1>9. Contract!SeedProduct(r)
  BY <1>6, <1>7, <1>8 DEF Contract!SeedProduct, Contract!Stocked, Waiting, PlanLists
<1>10. QED
  BY <1>4, <1>9 DEF Mapped, Contract!Next

LEMMA ListContinue ==
    ASSUME TypeOK, PlansApart, SoloInv, JoinInv, SeedInv, ListInv, NEW r \in Requests, Continue(r)
    PROVE  ListInv' /\ Mapped
<1>1. /\ slot[r] \in Locals /\ rows \in [Owners -> Rows] /\ Tracks(slot[r])
      /\ slot \in [Requests -> Locals] /\ Busy(slot[r]) /\ \A b \in Boxes : b \in Owners
  BY SlotTypes DEF TypeOK, ListInv, Owners, Busy, Continue, StoreImage, DeleteOld, Save, Delete,
     FindProducts, DropProduct, FindSku, InsertSku, FindPlans, Assign, At
<1>2. ASSUME NEW m, Move(r, m), Asked(m) = Asked(slot[r]), Tracks(m)', UNCHANGED <<rows, products>>
      PROVE  ListInv' /\ Mapped
  BY <1>1, <1>2, ListKept, AskedMoves, ListsStay DEF Mapped
<1>3. ASSUME Finish(r), UNCHANGED <<rows, products>> PROVE ListInv' /\ Mapped
  BY <1>1, <1>3, ListFreed, ListsStay, RefuseMaps
<1>4. ASSUME NEW m, Move(r, m), slot[r].pc \in {"store", "deleteOld"},
             m.pc \in {"deleteOld", "save"}, m.owner = slot[r].owner, m.copy = slot[r].copy,
             m.op = slot[r].op, m.list = slot[r].list, UNCHANGED <<rows, products>>
      PROVE  ListInv' /\ Mapped
  <2>1. Tracks(m)'
    BY <1>1, <1>4 DEF Tracks, Changes
  <2>2. Asked(m) = Asked(slot[r])
    BY <1>4 DEF Asked
  <2>3. QED
    BY <1>2, <1>4, <2>1, <2>2
<1>5. CASE StoreImage(r)
  <2>1. PICK m : m = [slot[r] EXCEPT !.file = nextFile,
                          !.pc = IF slot[r].copy.image = NoFile THEN "save" ELSE "deleteOld"]
    OBVIOUS
  <2>2. /\ Move(r, m) /\ m.pc \in {"deleteOld", "save"} /\ m.owner = slot[r].owner
        /\ m.copy = slot[r].copy /\ m.op = slot[r].op /\ m.list = slot[r].list
        /\ slot[r].pc = "store" /\ UNCHANGED <<rows, products>>
    BY <1>1, <1>5, <2>1 DEF StoreImage, Locals, At
  <2>3. QED
    BY <1>4, <2>2
<1>6. CASE DeleteOld(r)
  <2>1. PICK m : m = [slot[r] EXCEPT !.pc = "save"]
    OBVIOUS
  <2>2. /\ Move(r, m) /\ m.pc \in {"deleteOld", "save"} /\ m.owner = slot[r].owner
        /\ m.copy = slot[r].copy /\ m.op = slot[r].op /\ m.list = slot[r].list
        /\ slot[r].pc = "deleteOld" /\ UNCHANGED <<rows, products>>
    BY <1>1, <1>6, <2>1 DEF DeleteOld, Locals, At
  <2>3. QED
    BY <1>4, <2>2
<1>7. CASE Save(r)
  BY <1>1, <1>7, ListFreed, ListSave DEF Save
<1>8. CASE Delete(r)
  BY <1>1, <1>8, ListFreed, ListDelete DEF Delete
<1>9. CASE FindProducts(r)
  <2>1. PICK m : m = [slot[r] EXCEPT !.pc = "save", !.copy.products = @ \union slot[r].list]
    OBVIOUS
  <2>2. /\ UNCHANGED <<rows, products>> /\ (Move(r, m) \/ Finish(r)) /\ slot[r].pc = "findProducts"
    BY <1>9, <2>1 DEF FindProducts, At
  <2>3. /\ m.pc = "save" /\ m.owner = slot[r].owner /\ m.op = slot[r].op /\ m.list = slot[r].list
        /\ m.copy.products = slot[r].copy.products \union slot[r].list
    BY <1>1, <2>1 DEF Locals, Rows
  <2>4. Tracks(m)'
    BY <1>1, <2>2, <2>3 DEF Tracks, Changes
  <2>5. Asked(m) = Asked(slot[r])
    BY <2>3 DEF Asked
  <2>6. QED
    BY <1>2, <1>3, <2>2, <2>4, <2>5
<1>10. CASE DropProduct(r)
  BY <1>1, <1>10, ListFreed, ListDrop DEF DropProduct
<1>11. CASE FindSku(r)
  <2>1. slot[r].pc = "findSku" /\ SeedSkus[slot[r].k] \in Seeded /\ UNCHANGED <<rows, products>>
    BY <1>1, <1>11 DEF FindSku, At, Locals, Seeded
  <2>2. CASE WithSku(SeedSkus[slot[r].k]) = {}
    <3>1. PICK m : m = [slot[r] EXCEPT !.pc = "insertSku"]
      OBVIOUS
    <3>2. /\ Move(r, m) /\ m.pc = "insertSku" /\ m.k = slot[r].k /\ m.op = slot[r].op
          /\ m.owner = slot[r].owner /\ m.list = slot[r].list
      BY <1>1, <1>11, <2>2, <3>1 DEF FindSku, Locals
    <3>3. Tracks(m)'
      BY <2>1, <2>2, <3>2 DEF Tracks, WithSku
    <3>4. Asked(m) = Asked(slot[r])
      BY <3>2 DEF Asked
    <3>5. QED
      BY <1>2, <2>1, <3>2, <3>3, <3>4
  <2>3. CASE WithSku(SeedSkus[slot[r].k]) # {}
    <3>1. PICK d \in WithSku(SeedSkus[slot[r].k]) : Got(r, d)
      BY <1>11, <2>3 DEF FindSku
    <3>2. d \in ProductIds /\ products[d] \in Seeded
      BY <2>1, <3>1 DEF WithSku
    <3>3. QED
      BY <2>1, <3>1, <3>2, ListGot
  <2>4. QED
    BY <2>2, <2>3
<1>12. CASE InsertSku(r)
  <2>1. /\ SeedSkus[slot[r].k] \in Seeded /\ WithSku(SeedSkus[slot[r].k]) = {}
        /\ slot[r].pc = "insertSku" /\ rows' = rows
    BY <1>1, <1>12 DEF InsertSku, At, Locals, Seeded, Tracks
  <2>2. PICK d \in ProductIds :
          /\ products[d] = None /\ Got(r, d)
          /\ products' = [products EXCEPT ![d] = SeedSkus[slot[r].k]]
    BY <1>12 DEF InsertSku
  <2>3. QED
    BY <2>1, <2>2, ListGot
<1>13. CASE FindPlans(r)
  <2> DEFINE lacking == {b \in SeedBoxes : IsRow(b) /\ ~(slot[r].list \subseteq rows[b].products)}
  <2>1. PICK m : m = [slot[r] EXCEPT !.pc = "assign", !.todo = lacking,
                                     !.copies = [b \in Boxes |-> rows[b]]]
    OBVIOUS
  <2>2. UNCHANGED <<rows, products>> /\ (Move(r, m) \/ Finish(r))
    BY <1>13, <2>1 DEF FindPlans
  <2>3. /\ m.pc = "assign" /\ m.todo = lacking /\ lacking \subseteq SeedBoxes
        /\ m.op = slot[r].op /\ m.owner = slot[r].owner /\ m.list = slot[r].list
    BY <1>1, <2>1 DEF Locals
  <2>4. Tracks(m)' /\ Asked(m) = Asked(slot[r])
    BY <2>3 DEF Tracks, Asked
  <2>5. QED
    BY <1>2, <1>3, <2>2, <2>4
<1>14. QED
  BY <1>5, <1>6, <1>7, <1>8, <1>9, <1>10, <1>11, <1>12, <1>13, ListAssign DEF Continue

LEMMA ListNext ==
    ASSUME TypeOK, PlansApart, SoloInv, JoinInv, SeedInv, ListInv, [Next]_vars
    PROVE  ListInv' /\ Mapped
<1>0. rows \in [Owners -> Rows] /\ \A b \in Boxes : b \in Owners
  BY DEF TypeOK, Owners
<1>1. ASSUME slot' = slot, products' = products,
             \A b \in Owners : rows'[b].products = rows[b].products
      PROVE  ListInv' /\ Mapped
  <2>1. ASSUME NEW r \in Requests PROVE Tracks(slot[r])'
    <3>1. Tracks(slot[r])
      BY DEF ListInv
    <3>2. QED
      BY <1>0, <1>1, <3>1 DEF Tracks, Changes, WithSku, Asked
  <2>2. ListInv'
    BY <2>1 DEF ListInv
  <2>3. Waiting' = Waiting
    BY <1>1 DEF Waiting, Asked
  <2>4. QED
    BY <1>0, <1>1, <2>2, <2>3, ListsStay DEF Mapped
<1>2. ASSUME NEW r \in Requests, Fail(r) PROVE ListInv' /\ Mapped
  <2>1. Finish(r) /\ Busy(slot[r]) /\ UNCHANGED <<rows, products>>
    BY <1>2 DEF Fail, At, Busy
  <2>2. QED
    BY <2>1, ListFreed, ListsStay, RefuseMaps
<1>3. ASSUME NEW o \in Owners, Create(o) PROVE ListInv' /\ Mapped
  <2>1. \A b \in Owners : rows'[b].products = rows[b].products
    BY <1>0, <1>3 DEF Create, Rows
  <2>2. QED
    BY <1>1, <1>3, <2>1 DEF Create
<1>4. ASSUME NEW sku \in Skus, CreateProduct(sku) PROVE ListInv' /\ Mapped
  <2>1. slot' = slot /\ rows' = rows /\ \A r \in Requests : slot[r].pc = "idle"
    BY <1>4 DEF CreateProduct, Quiet, At
  <2>2. ListInv'
    BY <2>1 DEF ListInv, Tracks, Asked
  <2>3. Waiting' = Waiting /\ PlanLists' = PlanLists
    BY <2>1, ListsStay DEF Waiting, Asked
  <2>4. PICK d \in ProductIds : products[d] = None /\ products' = [products EXCEPT ![d] = sku]
    BY <1>4 DEF CreateProduct
  <2>5. Contract!NewProduct
    BY <2>3, <2>4 DEF Contract!NewProduct, Contract!Stocked, Waiting, PlanLists
  <2>6. QED
    BY <2>2, <2>5 DEF Mapped, Contract!Next
<1>5. CASE UNCHANGED vars
  BY <1>1, <1>5 DEF vars
<1>6. QED
  BY <1>2, <1>3, <1>4, <1>5, ListArrive, ListContinue DEF Next

\* Changes of plans and products that do not overlap, beside uploads of profile images
\* that do, implement the contract: each request changes the list of the plan it names
\* by the products it sends and the lists of the other plans by nothing, a request that
\* is refused or fails changes none, and a seeding that fails half way has given some of
\* its plans the products of the seeds.
THEOREM PlansImplementContract == PlansApart => (Spec => ImplementsContract)
<1> SUFFICES ASSUME PlansApart PROVE Spec => ImplementsContract
  OBVIOUS
<1>1. WritersAlone /\ SeedAlone
  BY DEF WritersAlone, PlansApart, Uploads, SeedAlone
<1>2. TypeOK /\ SoloInv /\ [Next]_vars => SoloInv'
  BY <1>1, SoloNext
<1>3. TypeOK /\ JoinInv /\ SeedInv /\ [Next]_vars => SeedInv'
  BY <1>1, SeedNext
<1>4. TypeOK /\ SoloInv /\ JoinInv /\ SeedInv /\ ListInv /\ [Next]_vars => ListInv'
  BY ListNext
<1>5. TypeOK /\ SoloInv /\ JoinInv /\ SeedInv /\ ListInv /\ [Next]_vars
        => [Contract!Next]_<<products, [b \in Boxes |-> rows[b].products],
                             [r \in Requests |-> Asked(slot[r])]>>
  BY ListNext DEF Mapped, PlanLists, Waiting
<1>6. QED
  BY <1>2, <1>3, <1>4, <1>5, TypeInit, TypeNext, SoloInit, SeedInit, JoinNext, ListInit, PTL
     DEF Spec, ImplementsContract, Contract!Spec

=============================================================================
