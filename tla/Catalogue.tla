------------------------------ MODULE Catalogue ------------------------------
(***************************************************************************)
(* Plans, their products, and the images of plans and users:               *)
(* SubscriptionPlansService, FileStorageService, and the code of           *)
(* AuthService and UsersService that writes users.profile_image_url.       *)
(*                                                                         *)
(* These handlers read a row, change their copy and save() it: the whole   *)
(* row, the list of products included, as it was when it was read. Each    *)
(* action is the code between two awaits that touch shared state; a        *)
(* request that is refused before it wrote anything is no step.            *)
(***************************************************************************)
EXTENDS Naturals, Sequences, FiniteSets

CONSTANTS
    Boxes,       \* ids of subscription plans
    People,      \* ids of users
    SeedSkus,    \* the SKUs of seedDefaultProducts, in order
    SeedBoxes,   \* the plans whose name is the one the seeds belong to
    OtherSku,    \* any other SKU
    Requests,    \* request slots
    Ops,         \* the operations of this workload
    Alone,       \* those that are only sent when nothing else is under way
    MaxProducts, \* bound: rows ever inserted in products
    MaxFiles,    \* bound: files ever stored
    MaxFails,    \* bound: calls that fail
    None         \* an absent value

Owners     == Boxes \union People
ProductIds == 1 .. MaxProducts
FileIds    == 1 .. MaxFiles
NoFile     == 0
Seeded     == {SeedSkus[k] : k \in 1 .. Len(SeedSkus)}
Skus       == Seeded \union {OtherSku}
AllOps     == {"uploadImage", "uploadProfileImage", "editUser", "remove", "addProducts",
               "removeProducts", "createProduct", "removeProduct", "seedProducts"}

ASSUME CatalogueAssumption ==
    /\ Boxes \intersect People = {} /\ SeedBoxes \subseteq Boxes
    /\ SeedSkus \in Seq(Seeded) /\ Len(SeedSkus) > 0
    /\ Alone \subseteq Ops /\ Ops \subseteq AllOps
    /\ MaxProducts \in Nat /\ MaxFiles \in Nat /\ MaxFails \in Nat
    /\ None \notin Owners \union Skus

VARIABLES
    rows,      \* tables subscription_plans and users, with the join rows of a plan
    products,  \* table products: id -> its SKU, None if there is no row
    files,     \* the store: file -> the folder it is in, None if there is no file
    nextFile,  \* the next file name (Date.now() makes every name new)
    slot,      \* request slot -> where its handler is, and its local variables
    fails      \* failures so far

vars == <<rows, products, files, nextFile, slot, fails>>

-----------------------------------------------------------------------------
(* The data. *)

Rows  == [is : {"unused", "stored", "deleted"}, image : FileIds \union {NoFile},
          products : SUBSET ProductIds]
NoRow == [is |-> "unused", image |-> NoFile, products |-> {}]

Locals == [pc : {"idle", "store", "deleteOld", "save", "delete", "findProducts", "dropProduct",
                 "findSku", "insertSku", "findPlans", "assign"},
           op : AllOps \union {None}, owner : Owners \union {None}, copy : Rows,
           file : FileIds \union {NoFile}, list : SUBSET ProductIds,
           k : 1 .. Len(SeedSkus), todo : SUBSET Boxes, copies : [Boxes -> Rows]]
Idle == [pc |-> "idle", op |-> None, owner |-> None, copy |-> NoRow, file |-> NoFile,
         list |-> {}, k |-> 1, todo |-> {}, copies |-> [b \in Boxes |-> NoRow]]

TypeOK ==
    /\ rows \in [Owners -> Rows]
    /\ products \in [ProductIds -> Skus \union {None}]
    /\ files \in [FileIds -> Owners \union {None}]
    /\ nextFile \in 1 .. MaxFiles + 1
    /\ slot \in [Requests -> Locals]
    /\ fails \in 0 .. MaxFails

Init ==
    /\ rows = [o \in Owners |-> NoRow]
    /\ products = [d \in ProductIds |-> None]
    /\ files = [f \in FileIds |-> None]
    /\ nextFile = 1
    /\ slot = [r \in Requests |-> Idle]
    /\ fails = 0

-----------------------------------------------------------------------------
(* Queries, writes and the moves of a slot. *)

IsRow(o)    == rows[o].is = "stored"
Exists      == {d \in ProductIds : products[d] # None}
WithSku(sku) == {d \in ProductIds : products[d] = sku}
Present(f)  == f \in FileIds /\ files[f] # None

At(r, pc) == slot[r].pc = pc
Quiet     == \A r \in Requests : At(r, "idle")
Move(r, locals) == slot' = [slot EXCEPT ![r] = locals]
Finish(r) == Move(r, Idle)

Accept(r, op, locals) ==
    /\ op \in Ops /\ At(r, "idle")
    /\ op \in Alone => Quiet
    /\ \A q \in Requests : slot[q].op \notin Alone
    /\ Move(r, [locals EXCEPT !.op = op])

\* save(): the row and the join rows become the copy, and a row that is gone is
\* inserted again. A foreign key refuses a product that is gone.
Put(o, copy) ==
    IF copy.products \subseteq Exists THEN rows' = [rows EXCEPT ![o] = copy] ELSE UNCHANGED rows

-----------------------------------------------------------------------------
(* POST plans/:id/image and POST auth/me/profile-image.                     *)

UploadRead(r, o) ==
    /\ IsRow(o)
    /\ Accept(r, IF o \in Boxes THEN "uploadImage" ELSE "uploadProfileImage",
              [Idle EXCEPT !.pc = "store", !.owner = o, !.copy = rows[o]])
    /\ UNCHANGED <<rows, products, files, nextFile, fails>>

\* Mutant: the name of the file is not made new by Date.now().
BugStoreImage(r) ==
    /\ At(r, "store") /\ nextFile <= MaxFiles
    /\ LET f == IF slot[r].copy.image # NoFile THEN slot[r].copy.image ELSE nextFile
       IN  /\ files' = [files EXCEPT ![f] = slot[r].owner]
           /\ nextFile' = IF f = nextFile THEN nextFile + 1 ELSE nextFile
           /\ Move(r, [slot[r] EXCEPT !.file = f,
                           !.pc = IF slot[r].copy.image = NoFile THEN "save" ELSE "deleteOld"])
    /\ UNCHANGED <<rows, products, fails>>

\* storeImage
StoreImage(r) ==
    /\ At(r, "store") /\ nextFile <= MaxFiles
    /\ files' = [files EXCEPT ![nextFile] = slot[r].owner]
    /\ nextFile' = nextFile + 1
    /\ Move(r, [slot[r] EXCEPT !.file = nextFile,
                    !.pc = IF slot[r].copy.image = NoFile THEN "save" ELSE "deleteOld"])
    /\ UNCHANGED <<rows, products, fails>>

\* Mutant: the old file is left where it is.
BugDeleteOld(r) ==
    /\ At(r, "deleteOld")
    /\ Move(r, [slot[r] EXCEPT !.pc = "save"])
    /\ UNCHANGED <<rows, products, nextFile, files, fails>>

\* deleteByPublicUrl of the image the copy names; its own failure is swallowed.
DeleteOld(r) ==
    /\ At(r, "deleteOld")
    /\ Move(r, [slot[r] EXCEPT !.pc = "save"])
    /\ \/ files' = [files EXCEPT ![slot[r].copy.image] = None] /\ UNCHANGED fails
       \/ fails < MaxFails /\ fails' = fails + 1 /\ UNCHANGED files
    /\ UNCHANGED <<rows, products, nextFile>>

\* The save of an upload, of a change of products, and of a user's edit.
Save(r) ==
    /\ At(r, "save")
    /\ Put(slot[r].owner,
           IF slot[r].file = NoFile THEN slot[r].copy
           ELSE [slot[r].copy EXCEPT !.image = slot[r].file])
    /\ Finish(r)
    /\ UNCHANGED <<products, files, nextFile, fails>>

-----------------------------------------------------------------------------
(* Rows.                                                                    *)

\* create, and register: one INSERT.
Create(o) ==
    /\ rows[o].is = "unused"
    /\ rows' = [rows EXCEPT ![o].is = "stored"]
    /\ UNCHANGED <<products, files, nextFile, slot, fails>>

\* UsersService.update and updateStatus change no image, but save the one they read.
EditUserRead(r, u) ==
    /\ IsRow(u)
    /\ Accept(r, "editUser", [Idle EXCEPT !.pc = "save", !.owner = u, !.copy = rows[u]])
    /\ UNCHANGED <<rows, products, files, nextFile, fails>>

RemoveRead(r, o) ==
    /\ IsRow(o)
    /\ Accept(r, "remove", [Idle EXCEPT !.pc = "delete", !.owner = o])
    /\ UNCHANGED <<rows, products, files, nextFile, fails>>

\* Neither remove deletes the image. (That subscriptions may refer to the row is
\* left to Fail.)
Delete(r) ==
    /\ At(r, "delete")
    /\ rows' = [rows EXCEPT ![slot[r].owner] = [NoRow EXCEPT !.is = "deleted"]]
    /\ Finish(r)
    /\ UNCHANGED <<products, files, nextFile, fails>>

-----------------------------------------------------------------------------
(* Products.                                                                *)

CreateProduct(sku) ==
    /\ "createProduct" \in Ops /\ Quiet
    /\ \E d \in ProductIds :
        /\ products[d] = None /\ \A e \in 1 .. d - 1 : products[e] # None
        /\ products' = [products EXCEPT ![d] = sku]
    /\ UNCHANGED <<rows, files, nextFile, slot, fails>>

AddRead(r, b, list) ==
    /\ IsRow(b)
    /\ Accept(r, "addProducts", [Idle EXCEPT !.pc = "findProducts", !.owner = b,
                                             !.copy = rows[b], !.list = list])
    /\ UNCHANGED <<rows, products, files, nextFile, fails>>

\* Mutant: the products sent replace the list.
BugFindProducts(r) ==
    /\ At(r, "findProducts")
    /\ IF slot[r].list \subseteq Exists
       THEN Move(r, [slot[r] EXCEPT !.pc = "save", !.copy.products = slot[r].list])
       ELSE Finish(r)
    /\ UNCHANGED <<rows, products, files, nextFile, fails>>

\* Every product sent must exist.
FindProducts(r) ==
    /\ At(r, "findProducts")
    /\ IF slot[r].list \subseteq Exists
       THEN Move(r, [slot[r] EXCEPT !.pc = "save", !.copy.products = @ \union slot[r].list])
       ELSE Finish(r)
    /\ UNCHANGED <<rows, products, files, nextFile, fails>>

RemoveProductsRead(r, b, list) ==
    /\ IsRow(b)
    /\ Accept(r, "removeProducts", [Idle EXCEPT !.pc = "save", !.owner = b,
                                        !.copy = [rows[b] EXCEPT !.products = @ \ list],
                                        !.list = list])
    /\ UNCHANGED <<rows, products, files, nextFile, fails>>

RemoveProductRead(r, d) ==
    /\ products[d] # None
    /\ Accept(r, "removeProduct", [Idle EXCEPT !.pc = "dropProduct", !.list = {d}])
    /\ UNCHANGED <<rows, products, files, nextFile, fails>>

\* ON DELETE CASCADE takes the join rows.
DropProduct(r) ==
    /\ At(r, "dropProduct")
    /\ products' = [d \in ProductIds |-> IF d \in slot[r].list THEN None ELSE products[d]]
    /\ rows' = [o \in Owners |-> [rows[o] EXCEPT !.products = @ \ slot[r].list]]
    /\ Finish(r)
    /\ UNCHANGED <<files, nextFile, fails>>

-----------------------------------------------------------------------------
(* POST plans/seed-products: find or insert each product by its SKU, then   *)
(* add the products to the plans of the name.                               *)

SeedStart(r) ==
    /\ Accept(r, "seedProducts", [Idle EXCEPT !.pc = "findSku"])
    /\ UNCHANGED <<rows, products, files, nextFile, fails>>

\* The seed has its product: on to the next seed, or to the plans.
Got(r, d) ==
    Move(r, [slot[r] EXCEPT !.list = @ \union {d},
                            !.pc = IF slot[r].k = Len(SeedSkus) THEN "findPlans" ELSE "findSku",
                            !.k = IF slot[r].k = Len(SeedSkus) THEN 1 ELSE @ + 1])

\* Mutant: a product that exists is skipped without a look.
BugFindSku(r) ==
    /\ At(r, "findSku")
    /\ IF WithSku(SeedSkus[slot[r].k]) = {}
       THEN Move(r, [slot[r] EXCEPT !.pc = "insertSku"])
       ELSE Move(r, [slot[r] EXCEPT
                        !.pc = IF slot[r].k = Len(SeedSkus) THEN "findPlans" ELSE "findSku",
                        !.k = IF slot[r].k = Len(SeedSkus) THEN 1 ELSE @ + 1])
    /\ UNCHANGED <<rows, products, files, nextFile, fails>>

FindSku(r) ==
    /\ At(r, "findSku")
    /\ IF WithSku(SeedSkus[slot[r].k]) = {}
       THEN Move(r, [slot[r] EXCEPT !.pc = "insertSku"])
       ELSE \E d \in WithSku(SeedSkus[slot[r].k]) : Got(r, d)
    /\ UNCHANGED <<rows, products, files, nextFile, fails>>

InsertSku(r) ==
    /\ At(r, "insertSku")
    /\ \E d \in ProductIds :
        /\ products[d] = None /\ \A e \in 1 .. d - 1 : products[e] # None
        /\ products' = [products EXCEPT ![d] = SeedSkus[slot[r].k]]
        /\ Got(r, d)
    /\ UNCHANGED <<rows, files, nextFile, fails>>

\* find({ where: { name }, relations: ['products'] }) and the plans that lack some.
FindPlans(r) ==
    /\ At(r, "findPlans")
    /\ LET lacking == {b \in SeedBoxes : IsRow(b) /\ ~(slot[r].list \subseteq rows[b].products)}
       IN  IF lacking = {} THEN Finish(r)
           ELSE Move(r, [slot[r] EXCEPT !.pc = "assign", !.todo = lacking,
                                        !.copies = [b \in Boxes |-> rows[b]]])
    /\ UNCHANGED <<rows, products, files, nextFile, fails>>

Assign(r) ==
    /\ At(r, "assign")
    /\ \E b \in slot[r].todo :
        LET copy == [slot[r].copies[b] EXCEPT !.products = @ \union slot[r].list]
        IN  /\ Put(b, copy)
            /\ IF slot[r].todo = {b} \/ ~(copy.products \subseteq Exists)
               THEN Finish(r)
               ELSE Move(r, [slot[r] EXCEPT !.todo = @ \ {b}])
    /\ UNCHANGED <<products, files, nextFile, fails>>

-----------------------------------------------------------------------------

\* An awaited call of a handler throws, or the instance dies.
Fail(r) ==
    /\ ~At(r, "idle") /\ fails < MaxFails
    /\ fails' = fails + 1
    /\ Finish(r)
    /\ UNCHANGED <<rows, products, files, nextFile>>

Continue(r) ==
    \/ StoreImage(r) \/ DeleteOld(r) \/ Save(r) \/ Delete(r)
    \/ FindProducts(r) \/ DropProduct(r)
    \/ FindSku(r) \/ InsertSku(r) \/ FindPlans(r) \/ Assign(r)

Arrive(r) ==
    \/ \E o \in Owners : UploadRead(r, o) \/ RemoveRead(r, o)
    \/ \E u \in People : EditUserRead(r, u)
    \/ \E b \in Boxes, list \in SUBSET ProductIds :
           AddRead(r, b, list) \/ RemoveProductsRead(r, b, list)
    \/ \E d \in ProductIds : RemoveProductRead(r, d)
    \/ SeedStart(r)

Next ==
    \/ \E r \in Requests : Arrive(r) \/ Continue(r) \/ Fail(r)
    \/ \E o \in Owners : Create(o)
    \/ \E sku \in Skus : CreateProduct(sku)

Spec == Init /\ [][Next]_vars

-----------------------------------------------------------------------------
(* Properties. *)

\* However uploads overlap each other and everything else, and whatever fails: the
\* file an upload has stored is there when it names it, since others delete only
\* what a row named when they read it.
HeldFileExists ==
    \A r \in Requests : slot[r].file # NoFile => files[slot[r].file] # None

\* Uploads overlap, whole-row writers do not run beside them: when nothing has
\* failed and nothing is under way, every row names a file that is there.
NamedFileExists ==
    Quiet /\ fails = 0 =>
        \A o \in Owners : IsRow(o) /\ rows[o].image # NoFile => Present(rows[o].image)

\* Files in the folder of a plan that the plan does not name.
Orphans == {f \in FileIds : \E b \in Boxes : files[f] = b /\ IsRow(b) /\ rows[b].image # f}

\* Uploads of plans that do not overlap leave one file behind per failure at most.
OneOrphanPerFailure == Quiet => Cardinality(Orphans) <= fails

\* Whether b was there when the seeding in slot r looked for the plans of the name.
Found(r, b) == IF At(r, "findPlans") THEN IsRow(b) ELSE slot[r].copies[b].is = "stored"

\* seed-products, run alone, also after runs that failed half way: every plan of
\* the name that it found has every product of the seeds when it returns. (A plan
\* that is created between its look and its return gets them from the next run.)
SeedsAssigned ==
    [][\A r \in Requests :
         /\ slot[r].pc \in {"findPlans", "assign"} /\ slot'[r].pc = "idle"
         /\ fails' = fails
         => \A b \in SeedBoxes : Found(r, b) /\ rows'[b].is = "stored" =>
              \A sku \in Seeded : \E d \in rows'[b].products : products'[d] = sku]_vars

\* What the contract sees of a handler: the plan and the products that were sent, or
\* those that the seeding has gathered.
Asked(l) ==
    IF \/ l.op \in {"addProducts", "removeProducts", "removeProduct", "seedProducts"}
       \/ l.op = "remove" /\ l.owner \in Boxes
    THEN [op |-> l.op, plan |-> l.owner, products |-> l.list]
    ELSE [op |-> None, plan |-> None, products |-> {}]

Contract == INSTANCE CatalogueContract WITH
    Plans <- Boxes, SeedPlans <- SeedBoxes, Seeds <- Seeded, Clients <- Requests,
    stock <- products,
    lists <- [b \in Boxes |-> rows[b].products],
    asked <- [r \in Requests |-> Asked(slot[r])]

\* Requests of an admin one after the other, beside uploads of profile images, failing
\* anywhere: the save() of a whole row changes the list of the plan that was named by
\* the products that were sent, of no other plan and by no other product, and a request
\* that was refused or has failed has changed nothing, but for the plans that a seeding
\* has saved before. An upload of a plan's image gives back the list it read.
ImplementsContract == Contract!Spec

=============================================================================
