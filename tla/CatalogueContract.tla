-------------------------- MODULE CatalogueContract --------------------------
(***************************************************************************)
(* What the catalogue promises about which products a plan has: a request  *)
(* changes the list of the plan it names by the products it sends, once,   *)
(* when it is answered; one that is refused changes nothing.               *)
(***************************************************************************)
CONSTANTS
    Plans,
    SeedPlans,   \* the plans that the seeds are for
    ProductIds,
    Skus,
    Seeds,       \* the SKUs of the seeds
    Clients,     \* who waits for the answer to one request at a time
    None

VARIABLES
    stock,  \* product -> its SKU, None if there is no such product
    lists,  \* plan -> its products
    asked   \* client -> the request that is not yet answered

Nothing == [op |-> None, plan |-> None, products |-> {}]

Sent ==
    [op : {"addProducts", "removeProducts"}, plan : Plans, products : SUBSET ProductIds]
        \union [op : {"remove"}, plan : Plans, products : {{}}]
        \union [op : {"removeProduct"}, plan : {None}, products : {{d} : d \in ProductIds}]
        \union [op : {"seedProducts"}, plan : {None}, products : {{}}]

Stocked == {d \in ProductIds : stock[d] # None}

Init ==
    /\ stock = [d \in ProductIds |-> None]
    /\ lists = [b \in Plans |-> {}]
    /\ asked = [c \in Clients |-> Nothing]

Ask(c) ==
    /\ asked[c] = Nothing
    /\ \E q \in Sent : asked' = [asked EXCEPT ![c] = q]
    /\ UNCHANGED <<stock, lists>>

Answer(c) == asked' = [asked EXCEPT ![c] = Nothing]

Refuse(c) == Answer(c) /\ UNCHANGED <<stock, lists>>

-----------------------------------------------------------------------------

NewProduct ==
    /\ \E d \in ProductIds \ Stocked, sku \in Skus : stock' = [stock EXCEPT ![d] = sku]
    /\ UNCHANGED <<lists, asked>>

\* All the products sent, or none if one of them does not exist.
Add(c) ==
    /\ asked[c].op = "addProducts" /\ asked[c].products \subseteq Stocked
    /\ lists' = [lists EXCEPT ![asked[c].plan] = @ \union asked[c].products]
    /\ Answer(c) /\ UNCHANGED stock

Take(c) ==
    /\ asked[c].op = "removeProducts"
    /\ lists' = [lists EXCEPT ![asked[c].plan] = @ \ asked[c].products]
    /\ Answer(c) /\ UNCHANGED stock

\* A plan that is removed leaves no list behind.
RemovePlan(c) ==
    /\ asked[c].op = "remove"
    /\ lists' = [lists EXCEPT ![asked[c].plan] = {}]
    /\ Answer(c) /\ UNCHANGED stock

DropProduct(c) ==
    /\ asked[c].op = "removeProduct"
    /\ stock' = [d \in ProductIds |-> IF d \in asked[c].products THEN None ELSE stock[d]]
    /\ lists' = [b \in Plans |-> lists[b] \ asked[c].products]
    /\ Answer(c)

\* The seeding takes the product of a seed, which it inserts if there is none.
SeedProduct(c) ==
    /\ asked[c].op = "seedProducts"
    /\ \E d \in ProductIds :
        /\ \/ stock[d] \in Seeds /\ UNCHANGED stock
           \/ /\ d \notin Stocked
              /\ \E sku \in Seeds :
                  /\ \A e \in Stocked : stock[e] # sku
                  /\ stock' = [stock EXCEPT ![d] = sku]
        /\ asked' = [asked EXCEPT ![c].products = @ \union {d}]
    /\ UNCHANGED lists

\* Once it has a product of each it adds them to one plan of theirs after the other.
SeedPlan(c) ==
    /\ asked[c].op = "seedProducts"
    /\ \A sku \in Seeds : \E d \in asked[c].products : stock[d] = sku
    /\ \E b \in SeedPlans : lists' = [lists EXCEPT ![b] = @ \union asked[c].products]
    /\ Answer(c) \/ UNCHANGED asked
    /\ UNCHANGED stock

Next ==
    \/ NewProduct
    \/ \E c \in Clients :
        \/ Ask(c) \/ Refuse(c) \/ Add(c) \/ Take(c) \/ RemovePlan(c)
        \/ DropProduct(c) \/ SeedProduct(c) \/ SeedPlan(c)

Spec == Init /\ [][Next]_<<stock, lists, asked>>

=============================================================================
