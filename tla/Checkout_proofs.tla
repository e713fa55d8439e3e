--------------------------- MODULE Checkout_proofs ---------------------------
(***************************************************************************)
(* Checkouts beside everything that writes users: types, and the safety    *)
(* properties of Checkout and Accounts for any number of users, slots,     *)
(* customers, subscriptions, retries and failures.                         *)
(***************************************************************************)
EXTENDS Checkout, Accounts_proofs, FiniteSetTheorems

USE AccountsAssumption, CheckoutAssumption

-----------------------------------------------------------------------------
(* Types. *)

LEMMA IdleSlotTyped == IdleSlot \in CheckoutLocals /\ Filled(IdleSlot) /\ NoObject \in Objects
BY DEF IdleSlot, CheckoutLocals, Filled, NoObject, Objects, Nobody, BeforeCreate, AfterCreate

\* Slot c takes the locals l.
Take(c, l) == slot' = [slot EXCEPT ![c] = l]

LEMMA TakeTyped ==
    ASSUME CheckoutTypeOK, NEW c \in Slots, NEW l \in CheckoutLocals, Filled(l), Take(c, l)
    PROVE  /\ slot' \in [Slots -> CheckoutLocals]
           /\ \A d \in Slots : Filled(slot'[d])
BY DEF CheckoutTypeOK, Take

LEMMA LeaveTyped ==
    ASSUME CheckoutTypeOK, NEW c \in Slots, Leave(c)
    PROVE  /\ slot' \in [Slots -> CheckoutLocals]
           /\ \A d \in Slots : Filled(slot'[d])
BY IdleSlotTyped, TakeTyped DEF Leave, Take

\* What a slot holds once its subscription exists.
LEMMA WorkingSlot ==
    ASSUME CheckoutTypeOK, NEW c \in Slots, slot[c].pc \in AfterCreate
    PROVE  /\ slot[c] \in CheckoutLocals
           /\ slot[c].user \in Users /\ slot[c].email \in Emails /\ slot[c].plan \in Plans
           /\ slot[c].customer \in CustomerIds
           /\ slot[c].stripe \in StripeIds
           /\ Invoice(c) \in Objects
BY DEF CheckoutTypeOK, Filled, AfterCreate, Invoice

\* The loop goes on: another step of the same attempt, or the next one.
LEMMA GoOnTyped ==
    ASSUME CheckoutTypeOK, NEW c \in Slots, slot[c].pc \in AfterCreate,
           NEW pc \in AfterCreate, Go(c, pc), pc = "wait" => slot[c].attempt < Retries
    PROVE  /\ slot' \in [Slots -> CheckoutLocals]
           /\ \A d \in Slots : Filled(slot'[d])
<1> DEFINE l == [slot[c] EXCEPT !.pc = pc]
<1>1. l \in CheckoutLocals /\ Filled(l)
  BY WorkingSlot DEF CheckoutLocals, Filled, AfterCreate, BeforeCreate
<1>2. Take(c, l)
  BY DEF Go, Take, CheckoutTypeOK
<1>3. QED
  BY <1>1, <1>2, TakeTyped

LEMMA NextAttemptTyped ==
    ASSUME CheckoutTypeOK, NEW c \in Slots, slot[c].pc \in AfterCreate, NextAttempt(c)
    PROVE  /\ slot' \in [Slots -> CheckoutLocals]
           /\ \A d \in Slots : Filled(slot'[d])
BY GoOnTyped DEF NextAttempt, AfterCreate

LEMMA HaveSecretTyped ==
    ASSUME CheckoutTypeOK, NEW c \in Slots, slot[c].pc \in AfterCreate, HaveSecret(c)
    PROVE  /\ slot' \in [Slots -> CheckoutLocals]
           /\ \A d \in Slots : Filled(slot'[d])
<1> DEFINE l == [slot[c] EXCEPT !.pc = "key", !.secret = TRUE]
<1>1. l \in CheckoutLocals /\ Filled(l)
  BY WorkingSlot DEF CheckoutLocals, Filled, AfterCreate, BeforeCreate
<1>2. Take(c, l)
  BY DEF HaveSecret, Take, CheckoutTypeOK
<1>3. QED
  BY <1>1, <1>2, TakeTyped

LEMMA CheckTyped ==
    ASSUME AccountsTypeOK, CheckoutTypeOK, NEW c \in Slots, NEW u \in Users, NEW e \in Emails,
           NEW p \in Plans, CheckoutCheck(c, u, e, p)
    PROVE  CheckoutTypeOK'
<1> DEFINE l == [IdleSlot EXCEPT !.pc = "list", !.user = u, !.email = e, !.plan = p]
<1>1. l \in CheckoutLocals /\ Filled(l)
  <2>1. l \in CheckoutLocals /\ l.pc = "list" /\ l.user = u /\ l.email = e /\ l.plan = p
        /\ l.stripe = Nobody
    BY IdleSlotTyped DEF CheckoutLocals, IdleSlot
  <2>2. QED
    BY <2>1 DEF Filled, BeforeCreate, AfterCreate
<1>2. Take(c, l)
  BY DEF CheckoutCheck, Take
<1>3. QED
  BY <1>1, <1>2, TakeTyped DEF CheckoutCheck, CheckoutTypeOK, atStripe

LEMMA ListTyped ==
    ASSUME AccountsTypeOK, CheckoutTypeOK, NEW c \in Slots, ListCustomers(c)
    PROVE  CheckoutTypeOK'
<1>0. /\ slot[c] \in CheckoutLocals /\ slot[c].pc = "list" /\ slot[c].stripe = Nobody
      /\ slot[c].user \in Users /\ slot[c].email \in Emails /\ slot[c].plan \in Plans
  BY DEF ListCustomers, Is, CheckoutTypeOK, Filled, BeforeCreate
<1>1. ASSUME NEW k \in CustomerIds,
             slot' = [slot EXCEPT ![c].pc = "create", ![c].customer = k]
      PROVE  slot' \in [Slots -> CheckoutLocals] /\ \A d \in Slots : Filled(slot'[d])
  <2> DEFINE l == [slot[c] EXCEPT !.pc = "create", !.customer = k]
  <2>1. l \in CheckoutLocals /\ Filled(l)
    BY <1>0 DEF CheckoutLocals, Filled, AfterCreate, BeforeCreate
  <2>2. Take(c, l)
    BY <1>1 DEF Take, CheckoutTypeOK
  <2>3. QED
    BY <2>1, <2>2, TakeTyped
<1>2. ASSUME Go(c, "newCustomer")
      PROVE  slot' \in [Slots -> CheckoutLocals] /\ \A d \in Slots : Filled(slot'[d])
  <2> DEFINE l == [slot[c] EXCEPT !.pc = "newCustomer"]
  <2>1. l \in CheckoutLocals /\ Filled(l)
    BY <1>0 DEF CheckoutLocals, Filled, AfterCreate, BeforeCreate
  <2>2. Take(c, l)
    BY <1>2 DEF Take, Go, CheckoutTypeOK
  <2>3. QED
    BY <2>1, <2>2, TakeTyped
<1>3. slot' \in [Slots -> CheckoutLocals] /\ \A d \in Slots : Filled(slot'[d])
  BY <1>1, <1>2 DEF ListCustomers, Of
<1>4. collided' \subseteq Emails
  BY <1>0 DEF ListCustomers, CheckoutTypeOK
<1>5. QED
  BY <1>3, <1>4 DEF ListCustomers, CheckoutTypeOK, atStripe

\* What createCustomer does to Stripe's table.
LEMMA NewCustomerTyped ==
    ASSUME CheckoutTypeOK, NEW c \in Slots, NewCustomer(c)
    PROVE  /\ nextCustomer \in CustomerIds /\ slot[c].email \in Emails
           /\ customers' \in [CustomerIds -> Emails \union {None}]
           /\ nextCustomer' \in 1 .. MaxCustomers + 1
BY DEF NewCustomer, Is, CheckoutTypeOK, Filled, CustomerIds

LEMMA CreateCustomerTyped ==
    ASSUME AccountsTypeOK, CheckoutTypeOK, NEW c \in Slots, CreateCustomer(c)
    PROVE  CheckoutTypeOK'
<1> DEFINE l == [slot[c] EXCEPT !.pc = "create", !.customer = nextCustomer]
<1>1. NewCustomer(c) /\ slot[c].pc = "newCustomer"
  BY DEF CreateCustomer, NewCustomer, Is
<1>2. l \in CheckoutLocals /\ Filled(l)
  <2>1. slot[c] \in CheckoutLocals /\ Filled(slot[c])
    BY DEF CheckoutTypeOK
  <2>2. l \in CheckoutLocals /\ l.pc = "create" /\ l.customer = nextCustomer
        /\ l.user = slot[c].user /\ l.email = slot[c].email /\ l.plan = slot[c].plan
        /\ l.stripe = slot[c].stripe
    BY <1>1, <2>1, NewCustomerTyped DEF CheckoutLocals
  <2>3. QED
    BY <1>1, <2>1, <2>2, NewCustomerTyped DEF Filled, AfterCreate, BeforeCreate
<1>3. Take(c, l)
  BY DEF CreateCustomer, Take, CheckoutTypeOK
<1>4. QED
  BY <1>1, <1>2, <1>3, TakeTyped, NewCustomerTyped
     DEF CreateCustomer, NewCustomer, CheckoutTypeOK

\* What createSubscription does to Stripe's table.
LEMMA NewSubscriptionTyped ==
    ASSUME CheckoutTypeOK, NEW c \in Slots, NEW invoice \in {"draft", "open"},
           NEW secret \in BOOLEAN, NewSubscription(c, invoice, secret)
    PROVE  /\ nextStripe \in StripeIds
           /\ billing' \in [StripeIds -> Objects]
           /\ nextStripe' \in 1 .. MaxStripe + 1
           /\ slot[c].customer \in CustomerIds
<1>1. /\ slot[c].user \in Users /\ slot[c].plan \in Plans /\ slot[c].customer \in CustomerIds
      /\ nextStripe \in StripeIds
  BY DEF NewSubscription, Is, CheckoutTypeOK, Filled, StripeIds
<1>2. [user |-> slot[c].user, customer |-> slot[c].customer, price |-> PriceOf[slot[c].plan],
       status |-> "incomplete", invoice |-> invoice, secret |-> secret, told |-> "nothing"]
         \in Objects
  BY <1>1 DEF Objects
<1>3. QED
  BY <1>1, <1>2 DEF NewSubscription, CheckoutTypeOK, StripeIds

LEMMA CreateSubscriptionTyped ==
    ASSUME AccountsTypeOK, CheckoutTypeOK, NEW c \in Slots, NEW invoice \in {"draft", "open"},
           NEW secret \in BOOLEAN, CreateSubscription(c, invoice, secret)
    PROVE  CheckoutTypeOK'
<1> DEFINE l == [slot[c] EXCEPT !.pc = IF secret THEN "key" ELSE "retrieve",
                                !.stripe = nextStripe, !.secret = secret]
<1>1. NewSubscription(c, invoice, secret) /\ slot[c].pc = "create"
  BY DEF CreateSubscription, NewSubscription, Is
<1>2. l \in CheckoutLocals /\ Filled(l)
  <2>1. slot[c] \in CheckoutLocals /\ Filled(slot[c])
    BY DEF CheckoutTypeOK
  <2>2. l \in CheckoutLocals /\ l.pc \in {"key", "retrieve"} /\ l.stripe = nextStripe
        /\ l.user = slot[c].user /\ l.email = slot[c].email /\ l.plan = slot[c].plan
        /\ l.customer = slot[c].customer
    <3> DEFINE step == IF secret THEN "key" ELSE "retrieve"
    <3>1. step \in {"key", "retrieve"} /\ nextStripe \in StripeIds
      BY <1>1, NewSubscriptionTyped
    <3> HIDE DEF step
    <3>2. [slot[c] EXCEPT !.pc = step, !.stripe = nextStripe, !.secret = secret] \in CheckoutLocals
      BY <2>1, <3>1 DEF CheckoutLocals
    <3>3. QED
      BY <2>1, <3>1, <3>2 DEF CheckoutLocals, step
  <2>3. QED
    BY <1>1, <2>1, <2>2, NewSubscriptionTyped DEF Filled, AfterCreate, BeforeCreate
<1>3. Take(c, l)
  BY DEF CreateSubscription, Take, CheckoutTypeOK
<1>4. QED
  BY <1>1, <1>2, <1>3, TakeTyped, NewSubscriptionTyped
     DEF CreateSubscription, NewSubscription, CheckoutTypeOK

LEMMA RetrieveTyped ==
    ASSUME AccountsTypeOK, CheckoutTypeOK, NEW c \in Slots,
           RetrieveSubscription(c) \/ RetrieveInvoice(c)
    PROVE  CheckoutTypeOK'
<1>1. slot[c].pc \in AfterCreate
  BY DEF RetrieveSubscription, RetrieveInvoice, Is, AfterCreate
<1>2. HaveSecret(c) \/ Go(c, "invoice") \/ Go(c, "finalize") \/ NextAttempt(c)
  BY DEF RetrieveSubscription, RetrieveInvoice
<1>3. slot' \in [Slots -> CheckoutLocals] /\ \A d \in Slots : Filled(slot'[d])
  BY <1>1, <1>2, HaveSecretTyped, GoOnTyped, NextAttemptTyped DEF AfterCreate
<1>4. QED
  BY <1>3 DEF RetrieveSubscription, RetrieveInvoice, CheckoutTypeOK, atStripe

LEMMA FinalizeTyped ==
    ASSUME AccountsTypeOK, CheckoutTypeOK, NEW c \in Slots, NEW secret \in BOOLEAN,
           FinalizeInvoice(c, secret)
    PROVE  CheckoutTypeOK'
<1>1. slot[c].pc \in AfterCreate
  BY DEF FinalizeInvoice, Is, AfterCreate
<1>2. slot' \in [Slots -> CheckoutLocals] /\ \A d \in Slots : Filled(slot'[d])
  BY <1>1, HaveSecretTyped, NextAttemptTyped DEF FinalizeInvoice
<1>3. billing' \in [StripeIds -> Objects]
  BY <1>1, WorkingSlot DEF FinalizeInvoice, CheckoutTypeOK, Objects
<1>4. QED
  BY <1>2, <1>3 DEF FinalizeInvoice, CheckoutTypeOK

LEMMA WaitTyped ==
    ASSUME AccountsTypeOK, CheckoutTypeOK, NEW c \in Slots, Wait(c)
    PROVE  CheckoutTypeOK'
<1> DEFINE l == [slot[c] EXCEPT !.pc = "retrieve", !.attempt = @ + 1]
<1>1. l \in CheckoutLocals /\ Filled(l)
  BY WorkingSlot DEF Wait, Is, CheckoutTypeOK, CheckoutLocals, Filled, AfterCreate, BeforeCreate
<1>2. Take(c, l)
  BY DEF Wait, Take, CheckoutTypeOK
<1>3. QED
  BY <1>1, <1>2, TakeTyped DEF Wait, CheckoutTypeOK, atStripe

LEMMA AnswerTyped ==
    ASSUME AccountsTypeOK, CheckoutTypeOK, NEW c \in Slots, Answer(c)
    PROVE  CheckoutTypeOK'
<1>1. slot[c].stripe \in StripeIds
  BY WorkingSlot DEF Answer, Is, AfterCreate
<1>2. billing' \in [StripeIds -> Objects]
  BY <1>1 DEF Answer, CheckoutTypeOK, Objects
<1>3. QED
  BY <1>2, LeaveTyped DEF Answer, CheckoutTypeOK

LEMMA CountFaultTyped ==
    ASSUME AccountsTypeOK, CheckoutTypeOK, NEW c \in Slots, CountFault(c), UNCHANGED load
    PROVE  AccountsTypeOK' /\ early' \in 0 .. faults' /\ collided' \subseteq Emails
BY DEF CountFault, AccountsTypeOK, CheckoutTypeOK, accounts

LEMMA BreakTyped ==
    ASSUME AccountsTypeOK, CheckoutTypeOK, NEW c \in Slots, Break(c), UNCHANGED load
    PROVE  AccountsTypeOK' /\ CheckoutTypeOK'
<1>1. CASE Fail(c)
  BY <1>1, LeaveTyped, CountFaultTyped DEF Fail, CheckoutTypeOK, atStripe
<1>2. CASE FailLogged(c)
  BY <1>2, NextAttemptTyped, CountFaultTyped DEF FailLogged, CheckoutTypeOK, atStripe, AfterCreate
<1>3. CASE LoseCustomer(c)
  BY <1>3, LeaveTyped, CountFaultTyped, NewCustomerTyped
     DEF LoseCustomer, NewCustomer, CheckoutTypeOK
<1>4. CASE LoseSubscription(c)
  <2>1. AccountsTypeOK'
    BY <1>4 DEF LoseSubscription, AccountsTypeOK, accounts
  <2>2. early' \in 0 .. faults'
    BY <1>4 DEF LoseSubscription, AccountsTypeOK, CheckoutTypeOK
  <2>3. QED
    BY <1>4, <2>1, <2>2, LeaveTyped, NewSubscriptionTyped
       DEF LoseSubscription, NewSubscription, CheckoutTypeOK
<1>5. QED
  BY <1>1, <1>2, <1>3, <1>4 DEF Break

LEMMA StripeTyped ==
    ASSUME CheckoutTypeOK, NEW i \in StripeIds,
           StripePrepares(i) \/ CustomerPays(i) \/ Expire(i)
    PROVE  CheckoutTypeOK'
<1>1. billing[i] \in Objects
  BY DEF CheckoutTypeOK
<1>2. \/ billing' = [billing EXCEPT ![i].invoice = "open"]
      \/ billing' = [billing EXCEPT ![i].secret = TRUE]
      \/ billing' = [billing EXCEPT ![i].status = "active"]
      \/ billing' = [billing EXCEPT ![i].status = "incomplete_expired"]
  BY DEF StripePrepares, CustomerPays, Expire
<1>3. billing' \in [StripeIds -> Objects]
  <2>1. /\ [billing[i] EXCEPT !.invoice = "open"] \in Objects
        /\ [billing[i] EXCEPT !.secret = TRUE] \in Objects
        /\ [billing[i] EXCEPT !.status = "active"] \in Objects
        /\ [billing[i] EXCEPT !.status = "incomplete_expired"] \in Objects
    BY <1>1 DEF Objects
  <2>2. billing \in [StripeIds -> Objects]
    BY DEF CheckoutTypeOK
  <2>3. CASE billing' = [billing EXCEPT ![i].invoice = "open"]
    BY <2>1, <2>2, <2>3
  <2>4. CASE billing' = [billing EXCEPT ![i].secret = TRUE]
    BY <2>1, <2>2, <2>4
  <2>5. CASE billing' = [billing EXCEPT ![i].status = "active"]
    BY <2>1, <2>2, <2>5
  <2>6. CASE billing' = [billing EXCEPT ![i].status = "incomplete_expired"]
    BY <2>1, <2>2, <2>6
  <2>7. QED
    BY <1>2, <2>3, <2>4, <2>5, <2>6
<1>4. QED
  BY <1>3 DEF StripePrepares, CustomerPays, Expire, CheckoutTypeOK

LEMMA InitTyped == Init => TypeOK
BY IdleSlotTyped, AccountsInitTyped DEF Init, TypeOK, CheckoutTypeOK, AccountsInit, CustomerIds,
   StripeIds

\* One step of the checkout leaves the accounts alone but for the faults.
LEMMA SlotStep ==
    ASSUME AccountsTypeOK, CheckoutTypeOK, NEW c \in Slots, UNCHANGED load,
           \/ \E u \in Users, e \in Emails, p \in Plans : CheckoutCheck(c, u, e, p)
           \/ Continue(c)
    PROVE  UNCHANGED <<accounts, faults>>
BY DEF CheckoutCheck, Continue, ListCustomers, CreateCustomer, CreateSubscription,
   RetrieveSubscription, RetrieveInvoice, FinalizeInvoice, Wait, Answer

LEMMA AccountsKept ==
    ASSUME AccountsTypeOK, UNCHANGED <<accounts, faults, load>>
    PROVE  AccountsTypeOK'
BY DEF AccountsTypeOK, accounts

LEMMA AccountsFaults == AccountsNext => faults' = faults \/ faults' = faults + 1
<1>1. ASSUME NEW r \in Handlers, AccountsArrive(r) PROVE faults' = faults
  BY <1>1 DEF AccountsArrive, Register, CreateUser, EditRead, RemoveRead, SeedByName
<1>2. ASSUME NEW r \in Handlers, AccountsContinue(r) PROVE faults' = faults
  BY <1>2 DEF AccountsContinue, RegisterByEmail, Insert, EditUnique, Save, Delete, SeedByEmail
<1>3. QED
  BY <1>1, <1>2 DEF AccountsNext, Fault, Login, AdminLogin

LEMMA StepTyped == TypeOK /\ [Next]_vars => TypeOK'
<1> SUFFICES ASSUME AccountsTypeOK, CheckoutTypeOK, [Next]_vars
             PROVE  AccountsTypeOK' /\ CheckoutTypeOK'
  BY DEF TypeOK
<1>1. ASSUME NEW c \in Slots, UNCHANGED load,
             \/ \E u \in Users, e \in Emails, p \in Plans : CheckoutCheck(c, u, e, p)
             \/ Continue(c)
      PROVE  AccountsTypeOK' /\ CheckoutTypeOK'
  <2>1. AccountsTypeOK'
    BY <1>1, SlotStep, AccountsKept
  <2>2. CheckoutTypeOK'
    BY <1>1, CheckTyped, ListTyped, CreateCustomerTyped, CreateSubscriptionTyped, RetrieveTyped,
       FinalizeTyped, WaitTyped, AnswerTyped DEF Continue
  <2>3. QED
    BY <2>1, <2>2
<1>2. ASSUME NEW c \in Slots, UNCHANGED load, Break(c)
      PROVE  AccountsTypeOK' /\ CheckoutTypeOK'
  BY <1>2, BreakTyped
<1>3. ASSUME NEW i \in StripeIds, UNCHANGED load,
             StripePrepares(i) \/ CustomerPays(i) \/ Expire(i)
      PROVE  AccountsTypeOK' /\ CheckoutTypeOK'
  BY <1>3, StripeTyped, AccountsKept DEF StripePrepares, CustomerPays, Expire
<1>4. CASE AccountsNext /\ UNCHANGED checkout
  <2>1. faults \in Nat /\ (faults' = faults \/ faults' = faults + 1)
    BY <1>4, AccountsFaults DEF AccountsTypeOK
  <2>2. QED
    BY <1>4, <2>1, AccountsStepTyped DEF CheckoutTypeOK, checkout
<1>5. CASE UNCHANGED vars
  BY <1>5, AccountsKept DEF vars, CheckoutTypeOK, checkout
<1>6. QED
  BY <1>1, <1>2, <1>3, <1>4, <1>5 DEF Next, CheckoutNext

\* Users, tokens, handlers and Stripe's tables keep their types, and a handler or a
\* checkout has the locals its next step needs.
THEOREM TypeCorrect == Spec => []TypeOK
<1>1. QED
  BY InitTyped, StepTyped, PTL DEF Spec

-----------------------------------------------------------------------------
(* An e-mail has one customer: between its look at Stripe's list and its    *)
(* createCustomer a checkout finds the e-mail still without one, or two of  *)
(* them looked at once.                                                     *)

Creating(c, e) == Is(c, "newCustomer") /\ slot[c].email = e

CustomerInv ==
    /\ OneCustomerPerEmail
    /\ \A k \in CustomerIds : k >= nextCustomer => customers[k] = None
    /\ \A c \in Slots, e \in Emails : Creating(c, e) => e \in collided \/ Of(e) = {}
    /\ \A c, d \in Slots, e \in Emails :
          c # d /\ Creating(c, e) /\ Creating(d, e) => e \in collided

LEMMA CustomerInit == Init => CustomerInv
BY DEF Init, CustomerInv, OneCustomerPerEmail, Creating, Is, IdleSlot

\* No customer is created and no slot begins to create one.
LEMMA CustomerKept ==
    ASSUME CustomerInv, UNCHANGED <<customers, nextCustomer, collided>>,
           \A c \in Slots : slot'[c].pc = "newCustomer" => slot'[c] = slot[c]
    PROVE  CustomerInv'
<1>1. \A c \in Slots, e \in Emails : Creating(c, e)' => Creating(c, e)
  BY DEF Creating, Is
<1>2. \A e : Of(e)' = Of(e)
  BY DEF Of
<1>3. QED
  BY <1>1, <1>2 DEF CustomerInv, OneCustomerPerEmail

LEMMA ListCustomer ==
    ASSUME CheckoutTypeOK, CustomerInv, NEW c \in Slots, ListCustomers(c)
    PROVE  CustomerInv'
<1> DEFINE e == slot[c].email
<1>1. slot[c].pc = "list" /\ UNCHANGED <<customers, nextCustomer>>
  BY DEF ListCustomers, Is, atStripe
<1>2. \A d \in Slots : d # c => slot'[d] = slot[d]
  BY DEF ListCustomers, Go, CheckoutTypeOK
<1>3. CASE Of(e) = {} /\ Go(c, "newCustomer")
  <2>1. slot'[c].pc = "newCustomer" /\ slot'[c].email = e
    BY <1>3 DEF Go, CheckoutTypeOK, CheckoutLocals
  <2>2. \A d \in Slots : Creating(d, e) => e \in collided'
    BY <1>3 DEF ListCustomers, Creating
  <2>3. collided \subseteq collided'
    BY DEF ListCustomers
  <2>4. \A d \in Slots, x \in Emails : Creating(d, x)' => (d = c /\ x = e) \/ Creating(d, x)
    BY <1>2, <2>1 DEF Creating, Is
  <2>5. \A x : Of(x)' = Of(x)
    BY <1>1 DEF Of
  <2>6. ~Creating(c, e)
    BY <1>1 DEF Creating, Is
  <2>7. OneCustomerPerEmail'
    BY <1>1, <2>3 DEF CustomerInv, OneCustomerPerEmail
  <2>8. \A d \in Slots, x \in Emails : Creating(d, x)' => x \in collided' \/ Of(x)' = {}
    BY <1>3, <2>3, <2>4, <2>5 DEF CustomerInv
  <2>9. \A d, f \in Slots, x \in Emails :
            d # f /\ Creating(d, x)' /\ Creating(f, x)' => x \in collided'
    BY <2>2, <2>3, <2>4 DEF CustomerInv
  <2>10. QED
    BY <1>1, <2>7, <2>8, <2>9 DEF CustomerInv
<1>4. CASE UNCHANGED collided /\ slot'[c].pc = "create"
  BY <1>1, <1>2, <1>4, CustomerKept
<1>5. QED
  BY <1>3, <1>4 DEF ListCustomers, CheckoutTypeOK, CheckoutLocals

LEMMA NewCustomerKept ==
    ASSUME CheckoutTypeOK, CustomerInv, NEW c \in Slots, NewCustomer(c), UNCHANGED collided,
           slot'[c].pc # "newCustomer", \A d \in Slots : d # c => slot'[d] = slot[d]
    PROVE  CustomerInv'
<1> DEFINE e == slot[c].email
<1>1. /\ nextCustomer \in CustomerIds /\ e \in Emails /\ Creating(c, e)
      /\ customers' = [customers EXCEPT ![nextCustomer] = e]
      /\ nextCustomer' = nextCustomer + 1
  BY NewCustomerTyped DEF NewCustomer, Creating
<1>2. e \in collided \/ Of(e) = {}
  BY <1>1 DEF CustomerInv
<1>3. \A k \in CustomerIds : customers'[k] = IF k = nextCustomer THEN e ELSE customers[k]
  BY <1>1 DEF CheckoutTypeOK
<1>4. OneCustomerPerEmail'
  BY <1>1, <1>2, <1>3 DEF CustomerInv, OneCustomerPerEmail, Of
<1>5. \A k \in CustomerIds : k >= nextCustomer' => customers'[k] = None
  BY <1>1, <1>3 DEF CustomerInv, CustomerIds
<1>6. \A d \in Slots, x \in Emails : Creating(d, x)' => d # c /\ Creating(d, x)
  BY DEF Creating, Is
<1>7. \A x \in Emails : x # e => Of(x)' = Of(x)
  BY <1>1, <1>3 DEF Of, CustomerInv, CustomerIds
<1>8. \A d \in Slots, x \in Emails : Creating(d, x)' => x \in collided' \/ Of(x)' = {}
  BY <1>1, <1>6, <1>7 DEF CustomerInv
<1>9. \A d, f \in Slots, x \in Emails :
          d # f /\ Creating(d, x)' /\ Creating(f, x)' => x \in collided'
  BY <1>6 DEF CustomerInv
<1>10. QED
  BY <1>4, <1>5, <1>8, <1>9 DEF CustomerInv

-----------------------------------------------------------------------------
(* What the steps of a checkout change.                                     *)

\* Every step of slot c leaves the others, and leads to newCustomer only from list.
LEMMA OneSlot ==
    ASSUME CheckoutTypeOK, NEW c \in Slots,
           \/ \E u \in Users, e \in Emails, p \in Plans : CheckoutCheck(c, u, e, p)
           \/ Continue(c) \/ Break(c)
    PROVE  /\ \A d \in Slots : d # c => slot'[d] = slot[d]
           /\ slot'[c].pc = "newCustomer" => ListCustomers(c)
<1> USE DEF CheckoutTypeOK, CheckoutLocals, Go, Leave, NextAttempt, HaveSecret, IdleSlot
<1>1. ASSUME NEW u \in Users, NEW e \in Emails, NEW p \in Plans, CheckoutCheck(c, u, e, p)
      PROVE  slot'[c].pc # "newCustomer" /\ \A d \in Slots : d # c => slot'[d] = slot[d]
  BY <1>1 DEF CheckoutCheck
<1>2. CASE ListCustomers(c)
  BY <1>2 DEF ListCustomers
<1>3. CASE CreateCustomer(c)
  BY <1>3 DEF CreateCustomer
<1>4. ASSUME NEW invoice, NEW secret, CreateSubscription(c, invoice, secret)
      PROVE  slot'[c].pc # "newCustomer" /\ \A d \in Slots : d # c => slot'[d] = slot[d]
  BY <1>4 DEF CreateSubscription
<1>5. CASE RetrieveSubscription(c) \/ RetrieveInvoice(c) \/ Wait(c) \/ Answer(c)
  BY <1>5 DEF RetrieveSubscription, RetrieveInvoice, Wait, Answer
<1>6. ASSUME NEW secret, FinalizeInvoice(c, secret)
      PROVE  slot'[c].pc # "newCustomer" /\ \A d \in Slots : d # c => slot'[d] = slot[d]
  BY <1>6 DEF FinalizeInvoice
<1>7. CASE Break(c)
  <2>1. CASE Leave(c)
    BY <2>1
  <2>2. CASE FailLogged(c)
    BY <2>2 DEF FailLogged
  <2>3. QED
    BY <1>7, <2>1, <2>2 DEF Break, Fail, LoseCustomer, LoseSubscription
<1>8. CASE \E u \in Users, e \in Emails, p \in Plans : CheckoutCheck(c, u, e, p)
  BY <1>1, <1>8
<1>9. CASE Continue(c)
  <2>1. CASE \E invoice \in {"draft", "open"}, secret \in BOOLEAN :
                CreateSubscription(c, invoice, secret)
    BY <1>4, <2>1
  <2>2. CASE \E secret \in BOOLEAN : FinalizeInvoice(c, secret)
    BY <1>6, <2>2
  <2>3. QED
    BY <1>2, <1>3, <1>5, <1>9, <2>1, <2>2 DEF Continue
<1>10. QED
  BY <1>7, <1>8, <1>9

LEMMA CustomerStep == TypeOK /\ CustomerInv /\ [Next]_vars => CustomerInv'
<1> SUFFICES ASSUME CheckoutTypeOK, CustomerInv, [Next]_vars PROVE CustomerInv'
  BY DEF TypeOK
<1>1. ASSUME NEW c \in Slots,
             \/ \E u \in Users, e \in Emails, p \in Plans : CheckoutCheck(c, u, e, p)
             \/ Continue(c) \/ Break(c)
      PROVE  CustomerInv'
  <2>1. CASE ListCustomers(c)
    BY <2>1, ListCustomer
  <2>2. CASE CreateCustomer(c) \/ LoseCustomer(c)
    <3>1. NewCustomer(c) /\ UNCHANGED collided /\ slot'[c].pc # "newCustomer"
      BY <2>2 DEF CreateCustomer, LoseCustomer, CountFault, Leave, IdleSlot, CheckoutTypeOK,
         CheckoutLocals
    <3>2. QED
      BY <1>1, <3>1, OneSlot, NewCustomerKept
  <2>3. CASE ~ListCustomers(c) /\ ~CreateCustomer(c) /\ ~LoseCustomer(c)
    <3>1. UNCHANGED <<customers, nextCustomer, collided>>
      BY <1>1, <2>3 DEF CheckoutCheck, Continue, Break, CreateSubscription, NewSubscription,
         RetrieveSubscription, RetrieveInvoice, FinalizeInvoice, Wait, Answer, Fail, FailLogged,
         LoseSubscription, CountFault, atStripe
    <3>2. QED
      BY <1>1, <2>3, <3>1, OneSlot, CustomerKept
  <2>4. QED
    BY <2>1, <2>2, <2>3
<1>2. ASSUME NEW i \in StripeIds, StripePrepares(i) \/ CustomerPays(i) \/ Expire(i)
      PROVE  CustomerInv'
  BY <1>2, CustomerKept DEF StripePrepares, CustomerPays, Expire
<1>3. CASE UNCHANGED checkout
  BY <1>3, CustomerKept DEF checkout
<1>4. QED
  BY <1>1, <1>2, <1>3 DEF Next, CheckoutNext, vars

\* findOrCreateCustomer gives an e-mail one customer at Stripe, for any number of
\* checkouts, failures and lost answers, unless two of them looked for it at once.
THEOREM OneCustomer == Spec => []OneCustomerPerEmail
<1>1. CustomerInv => OneCustomerPerEmail
  BY DEF CustomerInv
<1>2. QED
  BY <1>1, CustomerInit, CustomerStep, TypeCorrect, PTL DEF Spec

-----------------------------------------------------------------------------
(* Phone numbers and e-mails, beside checkouts.                             *)

LEMMA PeopleInit == Init => PhoneInv /\ MailInv
BY PhoneInit, MailInit DEF Init

LEMMA CheckoutSparesPeople ==
    CheckoutNext => UNCHANGED <<users, handler, tokens, raced, freed>>
<1> SUFFICES ASSUME CheckoutNext PROVE UNCHANGED accounts
  BY DEF accounts
<1>1. ASSUME NEW c \in Slots,
             \/ \E u \in Users, e \in Emails, p \in Plans : CheckoutCheck(c, u, e, p)
             \/ Continue(c) \/ Break(c)
      PROVE  UNCHANGED accounts
  BY <1>1 DEF CheckoutCheck, Continue, ListCustomers, CreateCustomer, CreateSubscription,
     RetrieveSubscription, RetrieveInvoice, FinalizeInvoice, Wait, Answer, Break, Fail,
     FailLogged, LoseCustomer, LoseSubscription, CountFault
<1>2. QED
  BY <1>1 DEF CheckoutNext, StripePrepares, CustomerPays, Expire

LEMMA PeopleKept ==
    ASSUME PhoneInv, MailInv, UNCHANGED <<users, handler, tokens, raced, freed>>
    PROVE  PhoneInv' /\ MailInv'
<1>1. \A p : Holders(p)' = Holders(p)
  BY SameHolders
<1>2. PhoneInv'
  BY <1>1 DEF PhoneInv, PhoneOfOneSubscriber, Wanted, IsUser
<1>3. QED
  BY <1>2 DEF MailInv, Owns, IsUser

LEMMA PeopleStep == TypeOK /\ PhoneInv /\ MailInv /\ [Next]_vars => PhoneInv' /\ MailInv'
BY PhoneStep, MailStep, CheckoutSparesPeople, PeopleKept DEF TypeOK, Next, vars, accounts

\* register's look at the table keeps a phone number to one subscriber, for any
\* number of users and requests and whatever admins do beside it, unless two
\* registrations of it were under way at once.
THEOREM OnePhone == Spec => []PhoneOfOneSubscriber
<1>1. PhoneInv => PhoneOfOneSubscriber
  BY DEF PhoneInv
<1>2. QED
  BY <1>1, PeopleInit, PeopleStep, TypeCorrect, PTL DEF Spec

-----------------------------------------------------------------------------
(* Whom a customer at Stripe belongs to: a checkout acts for a token, its   *)
(* customer has the token's e-mail, and so has the customer it bills.       *)

Ordered == {"create"} \union AfterCreate

OwnerInv ==
    /\ \A c \in Slots : slot[c].pc # "idle" => <<slot[c].user, slot[c].email>> \in tokens
    /\ \A c \in Slots : slot[c].pc \in Ordered => customers[slot[c].customer] = slot[c].email
    /\ \A i \in StripeIds :
          LET k == billing[i].customer
          IN  k # Nobody => customers[k] \in Emails /\ <<billing[i].user, customers[k]>> \in tokens

LEMMA OwnerInit == Init => OwnerInv
BY DEF Init, OwnerInv, IdleSlot, NoObject, Ordered, AfterCreate

\* Tokens and customers only become more; slots and subscriptions keep whom they
\* are for or take it from a token, a customer or a slot that has it right.
LEMMA OwnerKept ==
    ASSUME CheckoutTypeOK, OwnerInv, tokens \subseteq tokens',
           \A k \in CustomerIds : customers[k] \in Emails => customers'[k] = customers[k],
           \A d \in Slots : slot'[d].pc # "idle" =>
               \/ slot[d].pc # "idle" /\ slot'[d].user = slot[d].user
                                      /\ slot'[d].email = slot[d].email
               \/ <<slot'[d].user, slot'[d].email>> \in tokens',
           \A d \in Slots : slot'[d].pc \in Ordered =>
               \/ slot[d].pc \in Ordered /\ slot'[d].customer = slot[d].customer
                                         /\ slot'[d].email = slot[d].email
               \/ customers'[slot'[d].customer] = slot'[d].email,
           \A i \in StripeIds :
               \/ billing'[i].customer = Nobody
               \/ billing'[i].customer = billing[i].customer /\ billing'[i].user = billing[i].user
               \/ \E d \in Slots : /\ slot[d].pc = "create"
                                   /\ billing'[i].customer = slot[d].customer
                                   /\ billing'[i].user = slot[d].user
    PROVE  OwnerInv'
<1>1. \A d \in Slots : slot[d].pc \in Ordered =>
          /\ slot[d].customer \in CustomerIds /\ slot[d].email \in Emails
          /\ customers[slot[d].customer] = slot[d].email
          /\ customers'[slot[d].customer] = slot[d].email
  BY DEF CheckoutTypeOK, Filled, Ordered, OwnerInv, AfterCreate
<1>2. \A c \in Slots : slot'[c].pc # "idle" => <<slot'[c].user, slot'[c].email>> \in tokens'
  BY DEF OwnerInv
<1>3. \A c \in Slots : slot'[c].pc \in Ordered => customers'[slot'[c].customer] = slot'[c].email
  BY <1>1
<1>4. ASSUME NEW i \in StripeIds, billing'[i].customer # Nobody
      PROVE  /\ customers'[billing'[i].customer] \in Emails
             /\ <<billing'[i].user, customers'[billing'[i].customer]>> \in tokens'
  <2>1. CASE billing'[i].customer = billing[i].customer /\ billing'[i].user = billing[i].user
    <3>1. billing[i].customer \in CustomerIds
      BY <1>4, <2>1 DEF CheckoutTypeOK, Objects
    <3>2. QED
      BY <1>4, <2>1, <3>1 DEF OwnerInv
  <2>2. ASSUME NEW d \in Slots, slot[d].pc = "create", billing'[i].customer = slot[d].customer,
               billing'[i].user = slot[d].user
        PROVE  /\ customers'[billing'[i].customer] \in Emails
               /\ <<billing'[i].user, customers'[billing'[i].customer]>> \in tokens'
    BY <1>1, <2>2 DEF OwnerInv, Ordered
  <2>3. QED
    BY <1>4, <2>1, <2>2
<1>5. QED
  BY <1>2, <1>3, <1>4 DEF OwnerInv

\* What a step of a request does to its own slot.
LEMMA OwnSlot ==
    ASSUME CheckoutTypeOK, NEW c \in Slots, Continue(c) \/ Break(c)
    PROVE  \/ slot'[c] = IdleSlot
           \/ /\ slot[c].pc # "idle" /\ slot'[c].user = slot[c].user
              /\ slot'[c].email = slot[c].email
              /\ \/ slot'[c].pc = "newCustomer"
                 \/ slot[c].pc \in Ordered /\ slot'[c].customer = slot[c].customer
                 \/ customers'[slot'[c].customer] = slot'[c].email
<1> DEFINE Goal == \/ slot'[c] = IdleSlot
                   \/ /\ slot[c].pc # "idle" /\ slot'[c].user = slot[c].user
                      /\ slot'[c].email = slot[c].email
                      /\ \/ slot'[c].pc = "newCustomer"
                         \/ slot[c].pc \in Ordered /\ slot'[c].customer = slot[c].customer
                         \/ customers'[slot'[c].customer] = slot'[c].email
<1>1. CASE Leave(c)
  BY <1>1 DEF Leave, CheckoutTypeOK
<1>2. CASE ListCustomers(c)
  BY <1>2 DEF ListCustomers, Go, Of, Is, atStripe, CheckoutTypeOK, CheckoutLocals
<1>3. CASE CreateCustomer(c)
  <2>1. nextCustomer \in CustomerIds
    BY <1>3, NewCustomerTyped DEF CreateCustomer
  <2>2. QED
    BY <1>3, <2>1 DEF CreateCustomer, NewCustomer, Is, CheckoutTypeOK, CheckoutLocals
<1>4. ASSUME NEW pc, slot[c].pc \in Ordered, Go(c, pc) PROVE Goal
  BY <1>4 DEF Go, CheckoutTypeOK, CheckoutLocals, Ordered, AfterCreate
<1>5. ASSUME slot[c].pc \in Ordered, HaveSecret(c) PROVE Goal
  BY <1>5 DEF HaveSecret, CheckoutTypeOK, CheckoutLocals, Ordered, AfterCreate
<1>6. CASE RetrieveSubscription(c) \/ RetrieveInvoice(c)
  BY <1>4, <1>5, <1>6
     DEF RetrieveSubscription, RetrieveInvoice, NextAttempt, Is, Ordered, AfterCreate
<1>7. ASSUME NEW secret, FinalizeInvoice(c, secret) PROVE Goal
  BY <1>4, <1>5, <1>7 DEF FinalizeInvoice, NextAttempt, Is, Ordered, AfterCreate
<1>8. CASE Wait(c)
  BY <1>8 DEF Wait, Is, Ordered, AfterCreate, CheckoutTypeOK, CheckoutLocals
<1>9. ASSUME NEW invoice, NEW secret, CreateSubscription(c, invoice, secret) PROVE Goal
  BY <1>9 DEF CreateSubscription, NewSubscription, Is, Ordered, CheckoutTypeOK, CheckoutLocals
<1>10. CASE FailLogged(c)
  BY <1>4, <1>10 DEF FailLogged, NextAttempt, Ordered, AfterCreate
<1>11. CASE Break(c)
  BY <1>1, <1>10, <1>11 DEF Break, Fail, LoseCustomer, LoseSubscription
<1>12. CASE Continue(c)
  <2>1. CASE \E invoice \in {"draft", "open"}, secret \in BOOLEAN :
                CreateSubscription(c, invoice, secret)
    BY <1>9, <2>1
  <2>2. CASE \E secret \in BOOLEAN : FinalizeInvoice(c, secret)
    BY <1>7, <2>2
  <2>3. QED
    BY <1>1, <1>2, <1>3, <1>6, <1>8, <1>12, <2>1, <2>2 DEF Continue, Answer
<1>13. QED
  BY <1>11, <1>12

\* What it does at Stripe.
LEMMA OwnObjects ==
    ASSUME CheckoutTypeOK, CustomerInv, NEW c \in Slots, Continue(c) \/ Break(c)
    PROVE  /\ \A k \in CustomerIds : customers[k] \in Emails => customers'[k] = customers[k]
           /\ \A i \in StripeIds :
                 \/ billing'[i].customer = billing[i].customer /\ billing'[i].user = billing[i].user
                 \/ /\ slot[c].pc = "create"
                    /\ billing'[i].customer = slot[c].customer
                    /\ billing'[i].user = slot[c].user
<1> DEFINE Same == \A i \in StripeIds : /\ billing'[i].customer = billing[i].customer
                                        /\ billing'[i].user = billing[i].user
           Added == \A i \in StripeIds :
                       \/ billing'[i] = billing[i]
                       \/ /\ slot[c].pc = "create"
                          /\ billing'[i].customer = slot[c].customer
                          /\ billing'[i].user = slot[c].user
<1>1. CASE NewCustomer(c)
  <2>1. customers[nextCustomer] = None /\ None \notin Emails
    BY <1>1, NewCustomerTyped DEF CustomerInv, CheckoutTypeOK
  <2>2. QED
    BY <1>1, <2>1 DEF NewCustomer, CheckoutTypeOK
<1>2. ASSUME NEW invoice, NEW secret, NewSubscription(c, invoice, secret)
      PROVE  Added /\ UNCHANGED customers
  BY <1>2 DEF NewSubscription, Is, CheckoutTypeOK
<1>3. ASSUME NEW secret, FinalizeInvoice(c, secret) PROVE Same /\ UNCHANGED customers
  BY <1>3 DEF FinalizeInvoice, CheckoutTypeOK, Objects
<1>4. CASE Answer(c)
  BY <1>4 DEF Answer, CheckoutTypeOK, Objects
<1>5. CASE UNCHANGED atStripe
  BY <1>5 DEF atStripe
<1>6. CASE Break(c)
  BY <1>1, <1>2, <1>5, <1>6 DEF Break, Fail, FailLogged, LoseCustomer, LoseSubscription
<1>7. CASE Continue(c)
  <2>1. CASE \E invoice \in {"draft", "open"}, secret \in BOOLEAN :
                CreateSubscription(c, invoice, secret)
    BY <1>2, <2>1 DEF CreateSubscription
  <2>2. CASE \E secret \in BOOLEAN : FinalizeInvoice(c, secret)
    BY <1>3, <2>2
  <2>3. CASE ListCustomers(c) \/ RetrieveSubscription(c) \/ RetrieveInvoice(c) \/ Wait(c)
    BY <1>5, <2>3 DEF ListCustomers, RetrieveSubscription, RetrieveInvoice, Wait
  <2>4. QED
    BY <1>1, <1>4, <1>7, <2>1, <2>2, <2>3 DEF Continue, CreateCustomer
<1>8. QED
  BY <1>6, <1>7

LEMMA OwnerStep ==
    ASSUME AccountsTypeOK, CheckoutTypeOK, CustomerInv, MailInv, OwnerInv, [Next]_vars
    PROVE  OwnerInv'
<1>1. ASSUME NEW c \in Slots, Continue(c) \/ Break(c), UNCHANGED tokens
      PROVE  OwnerInv'
  <2>1. \A d \in Slots : d # c => slot'[d] = slot[d]
    BY <1>1, OneSlot
  <2>2. \A d \in Slots : slot'[d].pc # "idle" =>
            /\ slot[d].pc # "idle" /\ slot'[d].user = slot[d].user
            /\ slot'[d].email = slot[d].email
    BY <1>1, <2>1, OwnSlot DEF IdleSlot
  <2>3. \A d \in Slots : slot'[d].pc \in Ordered =>
            \/ slot[d].pc \in Ordered /\ slot'[d].customer = slot[d].customer
                                      /\ slot'[d].email = slot[d].email
            \/ customers'[slot'[d].customer] = slot'[d].email
    BY <1>1, <2>1, OwnSlot DEF IdleSlot, Ordered, AfterCreate
  <2>4. QED
    BY <1>1, <2>2, <2>3, OwnObjects, OwnerKept
<1>2. ASSUME NEW c \in Slots, NEW u \in Users, NEW e \in Emails, NEW p \in Plans,
             CheckoutCheck(c, u, e, p)
      PROVE  OwnerInv'
  <2>1. /\ UNCHANGED <<customers, billing, tokens>> /\ <<u, e>> \in tokens
        /\ \A d \in Slots : d # c => slot'[d] = slot[d]
        /\ slot'[c].pc = "list" /\ slot'[c].user = u /\ slot'[c].email = e
    BY <1>2 DEF CheckoutCheck, atStripe, accounts, CheckoutTypeOK, IdleSlot
  <2>2. QED
    BY <2>1, OwnerKept DEF Ordered, AfterCreate
<1>3. ASSUME NEW i \in StripeIds, StripePrepares(i) \/ CustomerPays(i) \/ Expire(i)
      PROVE  OwnerInv'
  <2>1. \A j \in StripeIds : /\ billing'[j].customer = billing[j].customer
                             /\ billing'[j].user = billing[j].user
    BY <1>3 DEF StripePrepares, CustomerPays, Expire, CheckoutTypeOK, Objects
  <2>2. UNCHANGED <<customers, slot, tokens>>
    BY <1>3 DEF StripePrepares, CustomerPays, Expire, accounts
  <2>3. QED
    BY <2>1, <2>2, OwnerKept
<1>4. CASE AccountsNext /\ UNCHANGED checkout
  BY <1>4, MailStep, OwnerKept DEF checkout
<1>5. CASE UNCHANGED vars
  BY <1>5, OwnerKept DEF vars, checkout, accounts
<1>6. QED
  BY <1>1, <1>2, <1>3, <1>4, <1>5, CheckoutSparesPeople DEF Next, CheckoutNext

\* Two users are billed as one customer of Stripe only when a row has given up the
\* e-mail in between: for any number of users, checkouts and edits of users.
THEOREM CustomerHasOneUser == Spec => []CustomerOfOneUser
<1> DEFINE Inv == TypeOK /\ PhoneInv /\ MailInv /\ CustomerInv /\ OwnerInv
<1>1. Init => Inv
  BY InitTyped, PeopleInit, CustomerInit, OwnerInit
<1>2. Inv /\ [Next]_vars => Inv'
  BY StepTyped, PeopleStep, CustomerStep, OwnerStep DEF TypeOK
<1>3. Inv => CustomerOfOneUser
  <2> SUFFICES ASSUME Inv, NEW i \in StripeIds, NEW j \in StripeIds,
                      billing[i].customer = billing[j].customer, billing[i].customer # Nobody,
                      billing[i].user # billing[j].user
               PROVE  customers[billing[i].customer] \in freed
    BY DEF CustomerOfOneUser
  <2> DEFINE e == customers[billing[i].customer]
  <2>1. e \in Emails /\ <<billing[i].user, e>> \in tokens /\ <<billing[j].user, e>> \in tokens
    BY DEF OwnerInv
  <2>2. billing[i].user \in Users /\ billing[j].user \in Users
    BY <2>1 DEF TypeOK, AccountsTypeOK
  <2>3. QED
    BY <2>1, <2>2 DEF MailInv
<1>4. QED
  BY <1>1, <1>2, <1>3, PTL DEF Spec

-----------------------------------------------------------------------------
(* Subscriptions nobody was told of: each of them is one failure after the  *)
(* subscription was created.                                                *)

LEMMA UntoldFinite ==
    ASSUME CheckoutTypeOK
    PROVE  IsFiniteSet(Untold) /\ Cardinality(Untold) \in Nat
<1>1. IsFiniteSet(StripeIds)
  BY FS_Interval DEF StripeIds
<1>2. Untold \subseteq StripeIds
  BY DEF Untold
<1>3. QED
  BY <1>1, <1>2, FS_Subset, FS_CardinalityType

LEMMA OrphansKept ==
    ASSUME AccountsTypeOK, CheckoutTypeOK, AccountsTypeOK', CheckoutTypeOK', OrphansAreFailures,
           Untold' \subseteq Untold, faults - early <= faults' - early'
    PROVE  OrphansAreFailures'
<1>1. Cardinality(Untold') <= Cardinality(Untold) /\ Cardinality(Untold') \in Nat
  BY UntoldFinite, FS_Subset, FS_CardinalityType
<1>2. faults \in Nat /\ faults' \in Nat /\ early \in Nat /\ early' \in Nat
  BY DEF AccountsTypeOK, CheckoutTypeOK
<1>3. Cardinality(Untold) \in Nat /\ Cardinality(Untold) <= faults - early
  BY UntoldFinite DEF OrphansAreFailures
<1>4. \A m, n, a, b \in Int : m <= n /\ n <= a /\ a <= b => m <= b
  OBVIOUS
<1>5. faults - early \in Int /\ faults' - early' \in Int
  BY <1>2
<1> DEFINE a == faults - early
           b == faults' - early'
<1>6. a \in Int /\ b \in Int /\ a <= b /\ Cardinality(Untold) <= a
  BY <1>3, <1>5
<1> HIDE DEF a, b
<1>7. Cardinality(Untold') <= b
  BY <1>1, <1>3, <1>4, <1>6
<1>8. QED
  BY <1>7 DEF OrphansAreFailures, b

LEMMA OneOrphanMore ==
    ASSUME AccountsTypeOK, CheckoutTypeOK, AccountsTypeOK', CheckoutTypeOK', OrphansAreFailures,
           NEW i, Untold' \subseteq Untold \union {i}, faults' = faults + 1, early' = early
    PROVE  OrphansAreFailures'
<1>1. /\ IsFiniteSet(Untold \union {i})
      /\ \/ Cardinality(Untold \union {i}) = Cardinality(Untold)
         \/ Cardinality(Untold \union {i}) = Cardinality(Untold) + 1
  BY UntoldFinite, FS_AddElement
<1>2. Cardinality(Untold') <= Cardinality(Untold \union {i}) /\ Cardinality(Untold') \in Nat
  BY <1>1, FS_Subset, FS_CardinalityType
<1>3. faults \in Nat /\ early \in Nat /\ Cardinality(Untold) \in Nat
  BY UntoldFinite DEF AccountsTypeOK, CheckoutTypeOK
<1>4. Cardinality(Untold') <= faults' - early'
  BY <1>1, <1>2, <1>3 DEF OrphansAreFailures
<1>5. QED
  BY <1>4 DEF OrphansAreFailures

\* No slot lets go of its subscription, and none comes or is forgotten.
LEMMA NobodyUntold ==
    ASSUME CheckoutTypeOK,
           \A i \in StripeIds : billing'[i].status # "none" /\ billing'[i].told = "nothing" =>
               \/ billing[i].status # "none" /\ billing[i].told = "nothing"
               \/ \E c \in Slots : slot'[c].stripe = i,
           \A c \in Slots, i \in StripeIds : slot[c].stripe = i =>
               slot'[c].stripe = i \/ billing'[i].told # "nothing"
    PROVE  Untold' \subseteq Untold
BY DEF Untold

\* A step of a request that goes on keeps what it works on.
LEMMA KeepsStripe ==
    ASSUME CheckoutTypeOK, NEW c \in Slots,
           \/ \E pc : Go(c, pc)
           \/ HaveSecret(c)
           \/ \E k : slot' = [slot EXCEPT ![c].pc = "create", ![c].customer = k]
           \/ slot' = [slot EXCEPT ![c].pc = "retrieve", ![c].attempt = @ + 1]
    PROVE  \A d \in Slots : slot'[d].stripe = slot[d].stripe
BY DEF Go, HaveSecret, CheckoutTypeOK, CheckoutLocals

LEMMA ContinueUntold ==
    ASSUME CheckoutTypeOK, NEW c \in Slots, Continue(c)
    PROVE  Untold' \subseteq Untold
<1>1. ASSUME UNCHANGED billing, \A d \in Slots : slot'[d].stripe = slot[d].stripe
      PROVE  Untold' \subseteq Untold
  BY <1>1 DEF Untold
<1>2. CASE ListCustomers(c)
  BY <1>1, <1>2, KeepsStripe DEF ListCustomers, atStripe
<1>3. CASE CreateCustomer(c)
  BY <1>1, <1>3, KeepsStripe DEF CreateCustomer, NewCustomer
<1>4. ASSUME NEW invoice \in {"draft", "open"}, NEW secret \in BOOLEAN,
             CreateSubscription(c, invoice, secret)
      PROVE  Untold' \subseteq Untold
  <2>1. slot[c].stripe = Nobody
    BY <1>4 DEF CreateSubscription, NewSubscription, Is, CheckoutTypeOK, Filled, BeforeCreate
  <2>2. slot'[c].stripe = nextStripe /\ \A d \in Slots : d # c => slot'[d] = slot[d]
    BY <1>4 DEF CreateSubscription, CheckoutTypeOK, CheckoutLocals
  <2>3. \A i \in StripeIds : i # nextStripe => billing'[i] = billing[i]
    BY <1>4 DEF CreateSubscription, NewSubscription, CheckoutTypeOK
  <2>4. QED
    BY <2>1, <2>2, <2>3, NobodyUntold DEF StripeIds, Nobody
<1>5. CASE RetrieveSubscription(c) \/ RetrieveInvoice(c)
  BY <1>1, <1>5, KeepsStripe DEF RetrieveSubscription, RetrieveInvoice, NextAttempt, atStripe
<1>6. ASSUME NEW secret \in BOOLEAN, FinalizeInvoice(c, secret) PROVE Untold' \subseteq Untold
  <2>1. \A d \in Slots : slot'[d].stripe = slot[d].stripe
    BY <1>6, KeepsStripe DEF FinalizeInvoice, NextAttempt
  <2>2. \A i \in StripeIds : billing'[i].status = billing[i].status
                             /\ billing'[i].told = billing[i].told
    BY <1>6 DEF FinalizeInvoice, CheckoutTypeOK, Objects
  <2>3. QED
    BY <2>1, <2>2, NobodyUntold
<1>7. CASE Wait(c)
  BY <1>1, <1>7, KeepsStripe DEF Wait, atStripe
<1>8. CASE Answer(c)
  <2>1. \A d \in Slots : d # c => slot'[d] = slot[d]
    BY <1>8 DEF Answer, Leave
  <2>2. \A i \in StripeIds :
            /\ billing'[i].status = billing[i].status
            /\ IF i = slot[c].stripe THEN billing'[i].told # "nothing"
                                     ELSE billing'[i].told = billing[i].told
    BY <1>8 DEF Answer, CheckoutTypeOK, Objects
  <2>3. QED
    BY <2>1, <2>2, NobodyUntold
<1>9. QED
  BY <1>2, <1>3, <1>4, <1>5, <1>6, <1>7, <1>8 DEF Continue

LEMMA BreakOrphans ==
    ASSUME AccountsTypeOK, CheckoutTypeOK, AccountsTypeOK', CheckoutTypeOK', OrphansAreFailures,
           NEW c \in Slots, Break(c)
    PROVE  OrphansAreFailures'
<1>0. faults \in Nat /\ early \in Nat
  BY DEF AccountsTypeOK, CheckoutTypeOK
<1>1. ASSUME Leave(c), UNCHANGED billing, slot[c].pc \in BeforeCreate
      PROVE  Untold' \subseteq Untold
  <2>1. slot[c].stripe = Nobody /\ \A d \in Slots : d # c => slot'[d] = slot[d]
    BY <1>1 DEF Leave, CheckoutTypeOK, Filled
  <2>2. QED
    BY <1>1, <2>1, NobodyUntold DEF StripeIds, Nobody
<1>2. CASE Fail(c) /\ slot[c].pc \in BeforeCreate
  BY <1>0, <1>1, <1>2, OrphansKept DEF Fail, CountFault, atStripe
<1>3. CASE Fail(c) /\ slot[c].pc \notin BeforeCreate
  <2>1. Untold' \subseteq Untold \union {slot[c].stripe}
    BY <1>3 DEF Fail, Leave, Untold, atStripe
  <2>2. QED
    BY <1>3, <2>1, OneOrphanMore DEF Fail, CountFault
<1>4. CASE FailLogged(c)
  <2>1. \A d \in Slots : slot'[d].stripe = slot[d].stripe
    BY <1>4, KeepsStripe DEF FailLogged, NextAttempt
  <2>2. Untold' \subseteq Untold
    BY <1>4, <2>1 DEF Untold, FailLogged, atStripe
  <2>3. QED
    BY <1>0, <1>4, <2>2, OrphansKept DEF FailLogged, CountFault, BeforeCreate
<1>5. CASE LoseCustomer(c)
  BY <1>0, <1>1, <1>5, OrphansKept DEF LoseCustomer, NewCustomer, CountFault, Is, BeforeCreate
<1>6. CASE LoseSubscription(c)
  <2>1. slot[c].stripe = Nobody /\ \A d \in Slots : d # c => slot'[d] = slot[d]
    BY <1>6 DEF LoseSubscription, NewSubscription, Is, Leave, CheckoutTypeOK, Filled, BeforeCreate
  <2>2. \A i \in StripeIds : i # nextStripe => billing'[i] = billing[i]
    BY <1>6 DEF LoseSubscription, NewSubscription, CheckoutTypeOK
  <2>3. Untold' \subseteq Untold \union {nextStripe}
    BY <2>1, <2>2 DEF Untold, StripeIds, Nobody
  <2>4. QED
    BY <1>6, <2>3, OneOrphanMore DEF LoseSubscription
<1>7. QED
  BY <1>2, <1>3, <1>4, <1>5, <1>6 DEF Break

LEMMA OrphanStep ==
    ASSUME AccountsTypeOK, CheckoutTypeOK, AccountsTypeOK', CheckoutTypeOK', OrphansAreFailures,
           [Next]_vars
    PROVE  OrphansAreFailures'
<1>0. faults \in Nat /\ early \in Nat
  BY DEF AccountsTypeOK, CheckoutTypeOK
<1>1. ASSUME NEW c \in Slots, Continue(c) PROVE OrphansAreFailures'
  <2>1. UNCHANGED <<faults, early>>
    BY <1>1 DEF Continue, ListCustomers, CreateCustomer, CreateSubscription, RetrieveSubscription,
       RetrieveInvoice, FinalizeInvoice, Wait, Answer
  <2>2. QED
    BY <1>0, <1>1, <2>1, ContinueUntold, OrphansKept
<1>2. ASSUME NEW c \in Slots, NEW u \in Users, NEW e \in Emails, NEW p \in Plans,
             CheckoutCheck(c, u, e, p)
      PROVE  OrphansAreFailures'
  <2>1. slot[c].stripe = Nobody
    BY <1>2 DEF CheckoutCheck, Is, CheckoutTypeOK, Filled, IdleSlot
  <2>2. UNCHANGED <<billing, faults, early>> /\ \A d \in Slots : d # c => slot'[d] = slot[d]
    BY <1>2 DEF CheckoutCheck, atStripe
  <2>3. Untold' \subseteq Untold
    BY <2>1, <2>2, NobodyUntold DEF StripeIds, Nobody
  <2>4. QED
    BY <1>0, <2>2, <2>3, OrphansKept
<1>3. ASSUME NEW i \in StripeIds, StripePrepares(i) \/ CustomerPays(i) \/ Expire(i)
      PROVE  OrphansAreFailures'
  <2>1. UNCHANGED <<slot, faults, early>>
    BY <1>3 DEF StripePrepares, CustomerPays, Expire
  <2>2. \A j \in StripeIds :
            /\ billing'[j].told = billing[j].told
            /\ billing'[j].status # "none" => billing[j].status # "none"
    BY <1>3 DEF StripePrepares, CustomerPays, Expire, CheckoutTypeOK, Objects
  <2>3. Untold' \subseteq Untold
    BY <2>1, <2>2, NobodyUntold
  <2>4. QED
    BY <1>0, <2>1, <2>3, OrphansKept
<1>4. CASE AccountsNext /\ UNCHANGED checkout
  <2>1. faults - early <= faults' - early'
    BY <1>0, <1>4, AccountsFaults DEF checkout
  <2>2. Untold' \subseteq Untold
    BY <1>4 DEF checkout, Untold
  <2>3. QED
    BY <2>1, <2>2, OrphansKept
<1>5. CASE UNCHANGED vars
  <2>1. Untold' \subseteq Untold /\ UNCHANGED <<faults, early>>
    BY <1>5 DEF vars, checkout, Untold
  <2>2. QED
    BY <1>0, <2>1, OrphansKept
<1>6. QED
  BY <1>1, <1>2, <1>3, <1>4, <1>5, BreakOrphans DEF Next, CheckoutNext

\* A subscription at Stripe that nobody has been told of costs a failure after it
\* was created: a checkout that ends well leaves none, however many run at once.
THEOREM OrphanCosts == Spec => []OrphansAreFailures
<1>1. Init => OrphansAreFailures
  <2> SUFFICES ASSUME Init PROVE OrphansAreFailures
    OBVIOUS
  <2>1. Untold = {}
    BY DEF Init, Untold, NoObject
  <2>2. Cardinality(Untold) = 0 /\ faults = 0 /\ early = 0
    BY <2>1, FS_EmptySet DEF Init, AccountsInit
  <2>3. QED
    BY <2>2 DEF OrphansAreFailures
<1>2. TypeOK /\ TypeOK' /\ OrphansAreFailures /\ [Next]_vars => OrphansAreFailures'
  BY OrphanStep DEF TypeOK
<1>3. QED
  BY <1>1, <1>2, TypeCorrect, PTL DEF Spec

-----------------------------------------------------------------------------
(* What the loop leaves: while no call fails, it ends with a secret or with *)
(* an invoice that has been found open or was opened.                       *)

FinalInv ==
    /\ \A i \in StripeIds : i >= nextStripe => billing[i] = NoObject
    /\ \A i \in StripeIds : i < nextStripe => billing[i].invoice \in {"draft", "open"}
    /\ \A c \in Slots : slot[c].pc \in AfterCreate => slot[c].stripe < nextStripe
    /\ faults = 0 => \A c \in Slots :
          slot[c].pc = "key" /\ ~slot[c].secret => Invoice(c).invoice = "open"
    /\ AnsweredFinal

LEMMA FinalInit == Init => FinalInv
BY DEF Init, FinalInv, AnsweredFinal, IdleSlot, NoObject, AfterCreate, StripeIds

\* Invoices stay open, and an app is answered, and a slot comes to its answer
\* without a secret, only if the invoice is open.
LEMMA FinalKept ==
    ASSUME CheckoutTypeOK, FinalInv, faults' = 0 => faults = 0, nextStripe' \in Nat,
           nextStripe <= nextStripe',
           \A i \in StripeIds : i >= nextStripe' => billing'[i] = NoObject,
           \A i \in StripeIds : i < nextStripe' => billing'[i].invoice \in {"draft", "open"},
           \A i \in StripeIds :
               i < nextStripe /\ billing[i].invoice = "open" => billing'[i].invoice = "open",
           \A i \in StripeIds : billing'[i].told = "noSecret" =>
               \/ billing[i].told = "noSecret"
               \/ faults' = 0 => billing'[i].invoice = "open",
           \A c \in Slots : slot'[c].pc \in AfterCreate =>
               \/ slot[c].pc \in AfterCreate /\ slot'[c].stripe = slot[c].stripe
               \/ slot'[c].stripe < nextStripe',
           \A c \in Slots : slot'[c].pc = "key" /\ ~slot'[c].secret /\ faults' = 0 =>
               \/ slot'[c] = slot[c]
               \/ billing'[slot'[c].stripe].invoice = "open"
    PROVE  FinalInv'
<1>1. \A c \in Slots : slot[c].pc \in AfterCreate =>
          slot[c].stripe \in StripeIds /\ slot[c].stripe < nextStripe
  BY DEF CheckoutTypeOK, Filled, FinalInv
<1>2. \A c \in Slots : slot'[c].pc \in AfterCreate => slot'[c].stripe < nextStripe'
  BY <1>1 DEF CheckoutTypeOK, StripeIds
<1>3. ASSUME faults' = 0, NEW c \in Slots, slot'[c].pc = "key", ~slot'[c].secret
      PROVE  billing'[slot'[c].stripe].invoice = "open"
  <2>1. CASE slot'[c] = slot[c]
    <3>1. billing[slot[c].stripe].invoice = "open" /\ slot[c].pc \in AfterCreate
      BY <1>3, <2>1 DEF FinalInv, Invoice, AfterCreate
    <3>2. QED
      BY <1>1, <2>1, <3>1
  <2>2. QED
    BY <1>3, <2>1
<1>4. AnsweredFinal'
  <2> SUFFICES ASSUME NEW i \in StripeIds, billing'[i].told = "noSecret", faults' = 0
               PROVE  billing'[i].invoice = "open"
    BY DEF AnsweredFinal
  <2>1. CASE billing[i].told = "noSecret"
    <3>1. billing[i].invoice = "open"
      BY <2>1 DEF FinalInv, AnsweredFinal
    <3>2. i < nextStripe
      BY <3>1 DEF FinalInv, NoObject, StripeIds, CheckoutTypeOK
    <3>3. QED
      BY <3>1, <3>2
  <2>2. QED
    BY <2>1
<1>5. QED
  BY <1>2, <1>3, <1>4 DEF FinalInv, Invoice

\* The slot of a step, when nothing changed at Stripe.
LEMMA FinalSlot ==
    ASSUME CheckoutTypeOK, FinalInv, NEW c \in Slots, UNCHANGED <<billing, nextStripe>>,
           faults' = 0 => faults = 0,
           \A d \in Slots : d # c => slot'[d] = slot[d],
           slot'[c].pc \in AfterCreate =>
               slot[c].pc \in AfterCreate /\ slot'[c].stripe = slot[c].stripe,
           slot'[c].pc = "key" /\ ~slot'[c].secret /\ faults' = 0 => Invoice(c).invoice = "open"
    PROVE  FinalInv'
<1>1. slot'[c].pc = "key" /\ ~slot'[c].secret /\ faults' = 0
         => billing'[slot'[c].stripe].invoice = "open"
  BY DEF Invoice, AfterCreate
<1>2. nextStripe \in Nat
  BY DEF CheckoutTypeOK
<1>3. \A i \in StripeIds : i >= nextStripe' => billing'[i] = NoObject
  BY DEF FinalInv
<1>4. \A i \in StripeIds : i < nextStripe' => billing'[i].invoice \in {"draft", "open"}
  BY DEF FinalInv
<1>5. \A d \in Slots : slot'[d].pc = "key" /\ ~slot'[d].secret /\ faults' = 0 =>
          slot'[d] = slot[d] \/ billing'[slot'[d].stripe].invoice = "open"
  BY <1>1
<1>6. \A d \in Slots : slot'[d].pc \in AfterCreate =>
          \/ slot[d].pc \in AfterCreate /\ slot'[d].stripe = slot[d].stripe
          \/ slot'[d].stripe < nextStripe'
  OBVIOUS
<1>7. QED
  BY <1>2, <1>3, <1>4, <1>5, <1>6, FinalKept

\* A new subscription: no slot works on it but the one that created it.
LEMMA FinalCreate ==
    ASSUME CheckoutTypeOK, FinalInv, NEW c \in Slots, NEW invoice \in {"draft", "open"},
           NEW secret \in BOOLEAN, NewSubscription(c, invoice, secret), faults' = 0 => faults = 0,
           \A d \in Slots : d # c => slot'[d] = slot[d],
           slot'[c].pc \in AfterCreate => slot'[c].stripe = nextStripe,
           slot'[c].pc = "key" => slot'[c].secret
    PROVE  FinalInv'
<1>1. nextStripe \in StripeIds /\ nextStripe' = nextStripe + 1
  BY NewSubscriptionTyped DEF NewSubscription
<1>2. \A i \in StripeIds : i # nextStripe => billing'[i] = billing[i]
  BY DEF NewSubscription, CheckoutTypeOK
<1>3. billing'[nextStripe].invoice = invoice /\ billing'[nextStripe].told = "nothing"
  BY <1>1 DEF NewSubscription, CheckoutTypeOK
<1>4. \A i \in StripeIds : i >= nextStripe' => billing'[i] = NoObject
  BY <1>1, <1>2 DEF FinalInv, StripeIds
<1>5. \A i \in StripeIds : i < nextStripe' => billing'[i].invoice \in {"draft", "open"}
  BY <1>1, <1>2, <1>3 DEF FinalInv, StripeIds
<1>6. \A d \in Slots : slot'[d].pc \in AfterCreate =>
          \/ slot[d].pc \in AfterCreate /\ slot'[d].stripe = slot[d].stripe
          \/ slot'[d].stripe < nextStripe'
  BY <1>1 DEF StripeIds
<1>7. \A i \in StripeIds :
          i < nextStripe /\ billing[i].invoice = "open" => billing'[i].invoice = "open"
  BY <1>1, <1>2 DEF StripeIds
<1>8. \A i \in StripeIds : billing'[i].told = "noSecret" => billing[i].told = "noSecret"
  BY <1>2, <1>3
<1>9. nextStripe' \in Nat /\ nextStripe <= nextStripe'
  BY <1>1 DEF StripeIds
<1>10. QED
  BY <1>4, <1>5, <1>6, <1>7, <1>8, <1>9, FinalKept

\* Invoices change, no subscription comes.
LEMMA FinalInvoices ==
    ASSUME CheckoutTypeOK, FinalInv, UNCHANGED nextStripe, faults' = 0 => faults = 0,
           \A i \in StripeIds :
               \/ billing'[i] = billing[i]
               \/ i < nextStripe /\ billing'[i].invoice \in {billing[i].invoice, "open"}
                  /\ (billing'[i].told = "noSecret" =>
                         \/ billing[i].told = "noSecret"
                         \/ faults' = 0 => billing[i].invoice = "open"),
           \A d \in Slots : slot'[d].pc \in AfterCreate =>
               slot[d].pc \in AfterCreate /\ slot'[d].stripe = slot[d].stripe,
           \A d \in Slots : slot'[d].pc = "key" /\ ~slot'[d].secret /\ faults' = 0 =>
               slot'[d] = slot[d] \/ billing'[slot'[d].stripe].invoice = "open"
    PROVE  FinalInv'
<1>1. nextStripe \in Nat
  BY DEF CheckoutTypeOK
<1>2. \A i \in StripeIds : i >= nextStripe' => billing'[i] = NoObject
  BY <1>1 DEF FinalInv, StripeIds
<1>3. \A i \in StripeIds : i < nextStripe' => billing'[i].invoice \in {"draft", "open"}
  BY DEF FinalInv
<1>4. \A i \in StripeIds :
          i < nextStripe /\ billing[i].invoice = "open" => billing'[i].invoice = "open"
  OBVIOUS
<1>5. \A i \in StripeIds : billing'[i].told = "noSecret" =>
          \/ billing[i].told = "noSecret"
          \/ faults' = 0 => billing'[i].invoice = "open"
  OBVIOUS
<1>6. QED
  BY <1>1, <1>2, <1>3, <1>4, <1>5, FinalKept

LEMMA FinalLoop ==
    ASSUME CheckoutTypeOK, FinalInv, NEW c \in Slots, UNCHANGED faults,
           \/ RetrieveSubscription(c) \/ RetrieveInvoice(c) \/ Wait(c)
    PROVE  FinalInv'
<1>1. slot[c].pc \in AfterCreate /\ slot[c] \in CheckoutLocals /\ slot[c].stripe \in StripeIds
      /\ slot[c].stripe < nextStripe
  BY WorkingSlot DEF RetrieveSubscription, RetrieveInvoice, Wait, Is, AfterCreate, FinalInv
<1>2. Invoice(c).invoice \in {"draft", "open"}
  BY <1>1 DEF FinalInv, Invoice
<1>3. UNCHANGED <<billing, nextStripe>> /\ \A d \in Slots : d # c => slot'[d] = slot[d]
  <2>1. Continue(c)
    BY DEF Continue
  <2>2. UNCHANGED <<billing, nextStripe>>
    BY DEF RetrieveSubscription, RetrieveInvoice, Wait, atStripe
  <2>3. QED
    BY <2>1, <2>2, OneSlot
<1>4. slot'[c].stripe = slot[c].stripe
  BY <1>1 DEF RetrieveSubscription, RetrieveInvoice, Wait, HaveSecret, Go, NextAttempt,
     CheckoutTypeOK, CheckoutLocals
<1>5. ASSUME slot'[c].pc = "key", ~slot'[c].secret PROVE Invoice(c).invoice = "open"
  <2>1. ~HaveSecret(c)
    BY <1>5 DEF HaveSecret, CheckoutTypeOK, CheckoutLocals
  <2>2. ~RetrieveSubscription(c)
    BY <1>5, <2>1 DEF RetrieveSubscription, Go, CheckoutTypeOK, CheckoutLocals
  <2>3. ~Wait(c)
    BY <1>5 DEF Wait, CheckoutTypeOK, CheckoutLocals
  <2>4. ~Go(c, "finalize")
    BY <1>5 DEF Go, CheckoutTypeOK, CheckoutLocals
  <2>5. QED
    BY <1>2, <2>1, <2>2, <2>3, <2>4 DEF RetrieveInvoice
<1>6. QED
  BY <1>1, <1>3, <1>4, <1>5, FinalSlot

LEMMA FinalFinalize ==
    ASSUME CheckoutTypeOK, FinalInv, NEW c \in Slots, NEW secret \in BOOLEAN, UNCHANGED faults,
           FinalizeInvoice(c, secret)
    PROVE  FinalInv'
<1>1. slot[c].pc \in AfterCreate /\ slot[c] \in CheckoutLocals /\ slot[c].stripe \in StripeIds
      /\ slot[c].stripe < nextStripe
  BY WorkingSlot DEF FinalizeInvoice, Is, AfterCreate, FinalInv
<1>2. Invoice(c).invoice \in {"draft", "open"}
  BY <1>1 DEF FinalInv, Invoice
<1>3. UNCHANGED nextStripe /\ \A d \in Slots : d # c => slot'[d] = slot[d]
  <2>1. Continue(c)
    BY DEF Continue
  <2>2. UNCHANGED nextStripe
    BY DEF FinalizeInvoice
  <2>3. QED
    BY <2>1, <2>2, OneSlot
<1>4. slot'[c].stripe = slot[c].stripe
  BY <1>1 DEF FinalizeInvoice, HaveSecret, Go, NextAttempt, CheckoutTypeOK, CheckoutLocals
<1>5. \A i \in StripeIds :
          \/ billing'[i] = billing[i]
          \/ i = slot[c].stripe /\ billing'[i].invoice = "open" /\ billing'[i].told = billing[i].told
  BY <1>1 DEF FinalizeInvoice, CheckoutTypeOK, Objects
<1>6. billing'[slot[c].stripe].invoice = "open"
  <2>1. CASE Invoice(c).invoice = "draft"
    BY <1>1, <2>1 DEF FinalizeInvoice, CheckoutTypeOK, Objects
  <2>2. CASE Invoice(c).invoice = "open"
    BY <1>1, <2>2 DEF FinalizeInvoice, Invoice
  <2>3. QED
    BY <1>2, <2>1, <2>2
<1>7. QED
  BY <1>1, <1>3, <1>4, <1>5, <1>6, FinalInvoices

LEMMA FinalAnswer ==
    ASSUME CheckoutTypeOK, FinalInv, NEW c \in Slots, UNCHANGED faults, Answer(c)
    PROVE  FinalInv'
<1>1. slot[c].pc = "key" /\ slot[c].stripe \in StripeIds /\ slot[c].stripe < nextStripe
  BY WorkingSlot DEF Answer, Is, AfterCreate, FinalInv
<1>2. UNCHANGED nextStripe /\ slot'[c].pc = "idle" /\ \A d \in Slots : d # c => slot'[d] = slot[d]
  BY DEF Answer, Leave, CheckoutTypeOK, IdleSlot
<1>3. \A i \in StripeIds :
          \/ billing'[i] = billing[i]
          \/ /\ i = slot[c].stripe /\ billing'[i].invoice = billing[i].invoice
             /\ billing'[i].told = "noSecret" => ~slot[c].secret
  BY <1>1 DEF Answer, CheckoutTypeOK, Objects, CheckoutLocals
<1>4. faults = 0 /\ ~slot[c].secret => billing[slot[c].stripe].invoice = "open"
  BY <1>1 DEF FinalInv, Invoice
<1>5. QED
  BY <1>1, <1>2, <1>3, <1>4, FinalInvoices DEF AfterCreate

LEMMA FinalBreak ==
    ASSUME AccountsTypeOK, CheckoutTypeOK, FinalInv, NEW c \in Slots, Break(c)
    PROVE  FinalInv'
<1>1. faults' # 0
  <2>1. faults' = faults + 1
    BY DEF Break, Fail, FailLogged, LoseCustomer, LoseSubscription, CountFault
  <2>2. QED
    BY <2>1 DEF AccountsTypeOK
<1>2. \A d \in Slots : d # c => slot'[d] = slot[d]
  BY OneSlot
<1>3. CASE Leave(c) /\ UNCHANGED <<billing, nextStripe>>
  <2>1. slot'[c].pc = "idle"
    BY <1>3 DEF Leave, CheckoutTypeOK, IdleSlot
  <2>2. QED
    BY <1>1, <1>2, <1>3, <2>1, FinalSlot DEF AfterCreate
<1>4. CASE FailLogged(c)
  <2>1. slot[c].pc \in AfterCreate /\ slot[c] \in CheckoutLocals
    BY <1>4, WorkingSlot DEF FailLogged, AfterCreate
  <2>2. slot'[c].stripe = slot[c].stripe
    BY <1>4, <2>1 DEF FailLogged, NextAttempt, Go, CheckoutTypeOK, CheckoutLocals
  <2>3. QED
    BY <1>1, <1>2, <1>4, <2>1, <2>2, FinalSlot DEF FailLogged, atStripe
<1>5. CASE LoseSubscription(c)
  <2>1. slot'[c].pc = "idle"
    BY <1>5 DEF LoseSubscription, Leave, CheckoutTypeOK, IdleSlot
  <2>2. NewSubscription(c, "open", TRUE)
    BY <1>5 DEF LoseSubscription
  <2>3. QED
    BY <1>1, <1>2, <2>1, <2>2, FinalCreate DEF AfterCreate
<1>6. QED
  BY <1>3, <1>4, <1>5 DEF Break, Fail, LoseCustomer, NewCustomer, atStripe

LEMMA FinalStep ==
    ASSUME AccountsTypeOK, CheckoutTypeOK, FinalInv, [Next]_vars
    PROVE  FinalInv'
<1>1. ASSUME NEW c \in Slots, Continue(c) PROVE FinalInv'
  <2>0. UNCHANGED faults
    BY <1>1 DEF Continue, ListCustomers, CreateCustomer, CreateSubscription, RetrieveSubscription,
       RetrieveInvoice, FinalizeInvoice, Wait, Answer
  <2>1. \A d \in Slots : d # c => slot'[d] = slot[d]
    BY <1>1, OneSlot
  <2>2. CASE ListCustomers(c)
    <3>1. slot'[c].pc \in {"newCustomer", "create"}
      BY <2>2 DEF ListCustomers, Go, CheckoutTypeOK, CheckoutLocals
    <3>2. QED
      BY <2>0, <2>1, <2>2, <3>1, FinalSlot DEF ListCustomers, atStripe, AfterCreate
  <2>3. CASE CreateCustomer(c)
    <3>1. slot'[c].pc = "create"
      BY <2>3 DEF CreateCustomer, CheckoutTypeOK, CheckoutLocals
    <3>2. QED
      BY <2>0, <2>1, <2>3, <3>1, FinalSlot DEF CreateCustomer, NewCustomer, AfterCreate
  <2>4. ASSUME NEW invoice \in {"draft", "open"}, NEW secret \in BOOLEAN,
               CreateSubscription(c, invoice, secret)
        PROVE  FinalInv'
    <3>1. /\ slot'[c].pc = (IF secret THEN "key" ELSE "retrieve")
          /\ slot'[c].stripe = nextStripe /\ slot'[c].secret = secret
      BY <2>4 DEF CreateSubscription, CheckoutTypeOK, CheckoutLocals
    <3>2. NewSubscription(c, invoice, secret)
      BY <2>4 DEF CreateSubscription
    <3>3. QED
      BY <2>0, <2>1, <3>1, <3>2, FinalCreate
  <2>5. QED
    BY <1>1, <2>0, <2>2, <2>3, <2>4, FinalLoop, FinalFinalize, FinalAnswer DEF Continue
<1>2. ASSUME NEW c \in Slots, NEW u \in Users, NEW e \in Emails, NEW p \in Plans,
             CheckoutCheck(c, u, e, p)
      PROVE  FinalInv'
  <2>1. /\ UNCHANGED <<billing, nextStripe, faults>> /\ slot'[c].pc = "list"
        /\ \A d \in Slots : d # c => slot'[d] = slot[d]
    BY <1>2 DEF CheckoutCheck, atStripe, CheckoutTypeOK, IdleSlot
  <2>2. QED
    BY <2>1, FinalSlot DEF AfterCreate
<1>3. ASSUME NEW i \in StripeIds, StripePrepares(i) \/ CustomerPays(i) \/ Expire(i)
      PROVE  FinalInv'
  <2>1. UNCHANGED <<slot, nextStripe, faults>>
    BY <1>3 DEF StripePrepares, CustomerPays, Expire
  <2>2. i < nextStripe
    BY <1>3 DEF StripePrepares, CustomerPays, Expire, FinalInv, NoObject, StripeIds, CheckoutTypeOK
  <2>3. \A j \in StripeIds :
            \/ billing'[j] = billing[j]
            \/ j = i /\ billing'[j].invoice \in {billing[j].invoice, "open"}
                     /\ billing'[j].told = billing[j].told
    BY <1>3 DEF StripePrepares, CustomerPays, Expire, CheckoutTypeOK, Objects
  <2>4. QED
    BY <2>1, <2>2, <2>3, FinalInvoices
<1>4. CASE UNCHANGED checkout /\ (AccountsNext \/ UNCHANGED faults)
  <2>1. faults' = 0 => faults = 0
    BY <1>4, AccountsFaults DEF AccountsTypeOK
  <2>2. QED
    BY <1>4, <2>1, FinalInvoices DEF checkout
<1>5. QED
  BY <1>1, <1>2, <1>3, <1>4, FinalBreak DEF Next, CheckoutNext, vars

\* When no call has failed, an app that got no secret has an invoice that is final,
\* for any number of attempts and whenever Stripe finalizes invoices by itself.
THEOREM AnswersAreFinal == Spec => []AnsweredFinal
<1>1. FinalInv => AnsweredFinal
  BY DEF FinalInv
<1>2. TypeOK /\ FinalInv /\ [Next]_vars => FinalInv'
  BY FinalStep DEF TypeOK
<1>3. QED
  BY <1>1, <1>2, FinalInit, TypeCorrect, PTL DEF Spec

-----------------------------------------------------------------------------
(* The two steps SubscriptionLifecycle has for the endpoint.                *)

\* Seen from there, a slot or a subscription that shows nothing new has not moved.
LEMMA SeenUnchanged ==
    ASSUME UNCHANGED <<nextStripe, early>>,
           \A i \in StripeIds : SeenObject(billing[i])' = SeenObject(billing[i]),
           \A c \in Slots : SeenSlot(slot[c])' = SeenSlot(slot[c])
    PROVE  UNCHANGED Lifecycle!vars
BY DEF Lifecycle!vars

LEMMA InitMaps == Init => Lifecycle!Init
BY DEF Init, Lifecycle!Init, SeenSlot, SeenObject, IdleSlot, NoObject, BeforeCreate,
   Lifecycle!SubIds, Lifecycle!StripeIds, StripeIds, Lifecycle!NoRow, Lifecycle!NoObject,
   Lifecycle!IdleSlot, Lifecycle!NoSub, Lifecycle!NoStripe, Lifecycle!NoDto

LEMMA CheckMaps ==
    ASSUME CheckoutTypeOK, NEW c \in Slots, NEW u \in Users, NEW e \in Emails, NEW p \in Plans,
           CheckoutCheck(c, u, e, p)
    PROVE  Lifecycle!CheckoutCheck(c, u, p)
<1>1. {q \in Slots : Lifecycle!At(q, "checkoutCreate")} = Ordering
  BY DEF Ordering, Lifecycle!At, SeenSlot
<1>2. Lifecycle!RoomForStripe
  <2>1. nextStripe + Cardinality(Ordering) <= MaxStripe
    BY DEF CheckoutCheck, RoomForCheckout
  <2>2. Lifecycle!RoomForStripe <=> nextStripe + Cardinality({q \in Slots : Lifecycle!At(q, "checkoutCreate")}) <= MaxStripe
    BY DEF Lifecycle!RoomForStripe, Lifecycle!Cardinality, Cardinality
  <2>3. QED
    BY <1>1, <2>1, <2>2
<1>3. Lifecycle!Current(u) = {}
  BY DEF Lifecycle!Current, Lifecycle!SubIds
<1>4. slot[c].pc = "idle" /\ \A d \in Slots : d # c => slot'[d] = slot[d]
  BY DEF CheckoutCheck, Is
<1>5. slot'[c].pc = "list" /\ slot'[c].user = u /\ slot'[c].plan = p
  BY DEF CheckoutCheck, CheckoutTypeOK, IdleSlot
<1> DEFINE new == [pc |-> "checkoutCreate", op |-> "checkout", user |-> u, plan |-> p, sub |-> 0,
                   stripe |-> 0, todo |-> {},
                   dto |-> [status |-> None, user |-> None, plan |-> None]]
           locals == [Lifecycle!IdleSlot EXCEPT !.pc = "checkoutCreate", !.user = u, !.plan = p]
<1>6. SeenSlot(slot'[c]) = new
  BY <1>5 DEF SeenSlot, BeforeCreate
<1>7. [locals EXCEPT !.op = "checkout"] = new
  <2> DEFINE idle == [pc |-> "idle", op |-> None, user |-> None, plan |-> None, sub |-> 0,
                      stripe |-> 0, todo |-> {},
                      dto |-> [status |-> None, user |-> None, plan |-> None]]
  <2>1. Lifecycle!IdleSlot = idle
    BY DEF Lifecycle!IdleSlot, Lifecycle!NoSub, Lifecycle!NoStripe, Lifecycle!NoDto
  <2> DEFINE slots == [pc : {"idle", "checkoutCreate"}, op : {None, "checkout"},
                       user : Users \union {None}, plan : Plans \union {None}, sub : {0},
                       stripe : {0}, todo : {{}},
                       dto : {[status |-> None, user |-> None, plan |-> None]}]
  <2>2. new \in slots /\ new.pc = "checkoutCreate" /\ new.op = "checkout" /\ new.user = u /\ new.plan = p
    OBVIOUS
  <2>3. idle \in slots
    OBVIOUS
  <2> HIDE DEF new, idle
  <2> DEFINE named == [idle EXCEPT !.pc = "checkoutCreate", !.user = u, !.plan = p]
  <2>4. named \in slots /\ named.pc = "checkoutCreate" /\ named.user = u /\ named.plan = p
    BY <2>3
  <2> HIDE DEF named
  <2>5. [named EXCEPT !.op = "checkout"] = new
    BY <2>2, <2>4
  <2>6. QED
    BY <2>1, <2>5 DEF named
<1> HIDE DEF new, locals
<1>8. [d \in Slots |-> SeenSlot(slot'[d])] = [[d \in Slots |-> SeenSlot(slot[d])] EXCEPT ![c] = new]
  BY <1>4, <1>6
<1>9. Lifecycle!Accept(c, "checkout", locals)
  <2>1. Lifecycle!At(c, "idle")
    BY <1>4 DEF Lifecycle!At, SeenSlot, BeforeCreate
  <2>2. QED
    BY <1>7, <1>8, <2>1 DEF Lifecycle!Accept
<1>10. UNCHANGED <<billing, nextStripe, early>>
  BY DEF CheckoutCheck, atStripe
<1>11. QED
  BY <1>2, <1>3, <1>9, <1>10 DEF Lifecycle!CheckoutCheck, Lifecycle!db, Lifecycle!pay, locals

\* A slot that leaves BeforeCreate is free there.
LEMMA SeenIdle ==
    ASSUME NEW l, l.pc \notin BeforeCreate
    PROVE  SeenSlot(l) = Lifecycle!IdleSlot
BY DEF SeenSlot, Lifecycle!IdleSlot, Lifecycle!NoSub, Lifecycle!NoStripe, Lifecycle!NoDto

LEMMA FinishMaps ==
    ASSUME NEW c \in Slots, \A d \in Slots : d # c => slot'[d] = slot[d],
           slot'[c].pc \notin BeforeCreate
    PROVE  Lifecycle!Finish(c)
<1>1. [d \in Slots |-> SeenSlot(slot'[d])]
        = [[d \in Slots |-> SeenSlot(slot[d])] EXCEPT ![c] = Lifecycle!IdleSlot]
  BY SeenIdle
<1>2. QED
  BY <1>1 DEF Lifecycle!Finish

LEMMA CreateMaps ==
    ASSUME CheckoutTypeOK, NEW c \in Slots, NEW invoice \in {"draft", "open"},
           NEW secret \in BOOLEAN, NewSubscription(c, invoice, secret), UNCHANGED early,
           \A d \in Slots : d # c => slot'[d] = slot[d], slot'[c].pc \notin BeforeCreate
    PROVE  Lifecycle!CheckoutCreate(c)
<1>1. slot[c].pc = "create" /\ nextStripe \in StripeIds /\ nextStripe <= MaxStripe
      /\ nextStripe' = nextStripe + 1
  BY NewSubscriptionTyped DEF NewSubscription, Is
<1> DEFINE new == [user |-> slot[c].user, price |-> PriceOf[slot[c].plan],
                   status |-> "incomplete", paused |-> FALSE]
<1>2. SeenObject(billing'[nextStripe]) = new
  BY <1>1 DEF NewSubscription, SeenObject, CheckoutTypeOK
<1>3. \A i \in StripeIds : i # nextStripe => billing'[i] = billing[i]
  BY DEF NewSubscription, CheckoutTypeOK
<1> HIDE DEF new
<1>4. [i \in StripeIds |-> SeenObject(billing'[i])]
        = [[i \in StripeIds |-> SeenObject(billing[i])] EXCEPT ![nextStripe] = new]
  BY <1>1, <1>2, <1>3
<1>5. SeenSlot(slot[c]).user = slot[c].user /\ SeenSlot(slot[c]).plan = slot[c].plan
      /\ SeenSlot(slot[c]).pc = "checkoutCreate"
  BY <1>1 DEF SeenSlot, BeforeCreate
<1>6. Lifecycle!Finish(c)
  BY FinishMaps
<1>7. QED
  BY <1>1, <1>4, <1>5, <1>6 DEF Lifecycle!CheckoutCreate, Lifecycle!At, Lifecycle!db, new

LEMMA FailMaps ==
    ASSUME AccountsTypeOK, CheckoutTypeOK, NEW c \in Slots, slot[c].pc \in BeforeCreate,
           Leave(c), CountFault(c), UNCHANGED <<billing, nextStripe>>
    PROVE  Lifecycle!Fail(c)
<1>1. early < MaxFaults /\ early' = early + 1
  BY DEF CountFault, AccountsTypeOK, CheckoutTypeOK
<1>2. Lifecycle!Finish(c)
  BY FinishMaps DEF Leave, IdleSlot, BeforeCreate, CheckoutTypeOK
<1>3. ~Lifecycle!At(c, "idle")
  BY DEF Lifecycle!At, SeenSlot
<1>4. QED
  BY <1>1, <1>2, <1>3 DEF Lifecycle!Fail, Lifecycle!db, Lifecycle!pay

LEMMA StripeMaps ==
    ASSUME CheckoutTypeOK, NEW i \in StripeIds, CustomerPays(i) \/ Expire(i)
    PROVE  Lifecycle!CustomerPays(i) \/ Lifecycle!Expire(i)
<1>1. ASSUME NEW to, billing' = [billing EXCEPT ![i].status = to],
             billing[i].status = "incomplete", UNCHANGED <<nextStripe, slot, early>>
      PROVE  Lifecycle!StripeMoves(i, "incomplete", to)
  <2>1. \A j \in StripeIds : SeenObject(billing'[j]) =
            IF j = i THEN [SeenObject(billing[j]) EXCEPT !.status = to] ELSE SeenObject(billing[j])
    BY <1>1 DEF SeenObject, CheckoutTypeOK, Objects
  <2>2. [j \in StripeIds |-> SeenObject(billing'[j])]
          = [[j \in StripeIds |-> SeenObject(billing[j])] EXCEPT ![i].status = to]
    BY <2>1
  <2>3. SeenObject(billing[i]).status = "incomplete"
    BY <1>1 DEF SeenObject
  <2>4. QED
    BY <1>1, <2>2, <2>3 DEF Lifecycle!StripeMoves, Lifecycle!db
<1>2. CASE CustomerPays(i)
  BY <1>1, <1>2 DEF CustomerPays, Lifecycle!CustomerPays
<1>3. CASE Expire(i)
  BY <1>1, <1>3 DEF Expire, Lifecycle!Expire
<1>4. QED
  BY <1>2, <1>3

\* Nothing but whose it is, what it costs and its status is seen of a subscription.
LEMMA SameObjects ==
    ASSUME \A i \in StripeIds : /\ billing'[i].user = billing[i].user
                                 /\ billing'[i].price = billing[i].price
                                 /\ billing'[i].status = billing[i].status
    PROVE  \A i \in StripeIds : SeenObject(billing'[i]) = SeenObject(billing[i])
BY DEF SeenObject

\* A step of a slot that is not at BeforeCreate, then or now, is not seen.
LEMMA LaterUnseen ==
    ASSUME CheckoutTypeOK, NEW c \in Slots, \A d \in Slots : d # c => slot'[d] = slot[d],
           slot[c].pc \notin BeforeCreate, slot'[c].pc \notin BeforeCreate,
           UNCHANGED <<nextStripe, early>>,
           \A i \in StripeIds : SeenObject(billing'[i]) = SeenObject(billing[i])
    PROVE  UNCHANGED Lifecycle!vars
<1>1. \A d \in Slots : SeenSlot(slot'[d]) = SeenSlot(slot[d])
  BY SeenIdle
<1>2. QED
  BY <1>1, SeenUnchanged

\* A step within BeforeCreate is not seen either.
LEMMA EarlierUnseen ==
    ASSUME CheckoutTypeOK, NEW c \in Slots, \A d \in Slots : d # c => slot'[d] = slot[d],
           slot[c].pc \in BeforeCreate, slot'[c].pc \in BeforeCreate,
           slot'[c].user = slot[c].user, slot'[c].plan = slot[c].plan,
           UNCHANGED <<nextStripe, early, billing>>
    PROVE  UNCHANGED Lifecycle!vars
<1>1. \A d \in Slots : SeenSlot(slot'[d]) = SeenSlot(slot[d])
  BY DEF SeenSlot
<1>2. QED
  BY <1>1, SeenUnchanged

LEMMA ContinueMaps ==
    ASSUME AccountsTypeOK, CheckoutTypeOK, NEW c \in Slots, Continue(c)
    PROVE  Lifecycle!CheckoutCreate(c) \/ UNCHANGED Lifecycle!vars
<1>0. \A d \in Slots : d # c => slot'[d] = slot[d]
  BY OneSlot
<1>1. CASE ListCustomers(c)
  <2>1. /\ slot[c].pc = "list" /\ slot'[c].pc \in {"newCustomer", "create"}
        /\ slot'[c].user = slot[c].user /\ slot'[c].plan = slot[c].plan
    BY <1>1 DEF ListCustomers, Is, Go, CheckoutTypeOK, CheckoutLocals
  <2>2. QED
    BY <1>0, <1>1, <2>1, EarlierUnseen DEF ListCustomers, atStripe, BeforeCreate
<1>2. CASE CreateCustomer(c)
  <2>1. /\ slot[c].pc = "newCustomer" /\ slot'[c].pc = "create"
        /\ slot'[c].user = slot[c].user /\ slot'[c].plan = slot[c].plan
    BY <1>2 DEF CreateCustomer, NewCustomer, Is, CheckoutTypeOK, CheckoutLocals
  <2>2. QED
    BY <1>0, <1>2, <2>1, EarlierUnseen DEF CreateCustomer, NewCustomer, BeforeCreate
<1>3. ASSUME NEW invoice \in {"draft", "open"}, NEW secret \in BOOLEAN,
             CreateSubscription(c, invoice, secret)
      PROVE  Lifecycle!CheckoutCreate(c)
  <2>1. slot'[c].pc \notin BeforeCreate
    BY <1>3 DEF CreateSubscription, CheckoutTypeOK, CheckoutLocals, BeforeCreate
  <2>2. NewSubscription(c, invoice, secret) /\ UNCHANGED early
    BY <1>3 DEF CreateSubscription
  <2>3. QED
    BY <1>0, <2>1, <2>2, CreateMaps
<1>4. CASE RetrieveSubscription(c) \/ RetrieveInvoice(c) \/ Wait(c)
  <2>1. slot[c].pc \in AfterCreate /\ slot'[c].pc \notin BeforeCreate
    BY <1>4 DEF RetrieveSubscription, RetrieveInvoice, Wait, HaveSecret, Go, NextAttempt, Is,
       AfterCreate, BeforeCreate, CheckoutTypeOK, CheckoutLocals
  <2>2. UNCHANGED <<billing, nextStripe, early>>
    BY <1>4 DEF RetrieveSubscription, RetrieveInvoice, Wait, atStripe
  <2>3. QED
    BY <1>0, <2>1, <2>2, LaterUnseen DEF AfterCreate, BeforeCreate
<1>5. ASSUME NEW secret \in BOOLEAN, FinalizeInvoice(c, secret) PROVE UNCHANGED Lifecycle!vars
  <2>1. slot[c].pc \in AfterCreate /\ slot'[c].pc \notin BeforeCreate
    BY <1>5 DEF FinalizeInvoice, HaveSecret, Go, NextAttempt, Is, AfterCreate, BeforeCreate,
       CheckoutTypeOK, CheckoutLocals
  <2>2. UNCHANGED <<nextStripe, early>>
    BY <1>5 DEF FinalizeInvoice
  <2>3. \A i \in StripeIds : /\ billing'[i].user = billing[i].user
                             /\ billing'[i].price = billing[i].price
                             /\ billing'[i].status = billing[i].status
    BY <1>5 DEF FinalizeInvoice, CheckoutTypeOK, Objects
  <2>4. QED
    BY <1>0, <2>1, <2>2, <2>3, SameObjects, LaterUnseen DEF AfterCreate, BeforeCreate
<1>6. CASE Answer(c)
  <2>1. slot[c].pc \in AfterCreate /\ slot'[c].pc \notin BeforeCreate
    BY <1>6 DEF Answer, Leave, IdleSlot, Is, AfterCreate, BeforeCreate, CheckoutTypeOK
  <2>2. UNCHANGED <<nextStripe, early>>
    BY <1>6 DEF Answer
  <2>3. \A i \in StripeIds : /\ billing'[i].user = billing[i].user
                             /\ billing'[i].price = billing[i].price
                             /\ billing'[i].status = billing[i].status
    BY <1>6 DEF Answer, CheckoutTypeOK, Objects
  <2>4. QED
    BY <1>0, <2>1, <2>2, <2>3, SameObjects, LaterUnseen DEF AfterCreate, BeforeCreate
<1>7. QED
  BY <1>1, <1>2, <1>3, <1>4, <1>5, <1>6 DEF Continue

LEMMA BreakMaps ==
    ASSUME AccountsTypeOK, CheckoutTypeOK, NEW c \in Slots, Break(c)
    PROVE  Lifecycle!CheckoutCreate(c) \/ Lifecycle!Fail(c) \/ UNCHANGED Lifecycle!vars
<1>0. \A d \in Slots : d # c => slot'[d] = slot[d]
  BY OneSlot
<1>i. Leave(c) => slot'[c].pc \notin BeforeCreate
  BY DEF Leave, CheckoutTypeOK, IdleSlot, BeforeCreate
<1>1. CASE Fail(c) /\ slot[c].pc \in BeforeCreate
  BY <1>1, FailMaps DEF Fail, atStripe
<1>2. CASE Fail(c) /\ slot[c].pc \notin BeforeCreate
  BY <1>0, <1>i, <1>2, LaterUnseen DEF Fail, CountFault, atStripe
<1>3. CASE FailLogged(c)
  <2>1. slot[c].pc \notin BeforeCreate /\ slot'[c].pc \notin BeforeCreate
    BY <1>3 DEF FailLogged, NextAttempt, Go, BeforeCreate, CheckoutTypeOK, CheckoutLocals
  <2>2. QED
    BY <1>0, <1>3, <2>1, LaterUnseen DEF FailLogged, CountFault, atStripe
<1>4. CASE LoseCustomer(c)
  BY <1>4, FailMaps DEF LoseCustomer, NewCustomer, Is, BeforeCreate
<1>5. CASE LoseSubscription(c)
  <2>1. NewSubscription(c, "open", TRUE) /\ UNCHANGED early /\ Leave(c)
    BY <1>5 DEF LoseSubscription
  <2>2. QED
    BY <1>0, <1>i, <2>1, CreateMaps
<1>6. QED
  BY <1>1, <1>2, <1>3, <1>4, <1>5 DEF Break

LEMMA NextMaps == TypeOK /\ [Next]_vars => [Lifecycle!Next]_Lifecycle!vars
<1> SUFFICES ASSUME AccountsTypeOK, CheckoutTypeOK, [Next]_vars
             PROVE  Lifecycle!Next \/ UNCHANGED Lifecycle!vars
  BY DEF TypeOK
<1>1. ASSUME NEW c \in Slots, NEW u \in Users, NEW e \in Emails, NEW p \in Plans,
             CheckoutCheck(c, u, e, p)
      PROVE  Lifecycle!Next
  BY <1>1, CheckMaps DEF Lifecycle!Next, Lifecycle!Arrive
<1>2. ASSUME NEW c \in Slots, Continue(c)
      PROVE  Lifecycle!Next \/ UNCHANGED Lifecycle!vars
  BY <1>2, ContinueMaps DEF Lifecycle!Next, Lifecycle!Continue
<1>3. ASSUME NEW c \in Slots, Break(c)
      PROVE  Lifecycle!Next \/ UNCHANGED Lifecycle!vars
  BY <1>3, BreakMaps DEF Lifecycle!Next, Lifecycle!Continue
<1>4. ASSUME NEW i \in StripeIds, CustomerPays(i) \/ Expire(i) PROVE Lifecycle!Next
  <2>1. Lifecycle!StripeActs(i)
    BY <1>4, StripeMaps DEF Lifecycle!StripeActs
  <2>2. i \in Lifecycle!StripeIds
    BY DEF Lifecycle!StripeIds, StripeIds
  <2>3. QED
    BY <2>1, <2>2 DEF Lifecycle!Next
<1>5. ASSUME NEW i \in StripeIds, StripePrepares(i) PROVE UNCHANGED Lifecycle!vars
  <2>1. \A j \in StripeIds : /\ billing'[j].user = billing[j].user
                             /\ billing'[j].price = billing[j].price
                             /\ billing'[j].status = billing[j].status
    BY <1>5 DEF StripePrepares, CheckoutTypeOK, Objects
  <2>2. QED
    BY <1>5, <2>1, SameObjects, SeenUnchanged DEF StripePrepares
<1>6. CASE UNCHANGED checkout
  BY <1>6, SeenUnchanged DEF checkout
<1>7. QED
  BY <1>1, <1>2, <1>3, <1>4, <1>5, <1>6 DEF Next, CheckoutNext, vars

\* The checkout call by call, with lost answers, retries and whatever is done to
\* users beside it, is the check and the subscription of SubscriptionLifecycle.
THEOREM Refinement == Spec => ImplementsLifecycle
<1>1. QED
  BY InitMaps, NextMaps, TypeCorrect, PTL DEF Spec, ImplementsLifecycle, Lifecycle!Spec

=============================================================================
