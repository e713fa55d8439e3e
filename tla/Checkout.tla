------------------------------- MODULE Checkout -------------------------------
(***************************************************************************)
(* POST stripe/subscriptions/checkout-intent call by call: the customer at *)
(* Stripe that findOrCreateCustomer looks up by e-mail, the subscription,  *)
(* the client secret that Stripe prepares in its own time and              *)
(* getCheckoutClientSecretsWithRetry waits for, and the answer to the app. *)
(* The e-mail is the one in the access token, so the table users and its   *)
(* writers (Accounts) run beside it.                                       *)
(*                                                                         *)
(* SubscriptionLifecycle has the same endpoint as two steps, the check and *)
(* the subscription; ImplementsLifecycle says that this is what it is. The *)
(* rows of subscriptions are not here: nobody has a current one.           *)
(***************************************************************************)
EXTENDS Accounts

CONSTANTS
    Plans,        \* subscription plans
    PriceOf,      \* the Stripe price resolvePriceIdForPlan finds for a plan
    Slots,        \* request slots of checkouts
    Retries,      \* the parameter retries of the loop, 2 in the code
    MaxCustomers, \* bound: customers ever created at Stripe
    MaxStripe     \* bound: subscriptions ever created at Stripe

CustomerIds == 1 .. MaxCustomers
StripeIds   == 1 .. MaxStripe
Nobody      == 0        \* no customer, or no Stripe subscription, yet

ASSUME CheckoutAssumption ==
    /\ Retries \in Nat /\ MaxCustomers \in Nat /\ MaxStripe \in Nat
    /\ IsFiniteSet(Slots) /\ \A w \in Workloads : w.slots \subseteq Slots
    /\ None \notin Plans

VARIABLES
    customers,    \* Stripe's customers: id -> the e-mail, None if there is none yet
    nextCustomer, \* the next id Stripe gives
    billing,      \* Stripe's subscriptions: id -> object
    nextStripe,   \* the next id Stripe gives
    slot,         \* checkout slot -> where its handler is, and its local variables
    collided,     \* history: e-mails that two checkouts found without a customer at once
    early         \* how many of the faults came before the Stripe subscription was created

atStripe == <<customers, nextCustomer, billing, nextStripe>>
checkout == <<customers, nextCustomer, billing, nextStripe, slot, collided, early>>
vars     == <<accounts, faults, load, checkout>>

-----------------------------------------------------------------------------
(* The data. *)

\* told: what the app has got, nothing, a secret to pay with, or an answer without.
Objects  == [user : Users \union {None}, customer : CustomerIds \union {Nobody},
             price : {PriceOf[p] : p \in Plans} \union {None},
             status : {"none", "incomplete", "active", "incomplete_expired"},
             invoice : {"none", "draft", "open"}, secret : BOOLEAN,
             told : {"nothing", "secret", "noSecret"}]
NoObject == [user |-> None, customer |-> Nobody, price |-> None, status |-> "none",
             invoice |-> "none", secret |-> FALSE, told |-> "nothing"]

CheckoutLocals == [pc : {"idle", "list", "newCustomer", "create", "retrieve", "invoice",
                         "finalize", "wait", "key"},
                   user : Users \union {None}, email : Emails \union {None},
                   plan : Plans \union {None}, customer : CustomerIds \union {Nobody},
                   stripe : StripeIds \union {Nobody}, attempt : 0 .. Retries,
                   secret : BOOLEAN]
IdleSlot       == [pc |-> "idle", user |-> None, email |-> None, plan |-> None,
                   customer |-> Nobody, stripe |-> Nobody, attempt |-> 0, secret |-> FALSE]

BeforeCreate == {"list", "newCustomer", "create"}
AfterCreate  == {"retrieve", "invoice", "finalize", "wait", "key"}

\* The locals a handler has set by the time it is at a step.
Filled(l) ==
    /\ l.pc = "idle" => l = IdleSlot
    /\ l.pc # "idle" => l.user \in Users /\ l.email \in Emails /\ l.plan \in Plans
    /\ l.pc \in {"create"} \union AfterCreate => l.customer \in CustomerIds
    /\ l.pc \in AfterCreate => l.stripe \in StripeIds
    /\ l.pc \in BeforeCreate => l.stripe = Nobody
    /\ l.pc = "wait" => l.attempt < Retries

CheckoutTypeOK ==
    /\ customers \in [CustomerIds -> Emails \union {None}]
    /\ nextCustomer \in 1 .. MaxCustomers + 1
    /\ billing \in [StripeIds -> Objects]
    /\ nextStripe \in 1 .. MaxStripe + 1
    /\ slot \in [Slots -> CheckoutLocals]
    /\ \A c \in Slots : Filled(slot[c])
    /\ collided \subseteq Emails
    /\ early \in 0 .. faults

TypeOK == AccountsTypeOK /\ CheckoutTypeOK

Init ==
    /\ AccountsInit
    /\ customers = [k \in CustomerIds |-> None]
    /\ nextCustomer = 1
    /\ billing = [i \in StripeIds |-> NoObject]
    /\ nextStripe = 1
    /\ slot = [c \in Slots |-> IdleSlot]
    /\ collided = {}
    /\ early = 0

-----------------------------------------------------------------------------

Is(c, pc)    == slot[c].pc = pc
Go(c, pc)    == slot' = [slot EXCEPT ![c].pc = pc]
Leave(c)     == slot' = [slot EXCEPT ![c] = IdleSlot]
Of(e)        == {k \in CustomerIds : customers[k] = e}
Looking      == {c \in Slots : slot[c].pc \in {"list", "newCustomer"}}
Ordering     == {c \in Slots : slot[c].pc \in BeforeCreate}

\* Bounds: every checkout under way can create what it has to.
RoomForCheckout == /\ nextStripe + Cardinality(Ordering) <= MaxStripe
                   /\ nextCustomer + Cardinality(Looking) <= MaxCustomers

-----------------------------------------------------------------------------
(* createCheckoutIntent. *)

\* A user without a current subscription; the plan has a price.
CheckoutCheck(c, u, e, p) ==
    /\ "checkout" \in load.ops /\ c \in load.slots /\ Is(c, "idle") /\ RoomForCheckout
    /\ <<u, e>> \in tokens
    /\ slot' = [slot EXCEPT ![c] = [IdleSlot EXCEPT !.pc = "list", !.user = u, !.email = e,
                                                    !.plan = p]]
    /\ UNCHANGED <<atStripe, collided, early, accounts, faults>>

\* Mutant: the list is not limited to the e-mail.
BugListCustomers(c) ==
    LET e == slot[c].email
    IN  /\ Is(c, "list")
        /\ \/ /\ nextCustomer = 1
              /\ Go(c, "newCustomer")
              /\ collided' = IF \E d \in Slots : Is(d, "newCustomer") /\ slot[d].email = e
                             THEN collided \union {e} ELSE collided
           \/ /\ nextCustomer > 1
              /\ slot' = [slot EXCEPT ![c].pc = "create", ![c].customer = nextCustomer - 1]
              /\ UNCHANGED collided
        /\ UNCHANGED <<atStripe, early, accounts, faults>>

\* Mutant: the answer to the list is not looked at.
BugListNobody(c) ==
    /\ Is(c, "list")
    /\ Go(c, "newCustomer")
    /\ UNCHANGED <<atStripe, collided, early, accounts, faults>>

\* customers.list by e-mail with limit 1: Stripe answers with the newest.
ListCustomers(c) ==
    LET e == slot[c].email
    IN  /\ Is(c, "list")
        /\ \/ /\ Of(e) = {}
              /\ Go(c, "newCustomer")
              /\ collided' = IF \E d \in Slots : Is(d, "newCustomer") /\ slot[d].email = e
                             THEN collided \union {e} ELSE collided
           \/ /\ \E k \in Of(e) : /\ \A j \in Of(e) : j <= k
                                  /\ slot' = [slot EXCEPT ![c].pc = "create",
                                                          ![c].customer = k]
              /\ UNCHANGED collided
        /\ UNCHANGED <<atStripe, early, accounts, faults>>

NewCustomer(c) ==
    /\ Is(c, "newCustomer")
    /\ nextCustomer <= MaxCustomers
    /\ customers' = [customers EXCEPT ![nextCustomer] = slot[c].email]
    /\ nextCustomer' = nextCustomer + 1
    /\ UNCHANGED <<billing, nextStripe>>

\* createCustomer, whose answer arrives.
CreateCustomer(c) ==
    /\ NewCustomer(c)
    /\ slot' = [slot EXCEPT ![c].pc = "create", ![c].customer = nextCustomer]
    /\ UNCHANGED <<collided, early, accounts, faults>>

\* Mutant: without payment_behavior default_incomplete.
BugNewSubscription(c, invoice, secret) ==
    /\ Is(c, "create")
    /\ nextStripe <= MaxStripe
    /\ secret => invoice = "open"
    /\ billing' = [billing EXCEPT ![nextStripe] =
                     [user |-> slot[c].user, customer |-> slot[c].customer,
                      price |-> PriceOf[slot[c].plan], status |-> "active",
                      invoice |-> invoice, secret |-> secret, told |-> "nothing"]]
    /\ nextStripe' = nextStripe + 1
    /\ UNCHANGED <<customers, nextCustomer>>

\* subscriptions.create with default_incomplete: the invoice may still be a draft
\* and have no secret to pay it with.
NewSubscription(c, invoice, secret) ==
    /\ Is(c, "create")
    /\ nextStripe <= MaxStripe
    /\ secret => invoice = "open"
    /\ billing' = [billing EXCEPT ![nextStripe] =
                     [user |-> slot[c].user, customer |-> slot[c].customer,
                      price |-> PriceOf[slot[c].plan], status |-> "incomplete",
                      invoice |-> invoice, secret |-> secret, told |-> "nothing"]]
    /\ nextStripe' = nextStripe + 1
    /\ UNCHANGED <<customers, nextCustomer>>

\* createSubscription; extractCheckoutClientSecrets looks at what it returned.
CreateSubscription(c, invoice, secret) ==
    /\ NewSubscription(c, invoice, secret)
    /\ slot' = [slot EXCEPT ![c].pc = IF secret THEN "key" ELSE "retrieve",
                            ![c].stripe = nextStripe, ![c].secret = secret]
    /\ UNCHANGED <<collided, early, accounts, faults>>

-----------------------------------------------------------------------------
(* getCheckoutClientSecretsWithRetry: retrieve the subscription, then its   *)
(* invoice, finalize a draft, wait for a second; Retries + 1 attempts.      *)

Invoice(c) == billing[slot[c].stripe]

\* Mutant: the loop ends with an exception when the last attempt has no secret.
BugNextThrows(c) == IF slot[c].attempt < Retries THEN Go(c, "wait") ELSE Leave(c)

NextAttempt(c) == IF slot[c].attempt < Retries THEN Go(c, "wait") ELSE Go(c, "key")

HaveSecret(c) == slot' = [slot EXCEPT ![c].pc = "key", ![c].secret = TRUE]

RetrieveSubscription(c) ==
    /\ Is(c, "retrieve")
    /\ IF Invoice(c).secret THEN HaveSecret(c) ELSE Go(c, "invoice")
    /\ UNCHANGED <<atStripe, collided, early, accounts, faults>>

\* Mutant: a draft is left to Stripe.
BugRetrieveInvoice(c) ==
    /\ Is(c, "invoice")
    /\ IF Invoice(c).secret THEN HaveSecret(c) ELSE NextAttempt(c)
    /\ UNCHANGED <<atStripe, collided, early, accounts, faults>>

RetrieveInvoice(c) ==
    /\ Is(c, "invoice")
    /\ CASE Invoice(c).secret            -> HaveSecret(c)
         [] Invoice(c).invoice = "draft" -> Go(c, "finalize")
         [] OTHER                        -> NextAttempt(c)
    /\ UNCHANGED <<atStripe, collided, early, accounts, faults>>

\* finalizeInvoice; Stripe refuses it for an invoice that is open by now, and the
\* loop only logs that.
FinalizeInvoice(c, secret) ==
    /\ Is(c, "finalize")
    /\ IF Invoice(c).invoice = "draft"
       THEN /\ billing' = [billing EXCEPT ![slot[c].stripe].invoice = "open",
                                          ![slot[c].stripe].secret = secret]
            /\ IF secret THEN HaveSecret(c) ELSE NextAttempt(c)
       ELSE NextAttempt(c) /\ UNCHANGED billing
    /\ UNCHANGED <<customers, nextCustomer, nextStripe, collided, early, accounts, faults>>

\* Mutant: the attempts are not counted.
BugWait(c) ==
    /\ Is(c, "wait")
    /\ Go(c, "retrieve")
    /\ UNCHANGED <<atStripe, collided, early, accounts, faults>>

\* The timer fires: the next attempt.
Wait(c) ==
    /\ Is(c, "wait")
    /\ slot' = [slot EXCEPT ![c].pc = "retrieve", ![c].attempt = @ + 1]
    /\ UNCHANGED <<atStripe, collided, early, accounts, faults>>

\* createEphemeralKey, and the answer.
Answer(c) ==
    /\ Is(c, "key")
    /\ billing' = [billing EXCEPT ![slot[c].stripe].told =
                     IF slot[c].secret THEN "secret" ELSE "noSecret"]
    /\ Leave(c)
    /\ UNCHANGED <<customers, nextCustomer, nextStripe, collided, early, accounts, faults>>

-----------------------------------------------------------------------------
(* Failures, and what Stripe and the customer do.                           *)

CountFault(c) == /\ faults < MaxFaults
                 /\ faults' = faults + 1
                 /\ early' = IF slot[c].pc \in BeforeCreate THEN early + 1 ELSE early
                 /\ UNCHANGED <<collided, accounts>>

\* executeStripeRequest throws or the instance dies: the request is over.
Fail(c) == ~Is(c, "idle") /\ Leave(c) /\ UNCHANGED atStripe /\ CountFault(c)

\* The calls about the invoice are in a try block: the loop goes on.
FailLogged(c) ==
    /\ slot[c].pc \in {"invoice", "finalize"}
    /\ NextAttempt(c) /\ UNCHANGED atStripe /\ CountFault(c)

\* Stripe has done what it was asked for and the answer is lost.
LoseCustomer(c) == NewCustomer(c) /\ Leave(c) /\ CountFault(c)

LoseSubscription(c) ==
    /\ NewSubscription(c, "open", TRUE)
    /\ Leave(c)
    /\ faults < MaxFaults /\ faults' = faults + 1
    /\ UNCHANGED <<early, collided, accounts>>

\* Stripe finalizes a draft, and prepares the secret of an open invoice.
StripePrepares(i) ==
    /\ \/ billing[i].invoice = "draft" /\ billing' = [billing EXCEPT ![i].invoice = "open"]
       \/ /\ billing[i].invoice = "open" /\ ~billing[i].secret
          /\ billing' = [billing EXCEPT ![i].secret = TRUE]
    /\ UNCHANGED <<customers, nextCustomer, nextStripe, slot, collided, early, accounts, faults>>

\* The app can open the payment sheet only with a secret it was given.
CustomerPays(i) ==
    /\ billing[i].status = "incomplete" /\ billing[i].told = "secret"
    /\ billing' = [billing EXCEPT ![i].status = "active"]
    /\ UNCHANGED <<customers, nextCustomer, nextStripe, slot, collided, early, accounts, faults>>

\* A first payment that never comes, a day later: the checkout is long over.
Expire(i) ==
    /\ billing[i].status = "incomplete" /\ \A c \in Slots : slot[c].stripe # i
    /\ billing' = [billing EXCEPT ![i].status = "incomplete_expired"]
    /\ UNCHANGED <<customers, nextCustomer, nextStripe, slot, collided, early, accounts, faults>>

-----------------------------------------------------------------------------

Continue(c) ==
    \/ ListCustomers(c) \/ CreateCustomer(c)
    \/ \E invoice \in {"draft", "open"}, secret \in BOOLEAN :
           CreateSubscription(c, invoice, secret)
    \/ RetrieveSubscription(c) \/ RetrieveInvoice(c)
    \/ \E secret \in BOOLEAN : FinalizeInvoice(c, secret)
    \/ Wait(c) \/ Answer(c)

Break(c) == Fail(c) \/ FailLogged(c) \/ LoseCustomer(c) \/ LoseSubscription(c)

CheckoutNext ==
    /\ \/ \E c \in Slots :
             \/ \E u \in Users, e \in Emails, p \in Plans : CheckoutCheck(c, u, e, p)
             \/ Continue(c) \/ Break(c)
       \/ \E i \in StripeIds : StripePrepares(i) \/ CustomerPays(i) \/ Expire(i)
    /\ UNCHANGED load

Next == CheckoutNext \/ (AccountsNext /\ UNCHANGED checkout)

Spec == Init /\ [][Next]_vars

\* Handlers go on as long as their calls return or fail, and the timer fires.
\* Nothing is assumed of Stripe preparing a secret.
FairSpec ==
    /\ Spec
    /\ \A c \in Slots : WF_vars(Continue(c) /\ UNCHANGED load)
    /\ \A r \in Handlers : WF_vars(AccountsContinue(r) /\ UNCHANGED <<load, checkout>>)

-----------------------------------------------------------------------------
(* Properties. *)

\* findOrCreateCustomer: an e-mail has one customer at Stripe, whatever fails and
\* whichever answers are lost, unless two checkouts looked for it at once.
OneCustomerPerEmail ==
    \A j, k \in CustomerIds :
        j # k /\ customers[j] = customers[k] /\ customers[j] # None
            => customers[j] \in collided

\* A customer at Stripe, and the cards saved with it, belongs to one user, unless
\* a row has given up its e-mail: Stripe knows the e-mail and not the user.
CustomerOfOneUser ==
    \A i, j \in StripeIds :
        /\ billing[i].customer = billing[j].customer /\ billing[i].customer # Nobody
        /\ billing[i].user # billing[j].user
        => customers[billing[i].customer] \in freed

\* A subscription at Stripe that no app has been told of is being worked on, or it
\* costs a failure: a request that ends well never leaves one behind.
Untold == {i \in StripeIds : /\ billing[i].status # "none" /\ billing[i].told = "nothing"
                             /\ \A c \in Slots : slot[c].stripe # i}

OrphansAreFailures == Cardinality(Untold) <= faults - early

\* An app that was answered without a secret, although no call failed, is left with
\* an invoice that is final: resolveInvoicePaymentSecret has seen to that
\* ('force finalization so Stripe can create the payment object').
AnsweredFinal ==
    \A i \in StripeIds :
        billing[i].told = "noSecret" /\ faults = 0 => billing[i].invoice = "open"

\* The loop is bounded: a checkout is answered or fails, also when Stripe never has
\* a secret.
CheckoutEnds == \A c \in Slots : slot[c].pc # "idle" ~> slot[c].pc = "idle"

\* The endpoint is what SubscriptionLifecycle says of it: a check and a subscription
\* at Stripe. What comes after is not visible there, and so a failure of it is not.
SeenSlot(l) ==
    LET shown == l.pc \in BeforeCreate
    IN  [pc   |-> IF shown THEN "checkoutCreate" ELSE "idle",
         op   |-> IF shown THEN "checkout" ELSE None,
         user |-> IF shown THEN l.user ELSE None,
         plan |-> IF shown THEN l.plan ELSE None,
         sub  |-> 0, stripe |-> 0, todo |-> {},
         dto  |-> [status |-> None, user |-> None, plan |-> None]]

SeenObject(o) == [user |-> o.user, price |-> o.price, status |-> o.status, paused |-> FALSE]

Lifecycle == INSTANCE SubscriptionLifecycle WITH
    Requests   <- Slots,
    Ops        <- {"checkout", "expire"},
    Edits      <- {},
    MaxSubs    <- 0,
    MaxFails   <- MaxFaults,
    subs       <- [s \in {} |-> NoObject],
    nextSub    <- 1,
    ships      <- [s \in {} |-> 0],
    pays       <- [s \in {} |-> 0],
    stripe     <- [i \in StripeIds |-> SeenObject(billing[i])],
    req        <- [c \in Slots |-> SeenSlot(slot[c])],
    fails      <- early

ImplementsLifecycle == Lifecycle!Spec

=============================================================================
