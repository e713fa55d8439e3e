# Formal models of the subscription backend

TLA+ models of the NestJS service in `src/` (subscription boxes sold to
subscribers, paid with Stripe, run as several Cloud Run instances over one
PostgreSQL database), checked with TLC and partly proved with TLAPS.
Paths below are relative to `src/src/`.

## 1. The system

| Part | State it keeps | Operations that change it | What makes it correct |
|---|---|---|---|
| Subscription life cycle (`subscriptions/`) | table `subscriptions` (user, plan, status, `stripe_subscription_id`) | subscribe, pause, resume, cancel, dashboard (inserts missing shipments), admin create / update / delete | one current (ACTIVE or PAUSED) row per user, a cancelled row stays cancelled, every ACTIVE row gets one initial shipment |
| Stripe checkout (`stripe/`) | Stripe's customers, subscriptions and invoices | checkout-intent, confirm, pause, resume, cancel | access only for a paid subscription at the price of the plan; the row and Stripe agree; no second row for one payment |
| Stripe webhooks (`stripe/webhooks/`) | none | the handler is commented out | what Stripe does later never reaches the rows |
| Payments (`payments/`) | table `payments` | confirm's SUCCESS row, admin create / update / delete | a payment per confirmed subscription |
| Shipments (`shipments/`) | table `shipments` | initial shipment, admin create / update / status / delete | every change of a status is announced |
| Notifications (`notifications/`) | `users.fcm_token` | push messages, fire and forget | a failed push never fails the request |
| Access control (`access-control/`) | tables `roles`, `permissions`, `role_permissions`, and `users.role` by name | default seeding, create / update / delete role, guards; registration writes the role 'Subscriber' | a user's role exists; the Admin role keeps all permissions |
| Users and login (`users/`, `auth/`, `admin-auth/`) | table `users` | registration, login, refresh, admin CRUD, profile image | e-mail, username and phone are unique; an admin has a username |
| Plans and products (`subscription-plans/`) | tables `subscription_plans`, `products`, `subscription_plan_products` | CRUD, seeding, image upload, catalogue | a plan's frequency has one meaning everywhere; no dangling image |
| File storage (`file-storage/`) | files under `uploads/` | store, delete by public URL | only our own files are deleted |
| Server (`server.ts`, `database.config.ts`) | `nestApp`, `nestReady`, retry timer | bootstrap, retry, migrations, shutdown | it becomes ready when the database is up and the migrations are applied, one bootstrap at a time |
| Readers and small CRUD (`reports/`, `inventory/`, `coupons/`, `addresses/`) | their tables | single-row CRUD, aggregates | - |

How they interact: controllers call services, services call repositories and
Stripe. Handlers run on one thread and interleave at every `await`, and several
instances share the database. Except for `AccessControlService.updateRole`
nothing runs in a database transaction, and no unique index protects
(user, current status) or `stripe_subscription_id`.

What is hard here: the check and the write of a handler are several awaits
apart; Stripe and the database are updated one after the other and either may
fail; the app retries; rows read before an await are written after it. The
list of these places, line by line, is in `PROJECT.json` under `hazards`.

## 2. The modules

| Module | Models | Composed with |
|---|---|---|
| `SubscriptionLifecycle` | `subscriptions.service.ts`, `stripe-subscriptions.controller.ts`, the calls of `stripe.service.ts` that change a Stripe subscription, and what Stripe does on its own | instantiates `SubscriptionContract` |
| `SubscriptionContract` | the abstract specification: the changes of a row the service promises, each in one step | - |
| `AccessControl` | `access-control.service.ts` (roles, their permissions, the seeding every instance does) together with the writers of `users.service.ts` and the registration of `auth.service.ts`, since users and roles only share a name | - |
| `Accounts` | the table `users` as `auth.service.ts` (registration, login), `admin-auth.service.ts` (the default admin, admin login) and `users.service.ts` identify people by: phone number, e-mail, username, status | - |
| `Checkout` | `POST stripe/subscriptions/checkout-intent` call by call: `findOrCreateCustomer`, `createSubscription`, the retry loop for the client secret, lost answers | extends `Accounts`, refines the checkout steps of `SubscriptionLifecycle` |
| `ServerBootstrap` | `server.ts` and `database.config.ts`: bootstrap, retries, the migrations that run without a lock and those behind the advisory lock, shutdown, for several instances | - |
| `Storefront` | pure operators: the five readings of `frequency_in_days`, the Stripe price of a plan, the admin's list with its summary, the app's storefront | - |
| `PlanServer` | the instances of `ServerBootstrap` serving `subscription-plans.service.ts`: create, update, remove and `seedDefaultPlans`, whose requests end with their instance and hold up `server.close` | extends `ServerBootstrap` and `Storefront` |
| `Catalogue` | `subscription-plans.service.ts` (plans, products, the image of a plan, the seeding of products), `file-storage.service.ts`, and the writers of `users.profile_image_url` in `auth.service.ts` and `users.service.ts` | instantiates `CatalogueContract` |
| `CatalogueContract` | the abstract specification: what a request that was asked changes of which products a plan has, namely what it sent, in one step | - |
| `Shipments` | `shipments.service.ts`, `notifications.service.ts`, and the first shipments the dashboard of `subscriptions.service.ts` inserts | - |
| `MC_SubscriptionLifecycle`, `MC_AccessControl`, `MC_Catalogue`, `MC_Shipments`, `MC_Checkout`, `MC_PlanServer` | workloads and small constants for TLC | extend the module they are named after |
| `SubscriptionLifecycle_proofs`, `SubscriptionSerial_proofs`, `AccessControl_proofs`, `Catalogue_proofs`, `Shipments_proofs`, `Accounts_proofs` (lemmas only), `Checkout_proofs`, `PlanServer_proofs` (with the theorems about `ServerBootstrap`) | theorems and their proofs | extend the module they are about |

### How state and actions correspond to the code

*Requests.* A slot (`req[r]`, `slot[r]`) is one HTTP request in flight: `pc` is
the await it is suspended at, the other fields are the local variables it will
still use. An action is the code between two awaits that touch shared state.
Two reads in a row of a handler that take nothing else with them are one step.
A request that is refused before it wrote anything is no step, or a step that
frees the slot. The service is stateless but for the memo of `ensureDefaults`,
so two slots stand for two requests of one instance or of two.

*Tables.* A table is a function from ids to rows, with the id the next INSERT
gets. A TypeORM `update(id, ...)` of a missing row changes nothing; a `save` of
a loaded entity selects the row again, updates the columns in which the entity
differs, and inserts it again if it is gone. For the users of `AccessControl` these
are two steps (`UserSelect`, `UserWrite`), as another request may write between them;
elsewhere they are one, which writes what the handler holds. The
DELETE of a subscription fails while shipments or payments refer to it.

*Failure.* `Fail(r)` ends a request at any of its awaits: the call threw, or the
instance died. What was done before stays done, except in `updateRole`, the one
handler in a transaction. A call whose effect took place and whose answer was
lost is the same as a failure of the next call.

`SubscriptionLifecycle`: `SubscribeCheck`, `CheckoutCheck`, `ConfirmRead`,
`CurrentRead` (pause, resume, cancel with or without Stripe), `DashboardRead`,
`AdminCreateCheck`, `AdminUpdateRead`, `AdminRemoveRead` are the arrivals, one per
route; the other actions continue them. `StripeActs` is Stripe: the customer
pays, the first invoice expires, renewals fail and recover or are given up. No
action reports that to the service: the webhook handler is commented out.
`ConfirmRead` takes the id the client sends: like the code it compares the price and
the status at Stripe and not whose customer it is, so that two users may come to
name one Stripe subscription (`Shared`).

`AccessControl`: `memo[i]` holds `defaultsInitialized`, `defaultsPromise` and the
local variables of the `syncDefaults` it stands for. The guard of every admin
route calls `ensureDefaults` (`EnsureDefaults`); the handlers that need it go on
when it is done, and fail with it. `Register` is registration, which needs no admin
route and writes the role 'Subscriber' unseen. `UserSelect` and `UserWrite` are the two
halves of the `save` of an edit. `RoleCascade` takes the row locks the UPDATE of
a rename takes (`locked`), `RoleSave` commits. `load` is the workload of a behaviour
and `raced` a history: the users about whom two requests were under way at once.

`Catalogue`: plans and users are the `Owners` of an image; `rows[o]` holds the columns
the handlers change, `files[f]` the folder a stored file is in. `UploadRead`,
`StoreImage`, `DeleteOld` and `Save` are both upload handlers; `AddRead` and
`FindProducts`, `RemoveProductsRead`, `RemoveProductRead` and `DropProduct` the routes of
products; `FindSku`, `InsertSku`, `FindPlans` and `Assign` the two loops of
`seedDefaultProducts`, for one of the plan names the seeds are grouped by
(`SeedBoxes` are the plans of that name; the groups do not touch each other). Of the
columns that `seedDefaultPlans` and the `update` of a plan write, `FindPlans` reads the
name: names do not change in this module, and what they change to is in `PlanServer`.
For the contract a request is `Asked` from its first step to its last: the plan it
names and the products it sent, or those a seeding has gathered so far.

`Shipments`: `UpdateRead` and `StatusRead` are the first reads of PATCH
`shipments/:id` and PUT `shipments/:id/status`, which decide whether there is a
message; `Write`, `Reread` and `Push` are the awaits both go through. `told` and
`last` are histories of the messages. `ShipFind` and `ShipInsert` are the dashboard's
`ensureInitialShipments`; the subscriptions are only a
status here, changed at any time by `ChangeSubscription`.

`Accounts`: a handler (`handler[r]`) is a registration, an admin's create, edit or
removal, or the seeding of the default admin; logins are one step and only add the
token they sign (`tokens`: a user and the e-mail of the moment). The unique indexes on
e-mail and username are in the guards of the writes, and a write they refuse ends the
request; the phone number has none. `raced`, `freed` and `writer` are histories: numbers
that two registrations were under way with, e-mails a row has given up, and whether
registration or an admin wrote a number.

`Checkout`: one action per call to Stripe. `ListCustomers` is `customers.list` by
e-mail, `CreateCustomer`, `CreateSubscription`, `RetrieveSubscription`, `RetrieveInvoice`
and `FinalizeInvoice` are the calls of the same names, `Wait` the timer between two
attempts, `Answer` the ephemeral key and the response. `Fail` is a call that throws;
inside the loop an error about the invoice is logged and the loop goes on
(`FailLogged`); `LoseCustomer` and `LoseSubscription` are calls that took effect at
Stripe and whose answer did not arrive. `StripePrepares` is Stripe making the secret
in its own time. `collided` and `early` are histories.

`ServerBootstrap`: `boot[i]` is the await `bootstrapNestApp` is at. `database.config.ts`
sets `migrationsRun: true`, so that `NestFactory.create` applies the pending migrations
on every instance, without a lock: `CreateReads` is its query for the migrations that
are recorded, `Upgrade` the transaction that applies the others. Only then does an
instance with DB_MIGRATIONS go on to `runRuntimeMigrationsIfEnabled`, which asks for the
same migrations again behind the advisory lock (`TakeLock`, `Migrate`, `Unlock`).
`schema` counts how often they are recorded, `crowded` is a history: two instances
applied them at once. An exception of this second part
goes through the two `finally` blocks (`thrown`) before the catch block arms the
timer; `Exit` closes the sessions and with them frees the advisory lock. The
`destroy()` of the outer block does not throw: it ends the pool of this attempt's own
data source, which throws only when it is ended twice.

`PlanServer`: `table[b]` is a row of `subscription_plans`, `seeder[r]` a seed-defaults
request: the instance it runs `at`, the default plan `k` it is at, and the await it is
suspended at. It begins only at an instance that is ready (the server answers 503
before), `Close` waits until an instance's requests are answered, `Die` ends them half
way. An instance of this module takes every step of `ServerBootstrap`. `UpdatePlan` writes
what a PATCH sends of name, days and price. `alone`, `lapped`
and `by` are histories: nobody else has written plans since a seeding began, two
seedings were under way at once, a row's name and days are the seeding's and no admin
has sent either since.

### What the models leave out

- Dates. Next delivery, billing dates and display fields change no decision.
  "The newest row" is the only use of an order, and the code breaks a tie of two
  DATE columns arbitrarily; the models take any of the candidates.
- Wording of answers and HTTP codes, beyond the fact that a request is refused.
- A confirm is sent an id some checkout returned, the user's own or another's; ids
  Stripe does not know are refused before anything is written.
- The admin routes of subscriptions never call Stripe; that is in the model, and
  why the properties that compare rows with Stripe are checked without an admin.
- In `AccessControl` the unique indexes on e-mail and username, and a clash on the
  key of `role_permissions` when two instances save one role, are left to `Fail`
  and `SyncFails`. The default admin account is not one of the users.
  Of registration only the row it inserts is in this module; what it checks is in
  `Accounts`. The `save` of a role is one step.
- In `Accounts` a password is right or the login is no step, a token never expires
  while it matters, and only two roles are told apart.
- In `Checkout` nobody has a current subscription row, as checkout only reads them;
  what `SubscriptionLifecycle` does with rows is seen there. Setup intents, payment
  intents and payment methods are helpers no controller calls.
- `start-with-migrations.js`, which the image runs, first adds a column and two tables if
  they do not exist and goes on whether or not that worked; it records no migration, so
  `ServerBootstrap` begins behind it. The migrations themselves apply or throw as one.
- In `PlanServer` an id that was used is not used again, texts are left out, and a
  default plan is its name, days and price. The storefront's texts, its items for a
  preset without plans (`buildFallbackPreset`, which is never reached as only boxes of the
  presets are shown) and the products it lists are left out.
- In `Catalogue` a stored file gets a name no file had: the code puts `Date.now()`
  before the uploaded name, so two uploads of one name into one folder in the
  same millisecond would share a file. What a product is called or costs, and
  whether a file is on disk or in a bucket, are left out. `deleteByPublicUrl`
  swallows its errors, so that its failure is a branch of `DeleteOld`; that it leaves
  the URL of another store alone is left out, as the service writes only its own.
- In `Shipments` a push reaches the subscriber or not: that he has no token, that
  Firebase is not configured and that it refuses the message are one case, since
  `sendNotificationToUser` swallows them all. Dates, tracking numbers and which of
  several shipments the dashboard shows are left out.
- Permissions are sets of keys. `Legacy` stands for keys of older catalogues, which
  make a seed reset the role that has them.

## 3. The runs

| Run | Workload and bounds | What it shows |
|---|---|---|
| `serial_admin` | all operations, one at a time, 2 users, 2 rows, 1 Stripe subscription, 1 failure | `TypeOK`; `AtMostOneCurrent`; `SingleInitialShipment`; the handlers implement `SubscriptionContract` (`ImplementsContract`), with an admin who edits and deletes anything |
| `serial_subscriber` | subscribers only, one request at a time, 2 users, 2 rows, 2 Stripe subscriptions that either may confirm, 2 failures, fair handlers | `RowsAgreeWithStripe` (`CancelledNotBilled`, `StripeBacksOneRow` and `PauseAgrees`): rows and Stripe agree as long as no admin interferes, but for whose turn it is to pause where two users name one Stripe subscription; `PauseSucceeds`, `ShipmentRepaired`: a lost second half is made up for by the next request |
| `overlap` | a Stripe customer beside an admin who creates rows and sets them ACTIVE, 2 at once, 1 user, 2 plans, 2 rows, 1 Stripe subscription with dunning, 1 failure | `ConfirmedWasPaid`, `OnePaymentPerConfirm`, `RowMatchesCharge`: no order of the awaits gives access without a payment, or for another price; `ActiveHasShipment`: whoever sets ACTIVE inserts the shipment, whatever the others do meanwhile |
| `access` | three workloads, each from its first state: all operations one at a time on 1 instance; registration, the edits of users and new roles in 2 slots on 1 instance; registration, creation and edits of users in 2 slots on 2 instances that seed an empty database at once; 1 user, 3 role names, 1 failure or restart, fair seeding | `TypeOK`; `RoleOfUserExists` where `RolesKept` holds (requests one at a time, on one server if roles are renamed, or no renames and removals at all), but for registered users before the defaults are there or where roles are renamed; `AdminHasUsername` where, besides, no role is edited, but for users whom two requests changed at once; `SeedsRestored` from any state an admin can leave the roles in and when instances race, but for edits of roles on another instance (`SeedsUndisturbed`); `DefaultsSettle`: a rejected synchronisation is repeated. The workloads satisfy these conditions, which the properties state because they are false without them |
| `boot` | four workloads: 3 instances, 2 of them migrating, on a database without the migrations, 1 fault, no requests; 2 instances of the same, 2 faults; 2 instances and 2 seedings from three tables (empty, a default at another price, two rows of one default), 1 fault; 1 instance, an admin who creates, edits, renames and removes beside a seeding | `TypeOK`; `MigratedBeforeServing`: whoever initialises or serves finds the migrations applied, and they are applied twice only by instances that were at it at once, which the code allows; `EventuallyReady`, `ShutdownEnds`; `TwinsOverlapped`: only overlapping seedings make two rows of one plan, unless an admin renames; `SeedingDelivers` and `SeedingCompletes`: an undisturbed seeding is complete, and a repeated one gets there over failures, restarts and retries; `ReadsAgree`: what is charged, shown and counted agrees |
| `checkout` | four workloads: every writer of users in 2 slots; registration and two checkouts at once; a checkout beside an admin who gives a user another e-mail; logins to accounts that are created and disabled; 3 users, 2 spellings of 1 number, 3 e-mails, 2 customers and 2 subscriptions at Stripe, 1 failure, the loop's 2 retries | `PhoneOfOneSubscriber`, `OneCustomerPerEmail`, `CustomerOfOneUser`: people are kept apart, but for the orders of steps the properties name; `OrphansAreFailures`: only a failure leaves a Stripe subscription nobody was told of; `AnsweredFinal`, `CheckoutEnds`: the loop ends, with a final invoice; `AdminSeeded`; `ImplementsLifecycle`: all of it is the two-step checkout of `SubscriptionLifecycle` |
| `catalogue` | profile uploads at any time, everything else one request at a time (`Alone`), 2 requests, 2 plans of the seeds' name, 1 user, 2 seeds, 2 products, 3 files, 1 failure | `HeldFileExists`, `NamedFileExists`, `OneOrphanPerFailure`: stored files against the rows that name them; `SeedsAssigned`: seed-products also finishes what a failed run left, for the plans it found (one created while it runs has to wait for the next run); the handlers implement `CatalogueContract`: a list changes by exactly what the request about its plan sent |
| `shipments` | 2 requests at once, 1 subscription, 2 shipments, 1 failure, statuses in both spellings and moved back | `EveryStatusAnnounced`: two changes of a shipment never leave a status unannounced; `LastPushTrue`: where the changes of a shipment do not overlap, its last message is right, whichever of the two endpoints they come from |
| `two_current` | 2 overlapping subscribes | violated: `AtMostOneCurrent` |
| `unpaid_confirm` | checkout and confirm, 1 failure | violated: `ConfirmedIsPaid` |
| `cancel_stuck` | checkout, confirm, cancel, 1 failure, fair | violated: `CancelSucceeds` |
| `null_username` | create and edit a user | violated: `AdminHasUsername` |

The last four are disagreements between the code and what its texts say, quoted
in `PROJECT.json` under `findings`:

- *two_current*: nothing but a check several awaits before the INSERT keeps a user
  from having two current rows, so two overlapping subscribes give him two.
- *unpaid_confirm*: confirm saves the subscription and then the payment, with no
  transaction. If the second fails, the retry is refused with 409 because the
  first succeeded, and the payment is never recorded.
- *cancel_stuck*: cancel asks Stripe first. If the UPDATE is lost, every retry asks
  Stripe to cancel a cancelled subscription, is refused, and the row stays current.
- *null_username*: an update with an admin role and `username: null` checks the
  stored username (`dto.username ?? user.username`) and stores NULL.

Other behaviours the models contain and the properties are stated around: a
cancel that runs between the read and the write of a resume is overwritten; a
user created between the count and the delete of `removeRole` has a role that does
not exist; `updateRole` makes a role an administrator's without looking for
users without a username; a user deleted between the read and the `save` of an
update is inserted again; `replaceRolePermissions` writes back an old role name.
With two servers a rename can be lost: an instance that starts reads a role, another
renames it and its users, and the first `save`s the row as it read it, with the old
name, so that the users have a role that does not exist. A synchronisation beside
`updateRole` or `replaceRolePermissions` on another instance may leave a seed as the admin
wrote it. And `removeRole` and `createRole` beside an edit of a user can hand the name the
edit has checked to a new role that is an administrator's.
A plan created after `seed-products` has looked for the plans of its name is left
without the products until the next run.
An upload whose save fails after the old file was deleted leaves the row naming a
file that is gone, and so does an edit of a user that read the row before an
upload and saves it after; two changes of a plan's products beside each other
lose one of them; a plan that is removed beside one of them is inserted again.
The pushes of two overlapping changes of a shipment may leave in the other order
than their writes, and a status PATCH stores in lower case is announced in upper
case and ranked last by the dashboard: a PENDING shipment then shadows a 'packed' one,
which the comment at `subscriptions.service.ts:255` means to prevent.
Confirm looks at the price and the status of the Stripe subscription it is sent and not
at its customer, so a second user who confirms it has a row it pays for as well.
A user who registers before the roles are seeded, or after an admin has renamed
'Subscriber' (`updateRole` refuses no system role), has a role that does not exist. Two
overlapping edits of a user, one to an administrator's role and one of the username
to null, each pass the check and leave an administrator without a username.
Instances that start together on a database without the migrations may apply them at
once, since `NestFactory.create` takes no lock; the lock of `server.ts` comes after it. A
default plan that an admin renames is inserted again by the next seeding, and renaming
it back gives two of them.
Two registrations of one number that pass the check together both succeed, and login
then finds either; an admin's create or edit stores a number as it was typed, so that a
login, which looks for the +855 form, does not find it. An e-mail that an admin takes
from one user and another one registers leads both to one Stripe customer. Two
checkouts of one e-mail create two customers, the older of which is never found again;
a checkout that fails after Stripe has created the subscription leaves it there.
Two plans of a box whose days fall into one cycle (30 and 60) are charged the same Stripe
price whatever their own prices are; `billingCycle=monthly` lists the weekly plans and the
summary counts plans of 32 to 359 days as monthly; `GET subscription-plans/products` is behind
`GET :id` and never reached; the search of plans names a column that does not exist.
This is why `NamedFileExists` is stated for uploads that overlap only uploads and
without failures, why `CatalogueContract` is checked for one admin at a time (profile
uploads overlap him), why `RowsAgreeWithStripe` is about the rows of one user, why
`RoleOfUserExists`, `AdminHasUsername` and `SeedsRestored` say for which workloads they
hold (`RolesKept`, `SeedsUndisturbed`), why `SeedsAssigned` is about the plans a seeding
found, and why `LastPushTrue` leaves out the shipments whose changes overlapped.

### Bounds

Rows, Stripe subscriptions, failures and instances are bounded by `MaxSubs`,
`MaxStripe`, `MaxShips`, `MaxFails`, `MaxRoles`, `MaxFaults`; every bound is a guard, and a
workload that has used up its ids comes to an end (hence `CHECK_DEADLOCK FALSE`
where it does). Two rows of a user are what a violation of `AtMostOneCurrent`
needs, and with two Stripe subscriptions they are a cancel followed by a new
subscription and a repeated confirm of the old one, or rows of two users that name the
same one (more of either is left to the theorems); one failure separates the
halves of any handler, two also hit its retry. Two overlapping requests are a
pair that disagrees about a row; `overlap` leaves out pause and delete, which
neither give access nor set ACTIVE, to stay small. Two seeds are the one that is
always reset (Admin) and one that is not (in `Catalogue`, one that is there and one
that a failed run did not insert), five role ids are both seeds, a role of
the admin's own and the inserts lost to a race. Three files are an
old one and one of each of two overlapping uploads. Two plans of
the seeds' name are the one a request names and the one it must leave alone, and two
stops of a seeding; two products are both seeds, or one of them beside another
(`PlanSymmetry`: the slots and the plans are interchangeable). Two shipments are one that
was there and one the dashboard or an admin adds. Three instances at boot are a
holder of the lock, one that waits for it and one that does not migrate; two faults are
a failed attempt and a failure of its retry. Two default
plans are one before and one behind the place where a seeding is cut short, and five
plan ids are both of them from two seedings at once beside a row that was there
(`Room` keeps ids for every seeding under way). In `Checkout` two customers and two
subscriptions are the least that can be told apart or mixed up, three users and three
e-mails are the two of a clash and the default admin. The workloads of `boot`,
`access` and `checkout` split the operations between them, because all at once is out of
TLC's reach; each hazard's actors are together in one of them. Slots and
users are interchangeable, which the symmetry sets of the safety runs use.

### Fairness

- `SubscriptionLifecycle`: weak fairness of `Continue(r)`. A handler whose calls
  return is resumed by the event loop; a call that never returns is a failure.
  Arrivals are not fair: that a subscriber repeats a request (`Insists`) or opens
  the dashboard (`OpensDashboard`) is a premise inside the properties that need it,
  with strong fairness because another of his requests may hold the only slot
  now and then.
- `AccessControl`: weak fairness of the steps of `syncDefaults`, and of
  `EnsureDefaults`: `DefaultsSettle` is about an instance that still gets requests.
- `ServerBootstrap`: weak fairness of what the event loop and PostgreSQL owe (`Run`, the
  awaits of an attempt, which is at one at a time; the timer; the shutdown), the
  grant of the advisory lock included: the bounded number of faults and the fact
  that no instance takes the lock twice in one attempt make weak fairness enough.
  Signals, crashes and faults are not fair.
- `PlanServer`: the same for its instances, and weak fairness of `SeedContinue(r)`. That
  an admin asks for the seeding again is a premise inside `SeedingCompletes`, with
  strong fairness because instances come and go, and so is that some instance stays up.
- `Checkout`: weak fairness of `Continue(c)` and `AccountsContinue(r)`, the handlers;
  nothing is assumed of Stripe, which may never prepare a secret. `AdminSeeded` has
  as premises that the seeding is asked for again and that users stop being removed.

## 4. What is proved

For every value of the constants, from the assumptions the modules state
(`ConstantsAssumption`, `AccessAssumption`, `EditsAssumption`, `ServerAssumption`, `CatalogueAssumption`,
`ShipmentsAssumption`, `AccountsAssumption`, `CheckoutAssumption`, `StorefrontAssumption`,
`PlanAssumption`):

| Theorem | States | Argument |
|---|---|---|
| `TypeCorrect` (`SubscriptionLifecycle_proofs`) | `Spec => []TypeOK` | `TypeOK` is inductive once it says which locals a handler has filled in at which step (`Filled`); one step per action |
| `PaidBeforeAccess` (same module) | `Spec => []ConfirmedWasPaid` | The invariant `PaidInv` adds that a confirm that has read an acceptable Stripe status still holds an id that was paid: Stripe's status leaves "incomplete" once and never returns, so what was read before the awaits remains true after them |
| `PaidOnce` (same module) | `Spec => []OnePaymentPerConfirm` | `RecordInv`: a confirm that has saved its row and not yet its payment owes that row one; the row has none, and is no other confirm's |
| `ShippedOnceActive` (same module) | `Spec => []ActiveHasShipment` | `TendedInv`: while nothing has failed, an ACTIVE row without a shipment has a request that will give it one |
| `RowIsCharged` (same module) | if no admin gives a row another plan (`PlansKept`): `Spec => []RowMatchesCharge`, about the price alone | `ChargeInv`: what a confirm compared before its awaits still holds at the save, because Stripe never moves a subscription to another price |
| `ApartOneCurrent` (`SubscriptionSerial_proofs`) | no admin, or one request at a time (`AdminApart`), and no subscriber with two requests in flight (`OwnTurn`): `Spec /\ []OwnTurn => []AtMostOneCurrent`, for any number of subscribers whose requests overlap | `SerialInv` = the rows are well formed, `AtMostOneCurrent`, and `StillTrue` of every slot: what the handler under way read is still so. `OthersKnow` is the step that needs `OwnTurn`: a handler writes rows of its own user only (`OwnRows`), so it leaves alone what the requests of other users know (`OthersCurrent`). `two_current` is what happens to a subscriber who overlaps himself |
| `ApartImplementsContract` (same module) | under the same premise: `Spec /\ []OwnTurn => ImplementsContract` | by `SerialInv` each write of a handler is a step of the contract, and every other step leaves the rows alone; a failure in between is a stutter |
| `ApartOneShipment` (same module) | under the same premise: `Spec /\ []OwnTurn => []SingleInitialShipment` | `OwnInv`: the rows a request looks after are its user's, so that two requests never save shipments of one row; `SingleInv`: that a row has no shipment, which `ShipFind` saw, is still so when one is saved |
| `ApartRowsAgree` (same module) | without an admin, under the same premise: `Spec /\ []OwnTurn => []RowsAgreeWithStripe` | `BillInv`: the row and Stripe differ only while a request is between the two writes, or after a failure there; of one user's rows each Stripe subscription backs one. `BillOthers`: a handler calls Stripe for a subscription a row of its own user names; if a row of another names it too it is `Shared` and stays so (`SharedStays`), and what the others have learnt of subscriptions that are not stays true |
| `SerialOneCurrent`, `SerialImplementsContract`, `SerialOneShipment` (same module) | one request at a time (`OneAtATime`), an admin's included: `Spec => []AtMostOneCurrent`, `Spec => ImplementsContract`, `Spec => []SingleInitialShipment` | by the same invariants: with one slot `OwnTurn` holds of every state, and there is no other request to disturb. `SerialRowsAgree` is the corollary of `ApartRowsAgree` |
| `MigrationsFirst` (`PlanServer_proofs`, about `ServerBootstrap`), `MigrationsComeFirst` (the same of `PlanServer`) | `ServerSpec => []MigratedBeforeServing`, `Spec => []MigratedBeforeServing` | `Recorded`: behind `create` and `upgrade` the migrations are recorded, and where instances have not crowded one at most is at `upgrade`, and only as long as nothing is recorded. The lock has no part in it: what takes it comes later |
| `TypeCorrect` (`Catalogue_proofs`) | `Spec => []TypeOK` | inductive as it stands; the counter over the seeds stays in range because `Got` starts it again |
| `HeldFileStays` (same module) | `Spec => []HeldFileExists`, whatever overlaps (no assumption on `Alone`) and fails | `HeldInv`: a file an upload holds is held by it alone, and what any row or any handler's copy names is no held file. Hence what `DeleteOld` deletes, an image some row named, is never a file that another upload is about to name. The invariant is needed because `HeldFileExists` says nothing about copies read long ago |
| `NamedFileStays` (same module) | if only uploads overlap (`WritersAlone`): `Spec => []NamedFileExists` | `OwnInv`: no image is claimed by two rows; `NamedInv`: the image a row names is there, or an upload of that row is at its last step. Uploads of the same row may overlap: the last to save wins, and deletes what it read |
| `OrphansCostFailures` (same module) | if the uploads of plans do not overlap (`PlansApart`): `Spec => []OneOrphanPerFailure` | counting: the files of a folder that no row and no request will name (`Left`) never outnumber the failures; sets are compared by cardinality |
| `SeedsComplete` (same module) | if seed-products runs alone (`SeedAlone`): `Spec => SeedsAssigned` | `SeedInv`: nobody else is under way beside a seeding, its list has a product of each seed it is done with, the plans it has yet to save are as it read them, those it has saved have the list; `JoinInv`: products in the join table exist, so that the foreign key refuses none of its saves |
| `PlansImplementContract` (same module) | if the changes of plans do not overlap (`PlansApart`): `Spec => ImplementsContract` | `ListInv`: which request a handler answers at which step, and that its copy is the row it names changed by exactly the products it was sent (`Changes`). Hence a save is the `Add` or `Take` of that request and nothing else; `DropProduct`, `CreateProduct`, `InsertSku` and `Assign` are the steps of those kinds, for which `JoinInv` and `SeedInv` say that the products are there; a removed plan gives up its list; a request that is refused or fails changes no list (`RefuseMaps`), and the profile uploads beside it are stutters |
| `TypeCorrect` (`AccessControl_proofs`) | `Spec => []TypeOK` | with what a handler or a synchronisation has filled in at each await (`Filled`) |
| `SeedsCorrect` (same module) | `Spec => SeedsRestored`, for any number of instances, seeds, failures and restarts | `ClaimInv`: where roles are not renamed, everyone who has read, or is about to insert, the role of an id agrees on its name, so that no `save` gives a seed's row away; `FoundInv`: the same of a single server, which synchronises before it serves; `FlagInv`: a seed's row keeps its flags and is not removed; `SyncInv`: the seeds an instance is done with stay restored until it is done with all |
| `RoleOfUserCorrect` (same module) | `Spec => []RoleOfUserExists` | `RoleInv`: besides users, a request that has checked a role relies on it (`Relies`) up to its write, and a request that is about to rename or remove a role has seen to its users; a role is `Known` if it exists or is the one registration writes. That the latter exists too once an instance has synchronised, where roles are not renamed, is `SeedInv` |
| `AdminsNamed` (same module) | if no edit gives a role and clears the username (`NoNullBesideRole`): `Spec => []AdminHasUsername`, for users whom no two requests changed at once | `FitInv`: what a request is about to write `Suits` the roles there are: a row whose role is an administrator's has a username, a `save` writes the columns that differ from what it selected (`Agrees`), and a role that is saved keeps its flag. `RacedInv`: requests that meet at a user are noted, so that nobody else's columns change between the two halves. `null_username` shows the hypothesis is needed |
| `TypeCorrect` (`Shipments_proofs`) | `Spec => []TypeOK` | with `Busy`: a handler that is about to push has a status that is announced |
| `Announced` (same module) | `Spec => []EveryStatusAnnounced`, for any number of overlapping requests | `AnnounceInv`: the status of every row is `Owed` (announced, or a request that has written will announce it), and so is a status that a request will write without a word, because the row had it when the request read it. The second half is what makes the race of two reads harmless |
| `LastPushStaysTrue` (same module) | `Spec => []LastPushTrue`, for any number of requests | `Sole`: a shipment that was not raced has one request; `Knows`: what that request read is still so; `LastRight`: the last message is right, or the request that makes it so is under way (`Pending`). |
| `AttemptsBounded` (`PlanServer_proofs`, about `ServerBootstrap`) | `ServerSpec => [](ServerTypeOK /\ Tries)` | `Tries`: attempts are at most the failures and one, at most the failures where another attempt may begin; an exception is on its way only at the awaits of the `finally` blocks |
| `TypeCorrect` (`PlanServer_proofs`) | `Spec => []TypeOK` | every step of the composition is a step of `ServerBootstrap`, a stutter of it, or a seeding's failure, which only counts a fault |
| `NoTwins` (same module) | `Spec => []TwinsOverlapped`, of rows whose name and days no admin has sent since (`by`) | `TwinInv`: while seedings have not overlapped there is one at most, and what it is about to insert is not there: nobody else gives a row the seeding's name and days without taking it from the seeding |
| `SeedingIsComplete` (same module) | `Spec => SeedingDelivers`, for any default plans and any table | `AloneInv`: an undisturbed seeding is the only one, the default plans before the one it is at are in the table, and the row it is about to reprice is still the one it found. That default plans differ in name or days keeps its writes from undoing each other |
| `ReadsAlwaysAgree` (same module) | `Spec => []ReadsAgree` | the five functions split the natural numbers alike (`Cycles`), weekly and yearly plans never meet (cardinalities), and the first shown box exists (`LeastIndex`, by the well-foundedness of finite subsets) |
| `TypeCorrect` (`Checkout_proofs`) | `Spec => []TypeOK` | with the locals of each step (`Filled`, and the same for the handlers of `Accounts`) |
| `OneCustomer` (same module) | `Spec => []OneCustomerPerEmail` | `CustomerInv`: a checkout about to create a customer found none for its e-mail, and there still is none unless another looked at the same time |
| `OnePhone` (same module) | `Spec => []PhoneOfOneSubscriber` | `PhoneInv`: a registration under way has the number to itself, or the number is in `raced` |
| `CustomerHasOneUser` (same module) | `Spec => []CustomerOfOneUser` | `MailInv`: an e-mail has one user, and one in a token is still that user's or in `freed`; `OwnerInv`: every slot and every Stripe subscription stands for a token that carries its customer's e-mail |
| `OrphanCosts` (same module) | `Spec => []OrphansAreFailures` | counting: a step that makes a subscription `Untold` counts a fault that is not `early`; sets are compared by cardinality |
| `AnswersAreFinal` (same module) | `Spec => []AnsweredFinal` | `FinalInv`: without a failure a slot comes to its answer without a secret only with an open invoice, at every exit of the loop, and an open invoice stays open |
| `Refinement` (same module) | `Spec => ImplementsLifecycle` | `SeenSlot` and `SeenObject`: until the subscription exists a slot is one that has checked; creating it is `CheckoutCreate`, a failure before it is a failure there, everything after it and everything `Accounts` does is a stutter |

`TypeOK` of `Catalogue`, `Shipments` and `Checkout` is proved and not in their runs.
Every invariant, action property and refinement that a passing run checks is stated by
a theorem above. Only model-checked is liveness under fairness, which is out of the
provers' reach: `PauseSucceeds`, `ShipmentRepaired`, `EventuallyReady`, `ShutdownEnds`,
`SeedingCompletes`, `DefaultsSettle`, `AdminSeeded` and `CheckoutEnds`.

`OneAtATime`, `OwnTurn`, `NoAdmin`, `AdminApart`, `PlansKept`, `WritersAlone`, `PlansApart`, `SeedAlone` and
`NoNullBesideRole` restrict the workload and are hypotheses of the theorems that name
them, not claims about the deployment; `RolesKept` and `SeedsUndisturbed` do the same
inside the properties. The configurations of the runs that check their properties
satisfy them; `two_current` shows what an overlap does to `AtMostOneCurrent`, and
`null_username` what an edit does that clears the username.

## 5. Not modelled

- *Stripe webhooks*: the handler is commented out. What Stripe does meanwhile is
  in `SubscriptionLifecycle`, and the rows never hear of it.
- *Payments, coupons, inventory, addresses*: the admin's CRUD writes one row and has no
  rule but that the row exists; nothing else reads coupons or inventory. The one
  payment the service itself writes is confirm's.
- *Reports and the lists of the other modules*: aggregates over the tables, and no
  state but the CRUD of report rows.
- *Seeders and migrations*: scripts and SQL that a tool runs in a transaction.
- *Notifications other than a shipment's*: the order-success and test pushes,
  which no other state follows.
- *The configuration modules* `app.module.ts` does not import, and the entry points
  other than `server.ts`.
- *Cryptography and parsing*: password hashes, the signature and the expiry of tokens,
  validation of DTOs: what is refused there reaches no handler.

Within the modelled parts, what would come next: the contract of `SubscriptionLifecycle`
for subscribers who overlap an admin that writes rows of others, and the seeding of
roles beside edits on another instance, of which only the loss is known.
