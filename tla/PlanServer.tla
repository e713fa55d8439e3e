------------------------------ MODULE PlanServer ------------------------------
(***************************************************************************)
(* Instances that boot, stop and die (ServerBootstrap) and serve the       *)
(* admin's requests about plans: SubscriptionPlansService on the table     *)
(* subscription_plans. seedDefaultPlans goes through the default plans     *)
(* with two awaits for each, and may be sent to two instances at once or   *)
(* be cut short by the end of its instance. The storefront and the admin's *)
(* list (Storefront) are functions of the table.                           *)
(*                                                                         *)
(* create, update and remove change the table in one statement; what they  *)
(* read before only refuses a plan that is not there.                      *)
(***************************************************************************)
EXTENDS ServerBootstrap, Storefront

CONSTANTS
    PlanIds,   \* ids of plans
    Defaults,  \* defaultPlans: name, days and price, in order
    Additions, \* what admins create: name, days and price
    Changes,   \* the UpdateSubscriptionPlanDtos they send, None where a field is not sent
    Seeders,   \* request slots of seed-defaults
    Workloads  \* the mixes considered: instances, ops, request slots, the tables and the
               \* schema to begin with, and the bounds for faults and ids of plans

Prices == {Defaults[k].price : k \in 1 .. Len(Defaults)} \union {p.price : p \in Additions}
          \union ({dto.price : dto \in Changes} \ {None})
Days   == {Defaults[k].days : k \in 1 .. Len(Defaults)} \union {p.days : p \in Additions}
          \union ({dto.days : dto \in Changes} \ {None})
Boxes  == {Defaults[k].name : k \in 1 .. Len(Defaults)} \union {p.name : p \in Additions}
          \union ({dto.name : dto \in Changes} \ {None})
Plans  == [name : Boxes, days : Days, price : Prices]

\* by: "seed" if a seeding wrote the name and the days of a row, and no admin has sent
\* either since.
PlanRows == [is : {"unused", "stored", "deleted"}, name : Boxes \union {None},
             days : Days \union {None}, price : Prices \union {None}, by : {"seed", "admin"}]
NoPlan   == [is |-> "unused", name |-> None, days |-> None, price |-> None, by |-> "admin"]

\* The columns of a stored row are NOT NULL.
Whole(row) == row.is = "stored" => row.name # None /\ row.days # None /\ row.price # None

\* No two default plans have the same name and days, and no table begins with a row
\* that a seeding has written.
ASSUME PlanAssumption ==
    /\ IsFiniteSet(PlanIds) /\ None \notin PlanIds
    /\ None \notin Boxes /\ None \notin Days /\ None \notin Prices
    /\ Len(Defaults) > 0 /\ Defaults \in Seq(Plans) /\ Days \subseteq Nat
    /\ \A j, k \in 1 .. Len(Defaults) :
           Defaults[j].name = Defaults[k].name /\ Defaults[j].days = Defaults[k].days => j = k
    /\ Additions \subseteq Plans
    /\ Changes \subseteq [name : Boxes \union {None}, days : Days \union {None},
                          price : Prices \union {None}]
    /\ \A w \in Workloads : /\ w.instances \subseteq Instances
                            /\ w.seeders \subseteq Seeders
                            /\ w.tables \subseteq [PlanIds -> PlanRows]
                            /\ \A t \in w.tables : \A b \in PlanIds :
                                   Whole(t[b]) /\ t[b].by = "admin"
                            /\ w.faults \in 0 .. MaxFaults /\ w.ids \subseteq PlanIds

VARIABLES
    table,  \* subscription_plans: id -> row
    seeder, \* request slot -> where its seedDefaultPlans is, and its local variables
    lapped, \* history: two seedings have been under way at once
    load    \* the workload

plan == <<table, seeder, lapped, load>>
vars == <<server, plan>>

-----------------------------------------------------------------------------

\* alone: nobody else has written plans since it began.
Locals   == [pc : {"idle", "find", "reprice", "insert"}, at : Instances \union {None},
             k : 1 .. Len(Defaults), plan : PlanIds \union {None}, alone : BOOLEAN]
NoSeeder == [pc |-> "idle", at |-> None, k |-> 1, plan |-> None, alone |-> TRUE]

PlanTypeOK ==
    /\ table \in [PlanIds -> PlanRows]
    /\ \A b \in PlanIds : Whole(table[b])
    /\ seeder \in [Seeders -> Locals]
    /\ \A r \in Seeders : /\ seeder[r].pc # "idle" => seeder[r].at \in Instances
                          /\ seeder[r].pc = "reprice" => seeder[r].plan \in PlanIds
    /\ lapped \in BOOLEAN
    /\ load \in Workloads

TypeOK == ServerTypeOK /\ PlanTypeOK

Init ==
    /\ ServerInit
    /\ load \in Workloads
    /\ schema = load.schema
    /\ table \in load.tables
    /\ seeder = [r \in Seeders |-> NoSeeder]
    /\ lapped = FALSE

Serving(i) == ready[i] /\ life[i] = "up"
Running    == {r \in Seeders : seeder[r].pc # "idle"}
Disturb(f) == [r \in Seeders |-> IF f[r].pc = "idle" THEN f[r] ELSE [f[r] EXCEPT !.alone = FALSE]]
Unused     == {b \in load.ids : table[b].is = "unused"}
Put(b, row) == table' = [table EXCEPT ![b] = row]

\* Bound: every seeding under way finds an id for each default plan, and n more.
Room(n) == Cardinality(Unused) >= Len(Defaults) * Cardinality(Running) + n

\* An INSERT; which of the unused ids it takes does not matter.
Add(p, by) ==
    /\ Unused # {}
    /\ Put(CHOOSE b \in Unused : TRUE,
           [is |-> "stored", name |-> p.name, days |-> p.days, price |-> p.price, by |-> by])

\* An admin's write of any row.
AdminWrites(op) ==
    /\ op \in load.ops /\ \E i \in Instances : Serving(i)
    /\ seeder' = Disturb(seeder)
    /\ UNCHANGED <<server, lapped, load>>

CreatePlan(p) ==
    /\ AdminWrites("create") /\ Room(1)
    /\ Add(p, "admin")

OrElse(sent, stored) == IF sent = None THEN stored ELSE sent

UpdatePlan(b, dto) ==
    /\ AdminWrites("update")
    /\ table[b].is = "stored"
    /\ Put(b, [table[b] EXCEPT
                  !.name  = OrElse(dto.name, @),
                  !.days  = OrElse(dto.days, @),
                  !.price = OrElse(dto.price, @),
                  !.by    = IF dto.name = None /\ dto.days = None THEN @ ELSE "admin"])

RemovePlan(b) ==
    /\ AdminWrites("remove")
    /\ table[b].is = "stored"
    /\ Put(b, [NoPlan EXCEPT !.is = "deleted"])

-----------------------------------------------------------------------------
(* seedDefaultPlans.                                                        *)

Same(p)  == {b \in PlanIds : /\ table[b].is = "stored"
                             /\ table[b].name = p.name /\ table[b].days = p.days}
Seed(r)  == Defaults[seeder[r].k]
Step(r, locals) == seeder' = [seeder EXCEPT ![r] = locals]

\* Mutant: the loop looks at the same plan again.
BugOnward(r) == Step(r, [seeder[r] EXCEPT !.pc = "find", !.plan = None])

\* On to the next default plan, or to the answer.
Onward(r) == Step(r, IF seeder[r].k = Len(Defaults) THEN NoSeeder
                     ELSE [seeder[r] EXCEPT !.pc = "find", !.k = @ + 1, !.plan = None])

\* The server hands a request to the application only when it is ready.
SeedStart(r, i) ==
    /\ "seed" \in load.ops /\ r \in load.seeders /\ seeder[r].pc = "idle" /\ Serving(i)
    /\ Room(Len(Defaults))
    /\ seeder' = [Disturb(seeder) EXCEPT ![r] =
                     [NoSeeder EXCEPT !.pc = "find", !.at = i, !.alone = Running = {}]]
    /\ lapped' = (lapped \/ Running # {})
    /\ UNCHANGED <<server, table, load>>

\* Mutant: the plan is looked up by name.
BugSeedFind(r) ==
    LET named == {b \in PlanIds : table[b].is = "stored" /\ table[b].name = Seed(r).name}
    IN  /\ seeder[r].pc = "find"
        /\ \/ /\ named = {}
              /\ Step(r, [seeder[r] EXCEPT !.pc = "insert"])
           \/ \E b \in named :
                 IF table[b].price = Seed(r).price THEN Onward(r)
                 ELSE Step(r, [seeder[r] EXCEPT !.pc = "reprice", !.plan = b])
        /\ UNCHANGED <<server, table, lapped, load>>

\* Mutant: a plan that was found is inserted, too.
BugSeedFindInserts(r) ==
    /\ seeder[r].pc = "find"
    /\ Step(r, [seeder[r] EXCEPT !.pc = "insert"])
    /\ UNCHANGED <<server, table, lapped, load>>

\* findOne by name and days; of several rows it may be any.
SeedFind(r) ==
    /\ seeder[r].pc = "find"
    /\ \/ /\ Same(Seed(r)) = {}
          /\ Step(r, [seeder[r] EXCEPT !.pc = "insert"])
       \/ \E b \in Same(Seed(r)) :
             IF table[b].price = Seed(r).price THEN Onward(r)
             ELSE Step(r, [seeder[r] EXCEPT !.pc = "reprice", !.plan = b])
    /\ UNCHANGED <<server, table, lapped, load>>

\* update of the price, which does nothing if the row is gone.
SeedReprice(r) ==
    /\ seeder[r].pc = "reprice"
    /\ IF table[seeder[r].plan].is = "stored"
       THEN Put(seeder[r].plan, [table[seeder[r].plan] EXCEPT !.price = Seed(r).price])
       ELSE UNCHANGED table
    /\ Onward(r)
    /\ UNCHANGED <<server, lapped, load>>

\* save of a new row; PlanIds is a bound.
SeedInsert(r) ==
    /\ seeder[r].pc = "insert"
    /\ Add(Seed(r), "seed")
    /\ Onward(r)
    /\ UNCHANGED <<server, lapped, load>>

SeedContinue(r) == SeedFind(r) \/ SeedReprice(r) \/ SeedInsert(r)

\* A query fails: the request is answered with an error.
SeedThrows(r) ==
    /\ seeder[r].pc # "idle" /\ faults < load.faults
    /\ faults' = faults + 1
    /\ Step(r, NoSeeder)
    /\ UNCHANGED <<boot, thrown, ready, failed, attempts, timer, life, lock, applied>>
    /\ UNCHANGED <<table, lapped, load>>

-----------------------------------------------------------------------------
(* The instances. The requests of an instance end with its process, and     *)
(* server.close calls back when none is left.                               *)

Served(i) == {r \in Running : seeder[r].at = i}

Work(i) == Listen(i) \/ TimerFires(i) \/ Run(i) \/ AwaitThrows(i) \/ Signal(i)

Close(i) == Served(i) = {} /\ ServerClosed(i) /\ UNCHANGED seeder

Die(i) == /\ AppClosed(i) \/ Crash(i)
          /\ seeder' = [r \in Seeders |-> IF r \in Served(i) THEN NoSeeder ELSE seeder[r]]

InstanceStep(i) ==
    /\ i \in load.instances
    /\ (Work(i) /\ UNCHANGED seeder) \/ Close(i) \/ Die(i)
    /\ faults' <= load.faults
    /\ UNCHANGED <<table, lapped, load>>

-----------------------------------------------------------------------------

Next ==
    \/ \E i \in Instances : InstanceStep(i)
    \/ \E p \in Additions : CreatePlan(p)
    \/ \E b \in PlanIds : RemovePlan(b) \/ \E dto \in Changes : UpdatePlan(b, dto)
    \/ \E r \in Seeders : SeedContinue(r) \/ SeedThrows(r) \/ \E i \in Instances : SeedStart(r, i)

Spec == Init /\ [][Next]_vars

\* The event loop runs what is due, PostgreSQL answers, clients hang up.
FairSpec ==
    /\ Spec
    /\ \A i \in Instances :
        /\ WF_vars(Listen(i) /\ InstanceStep(i)) /\ WF_vars(TimerFires(i) /\ InstanceStep(i))
        /\ WF_vars(Run(i) /\ InstanceStep(i))
        /\ WF_vars(ServerClosed(i) /\ InstanceStep(i)) /\ WF_vars(AppClosed(i) /\ InstanceStep(i))
    /\ \A r \in Seeders : WF_vars(SeedContinue(r))

-----------------------------------------------------------------------------
(* Properties. *)

\* Nothing in the database keeps two plans of a name and cadence apart. Seedings that
\* fail, are killed and are repeated make no two such plans, unless two of them ran at
\* once; an admin can, who creates one, or renames one and after another seeding renames
\* it back.
TwinsOverlapped ==
    \A b, c \in Stored(table) :
        /\ b # c /\ table[b].by = "seed" /\ table[c].by = "seed"
        /\ table[b].name = table[c].name /\ table[b].days = table[c].days
        => lapped

\* A seeding that nobody disturbs leaves every default plan in the table with its
\* price, whatever was there before.
Delivers ==
    \A r \in Seeders :
        /\ seeder[r].pc # "idle" /\ seeder[r].alone /\ seeder'[r].pc = "idle"
        /\ faults' = faults /\ life' = life
        => \A k \in 1 .. Len(Defaults) :
              \E b \in PlanIds : /\ table'[b].is = "stored"
                                 /\ table'[b].name = Defaults[k].name
                                 /\ table'[b].days = Defaults[k].days
                                 /\ table'[b].price = Defaults[k].price

SeedingDelivers == [][Delivers]_vars

\* A seeding that is asked for again and again succeeds, once an instance stays up:
\* over failed attempts to boot, restarts and queries that throw.
SeedingCompletes ==
    /\ \A r \in Seeders : SF_vars(\E i \in Instances : SeedStart(r, i))
    /\ <>[](\E i \in Instances : life[i] = "up")
    => (load.ops = {"seed"} ~> \A k \in 1 .. Len(Defaults) : Same(Defaults[k]) # {})

\* The app's storefront, the history of shipments and Stripe agree on what a cycle
\* is: two plans of a box look the same if and only if one Stripe price pays both.
ChargedAsShown ==
    \A b, c \in Stored(table) :
        /\ FrequencyLabel(table[b].days) = FrequencyLabel(table[c].days)
             <=> CycleKey(table[b].days) = CycleKey(table[c].days)
        /\ ShipmentPeriodLabel(table[b].days) = PeriodLabel(table[c].days)
             <=> BillingFrequency(table[b].days) = BillingFrequency(table[c].days)
        /\ table[b].name = table[c].name =>
             (Option(table[b]).period = Option(table[c]).period
                <=> PriceKey(table[b]) = PriceKey(table[c]))

\* The summary of the admin's list adds up and agrees with the filters for weekly
\* and yearly plans, which never meet.
SummaryAddsUp ==
    LET s == Summary(table)
    IN  /\ s.weekly + s.monthly + s.yearly = s.total
        /\ s.monthly >= 0 /\ s.boxes <= s.total
        /\ s.weekly = Cardinality(Listed(table, "weekly"))
        /\ s.yearly = Cardinality(Listed(table, "yearly"))

\* A box of the storefront is shown with the price and period of one of its options:
\* a monthly one if there is one, and a yearly one only if there is no other. One
\* box is featured, if any is shown.
StorefrontHeadline ==
    /\ \A k \in Shown(table) : \A b \in Representatives(table, Presets[k]) :
          LET item == Item(table, Presets[k], b)
          IN  /\ \E o \in item.options : o.price = item.price /\ o.period = item.period
              /\ (\E c \in Group(table, Presets[k]) : table[c].days \in 28 .. 31)
                    => item.period = "/mo"
              /\ item.period = "/yr" => \A o \in item.options : o.period = "/yr"
    /\ Shown(table) # {} =>
          Cardinality({k \in Shown(table) : Presets[k] = FeaturedName(table)}) = 1

\* What Stripe charges, what the app shows and what the admin's list counts agree for
\* every table the requests leave behind: the three together.
ReadsAgree == ChargedAsShown /\ SummaryAddsUp /\ StorefrontHeadline

=============================================================================
