--------------------------- MODULE ServerBootstrap ---------------------------
(***************************************************************************)
(* The start and the end of an instance (server.ts): the HTTP server       *)
(* listens at once and the Nest application is bootstrapped behind it,     *)
(* with retries, while other instances do the same with the same database. *)
(* The migrations run twice over: NestFactory.create runs those that are   *)
(* pending (migrationsRun: true) on every instance, and an instance whose  *)
(* DB_MIGRATIONS is 'true' runs them again behind an advisory lock.        *)
(***************************************************************************)
EXTENDS Naturals

CONSTANTS
    Instances,    \* the instances that share the database
    Migrating,    \* those of them whose DB_MIGRATIONS is 'true'
    MaxFaults,    \* bound: calls that fail (database down, migration refused)
    None

ASSUME ServerAssumption ==
    /\ Migrating \subseteq Instances
    /\ MaxFaults \in Nat
    /\ None \notin Instances

VARIABLES
    boot,       \* where bootstrapNestApp of an instance is
    thrown,     \* an exception is on its way through the finally blocks
    ready,      \* nestReady, set together with nestApp
    failed,     \* bootstrapError # null
    attempts,   \* bootstrapAttempts
    timer,      \* bootstrapRetryTimer # null
    life,       \* "new", "up", "stopping" (server.close called), "closing", "exited"
    lock,       \* who holds the advisory lock SCHEMA_MIGRATION_LOCK_KEY
    schema,     \* table migrations: how often the migrations are recorded in it
    crowded,    \* history: two instances have applied pending migrations at once
    faults

applied == <<schema, crowded>>
server  == <<boot, thrown, ready, failed, attempts, timer, life, lock, applied, faults>>

\* The awaits of bootstrapNestApp and runRuntimeMigrationsIfEnabled. "create" and
\* "upgrade" are both NestFactory.create: reading the migrations, applying them.
Awaits == {"create", "upgrade", "init", "connect", "lock", "migrate", "unlock", "destroy"}

ServerTypeOK ==
    /\ boot \in [Instances -> Awaits \union {"idle"}]
    /\ thrown \in [Instances -> BOOLEAN]
    /\ ready \in [Instances -> BOOLEAN]
    /\ failed \in [Instances -> BOOLEAN]
    /\ attempts \in [Instances -> 0 .. MaxFaults + 1]
    /\ timer \in [Instances -> BOOLEAN]
    /\ life \in [Instances -> {"new", "up", "stopping", "closing", "exited"}]
    /\ lock \in Instances \union {None}
    /\ schema \in Nat
    /\ crowded \in BOOLEAN
    /\ faults \in 0 .. MaxFaults

ServerInit ==
    /\ boot = [i \in Instances |-> "idle"]
    /\ thrown = [i \in Instances |-> FALSE]
    /\ ready = [i \in Instances |-> FALSE]
    /\ failed = [i \in Instances |-> FALSE]
    /\ attempts = [i \in Instances |-> 0]
    /\ timer = [i \in Instances |-> FALSE]
    /\ life = [i \in Instances |-> "new"]
    /\ lock = None
    /\ schema \in {0, 1}
    /\ crowded = FALSE
    /\ faults = 0

Set(f, i, x) == [f EXCEPT ![i] = x]
Alive(i) == life[i] # "exited"

-----------------------------------------------------------------------------
(* bootstrapNestApp.                                                        *)

\* bootstrapInFlight is "boot is not idle". Nothing ever awaits between the catch
\* block that arms the timer and the finally block that clears the flag.
Bootstrap(i) ==
    IF boot[i] # "idle" \/ ready[i]
    THEN UNCHANGED <<boot, failed, attempts>>
    ELSE /\ boot' = Set(boot, i, "create")
         /\ attempts' = Set(attempts, i, attempts[i] + 1)
         /\ failed' = Set(failed, i, FALSE)

Listen(i) ==
    /\ life[i] = "new"
    /\ life' = Set(life, i, "up")
    /\ Bootstrap(i)
    /\ UNCHANGED <<thrown, ready, timer, lock, applied, faults>>

\* scheduleBootstrapRetry's callback.
TimerFires(i) ==
    /\ Alive(i) /\ timer[i]
    /\ timer' = Set(timer, i, FALSE)
    /\ Bootstrap(i)
    /\ UNCHANGED <<thrown, ready, life, lock, applied, faults>>

\* The end of the try block.
Succeed(i) ==
    /\ boot' = Set(boot, i, "idle")
    /\ ready' = Set(ready, i, TRUE)
    /\ attempts' = Set(attempts, i, 0)
    /\ timer' = Set(timer, i, FALSE)
    /\ UNCHANGED <<thrown, failed>>

\* Mutant: a failed attempt is counted again when it fails.
BugGiveUp(i) ==
    /\ boot' = Set(boot, i, "idle")
    /\ ready' = Set(ready, i, FALSE)
    /\ failed' = Set(failed, i, TRUE)
    /\ timer' = Set(timer, i, TRUE)
    /\ thrown' = Set(thrown, i, FALSE)
    /\ attempts' = Set(attempts, i, attempts[i] + 1)

\* The catch and finally blocks, scheduleBootstrapRetry included.
GiveUp(i) ==
    /\ boot' = Set(boot, i, "idle")
    /\ ready' = Set(ready, i, FALSE)
    /\ failed' = Set(failed, i, TRUE)
    /\ timer' = Set(timer, i, TRUE)
    /\ thrown' = Set(thrown, i, FALSE)
    /\ UNCHANGED attempts

Goto(i, step) ==
    /\ boot' = Set(boot, i, step)
    /\ UNCHANGED <<ready, failed, attempts, timer>>

\* Mutant: migrationsRun is false, as in the configurations that are not imported.
BugCreateReads(i) ==
    /\ Alive(i) /\ boot[i] = "create"
    /\ Goto(i, "init")
    /\ UNCHANGED <<thrown, life, lock, applied, faults>>

\* NestFactory.create connects and reads which migrations are recorded. It takes no
\* lock, so another instance may be applying them meanwhile.
CreateReads(i) ==
    /\ Alive(i) /\ boot[i] = "create"
    /\ Goto(i, IF schema = 0 THEN "upgrade" ELSE "init")
    /\ crowded' = (crowded \/ (schema = 0 /\ \E j \in Instances \ {i} : boot[j] = "upgrade"))
    /\ UNCHANGED <<thrown, life, lock, schema, faults>>

\* The pending migrations and their records are one transaction. Each statement says
\* IF NOT EXISTS, so they go through a second time and are recorded a second time.
Upgrade(i) ==
    /\ Alive(i) /\ boot[i] = "upgrade"
    /\ schema' = schema + 1
    /\ Goto(i, "init")
    /\ UNCHANGED <<thrown, life, lock, crowded, faults>>

\* app.init(), then AppDataSource.initialize().
AwaitReturns(i) ==
    /\ Alive(i)
    /\ \/ boot[i] = "init" /\ i \in Migrating /\ Goto(i, "connect") /\ UNCHANGED thrown
       \/ boot[i] = "init" /\ i \notin Migrating /\ Succeed(i)
       \/ boot[i] = "connect" /\ Goto(i, "lock") /\ UNCHANGED thrown
    /\ UNCHANGED <<life, lock, applied, faults>>

\* pg_advisory_lock waits for the holder. The pool of AppDataSource has a single
\* session at this point, so lock, migrations and unlock use the same one.
TakeLock(i) ==
    /\ Alive(i) /\ boot[i] = "lock" /\ lock = None
    /\ lock' = i
    /\ Goto(i, "migrate")
    /\ UNCHANGED <<thrown, life, applied, faults>>

\* AppDataSource.runMigrations: the same list, applied if it is still pending.
Migrate(i) ==
    /\ Alive(i) /\ boot[i] = "migrate"
    /\ schema' = IF schema = 0 THEN 1 ELSE schema
    /\ Goto(i, "unlock")
    /\ UNCHANGED <<thrown, life, lock, crowded, faults>>

\* The inner finally, reached with or without an exception.
Unlock(i) ==
    /\ Alive(i) /\ boot[i] = "unlock"
    /\ lock' = None
    /\ Goto(i, "destroy")
    /\ UNCHANGED <<thrown, life, applied, faults>>

\* The outer finally: AppDataSource.destroy() closes its sessions; what was
\* thrown is thrown on.
Destroy(i) ==
    /\ Alive(i) /\ boot[i] = "destroy"
    /\ lock' = IF lock = i THEN None ELSE lock
    /\ IF thrown[i] THEN GiveUp(i) ELSE Succeed(i)
    /\ UNCHANGED <<life, applied, faults>>

\* Mutant: no retry is scheduled.
BugAwaitThrows(i) ==
    /\ Alive(i) /\ boot[i] # "idle"
    /\ faults < MaxFaults
    /\ faults' = faults + 1
    /\ boot' = Set(boot, i, "idle")
    /\ failed' = Set(failed, i, TRUE)
    /\ UNCHANGED <<thrown, ready, attempts, timer, life, lock, applied>>

\* An awaited call throws; a transaction it was in is rolled back. TypeOrmModule tries
\* the database again before NestFactory.create throws (retryAttempts). Only behind
\* initialize() are there finally blocks to go through, and pg_advisory_unlock may
\* itself throw. destroy() is not among them: it ends a pool of this attempt's own,
\* which throws only when a pool is ended twice.
AwaitThrows(i) ==
    /\ Alive(i)
    /\ faults < MaxFaults
    /\ faults' = faults + 1
    /\ \/ /\ boot[i] \in {"create", "upgrade", "init", "connect"}
          /\ GiveUp(i)
       \/ /\ boot[i] \in {"create", "upgrade"}
          /\ Goto(i, "create") /\ UNCHANGED thrown
       \/ /\ boot[i] \in {"lock", "migrate", "unlock"}
          /\ thrown' = Set(thrown, i, TRUE)
          /\ Goto(i, IF boot[i] = "migrate" THEN "unlock" ELSE "destroy")
    /\ UNCHANGED <<life, lock, applied>>

-----------------------------------------------------------------------------
(* shutdown, on SIGTERM or SIGINT. A second signal finds the timer cleared  *)
(* or clears it again, and its own close callback comes with the first's.   *)

Signal(i) ==
    /\ life[i] \in {"up", "stopping"}
    /\ life' = Set(life, i, "stopping")
    /\ timer' = Set(timer, i, FALSE)
    /\ UNCHANGED <<boot, thrown, ready, failed, attempts, lock, applied, faults>>

\* process.exit: timers and sessions go with the process.
Exit(i) ==
    /\ life' = Set(life, i, "exited")
    /\ boot' = Set(boot, i, "idle")
    /\ timer' = Set(timer, i, FALSE)
    /\ lock' = IF lock = i THEN None ELSE lock

\* Mutant: the callback waits for an application that may never come.
BugServerClosed(i) ==
    /\ life[i] = "stopping" /\ ready[i]
    /\ life' = Set(life, i, "closing")
    /\ UNCHANGED <<boot, timer, lock, thrown, ready, failed, attempts, applied, faults>>

\* The last connection ends and server.close calls back.
ServerClosed(i) ==
    /\ life[i] = "stopping"
    /\ IF ready[i]
       THEN life' = Set(life, i, "closing") /\ UNCHANGED <<boot, timer, lock>>
       ELSE Exit(i)
    /\ UNCHANGED <<thrown, ready, failed, attempts, applied, faults>>

\* nestApp.close() settles.
AppClosed(i) ==
    /\ life[i] = "closing"
    /\ Exit(i)
    /\ UNCHANGED <<thrown, ready, failed, attempts, applied, faults>>

\* The instance is killed.
Crash(i) ==
    /\ Alive(i) /\ life[i] # "new"
    /\ faults < MaxFaults
    /\ faults' = faults + 1
    /\ Exit(i)
    /\ UNCHANGED <<thrown, ready, failed, attempts, applied>>

-----------------------------------------------------------------------------

Run(i) ==
    \/ CreateReads(i) \/ Upgrade(i) \/ AwaitReturns(i)
    \/ TakeLock(i) \/ Migrate(i) \/ Unlock(i) \/ Destroy(i)

ServerStep(i) ==
    \/ Listen(i) \/ TimerFires(i) \/ Run(i) \/ AwaitThrows(i)
    \/ Signal(i) \/ ServerClosed(i) \/ AppClosed(i) \/ Crash(i)

ServerNext == \E i \in Instances : ServerStep(i)

ServerSpec == ServerInit /\ [][ServerNext]_server

-----------------------------------------------------------------------------
(* Properties. *)

\* No instance initialises the application or serves before the migrations are applied,
\* whether or not it takes the advisory lock, whatever threw and whoever was killed:
\* NestFactory.create sees to them first, and what waits for the lock finds them done.
\* As create takes no lock they may be applied twice, but only by instances that were
\* at it at the same time.
MigratedBeforeServing ==
    /\ \A i \in Instances : ready[i] \/ boot[i] \notin {"idle", "create", "upgrade"} => schema > 0
    /\ schema > 1 => crowded

\* An instance that nobody stops becomes ready, in spite of its own failed
\* attempts and of instances that fail or die holding the migration lock.
EventuallyReady ==
    \A i \in Instances : life[i] = "up" ~> (ready[i] \/ life[i] # "up")

\* After a signal the process exits, also when it never became ready or is
\* waiting for the lock or for its retry timer.
ShutdownEnds == \A i \in Instances : life[i] = "stopping" ~> life[i] = "exited"

=============================================================================
