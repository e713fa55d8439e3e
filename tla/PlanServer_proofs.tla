--------------------------- MODULE PlanServer_proofs ---------------------------
(***************************************************************************)
(* Theorems about ServerBootstrap and PlanServer, for any number of        *)
(* instances and faults, any default plans, tables and workloads: the      *)
(* migrations come first and attempts are counted, tables and seedings     *)
(* keep their types, one seeding at a time makes no twins and delivers,    *)
(* and what is read from the table agrees.                                 *)
(***************************************************************************)
EXTENDS PlanServer, FiniteSetTheorems, WellFoundedInduction, TLAPS

-----------------------------------------------------------------------------
(* The instances of the server by themselves, as ServerBootstrap has them. *)

\* What makes MigratedBeforeServing inductive: until two instances apply the migrations
\* at once, one that is about to apply them is alone in it and finds none recorded.
Recorded ==
    /\ DOMAIN boot = Instances /\ DOMAIN ready = Instances
    /\ schema \in Nat /\ crowded \in BOOLEAN
    /\ \A i \in Instances : ready[i] \/ boot[i] \notin {"idle", "create", "upgrade"} => schema > 0
    /\ ~crowded => /\ schema <= 1
                   /\ \A i, j \in Instances :
                         boot[i] = "upgrade" /\ boot[j] = "upgrade" => i = j
                   /\ \A i \in Instances : boot[i] = "upgrade" => schema = 0

LEMMA RecordedInit == ServerInit => Recorded
<1> SUFFICES ASSUME ServerInit PROVE Recorded
  OBVIOUS
<1>1. schema \in Nat /\ schema <= 1
  BY DEF ServerInit
<1>2. crowded \in BOOLEAN /\ \A i \in Instances : ~ready[i]
  BY DEF ServerInit
<1>3. \A i \in Instances : boot[i] = "idle"
  BY DEF ServerInit
<1>4. QED
  BY <1>1, <1>2, <1>3 DEF ServerInit, Recorded

LEMMA RecordedNext == Recorded /\ [ServerNext]_server => Recorded'
<1> SUFFICES ASSUME Recorded, [ServerNext]_server PROVE Recorded'
  OBVIOUS
<1> USE DEF Recorded, Set, applied
<1>1. ASSUME NEW i \in Instances, Listen(i) \/ TimerFires(i) PROVE Recorded'
  BY <1>1 DEF Listen, TimerFires, Bootstrap
<1>2. ASSUME NEW i \in Instances, CreateReads(i) PROVE Recorded'
  <2>1. /\ boot' = [boot EXCEPT ![i] = IF schema = 0 THEN "upgrade" ELSE "init"]
        /\ crowded' = (crowded \/ (schema = 0 /\ \E j \in Instances \ {i} : boot[j] = "upgrade"))
        /\ UNCHANGED <<ready, schema>>
    BY <1>2 DEF CreateReads, Goto
  <2>2. CASE schema = 0
    BY <2>1, <2>2
  <2>3. CASE schema # 0
    <3>1. schema > 0 /\ crowded' = crowded /\ boot' = [boot EXCEPT ![i] = "init"]
      BY <2>1, <2>3
    <3>2. QED
      BY <2>1, <3>1
  <2>4. QED
    BY <2>2, <2>3
<1>3. ASSUME NEW i \in Instances, Upgrade(i) PROVE Recorded'
  <2>1. /\ schema' = schema + 1 /\ schema' \in Nat /\ schema' > 0
        /\ boot' = [boot EXCEPT ![i] = "init"] /\ UNCHANGED <<ready, crowded>>
    BY <1>3 DEF Upgrade, Goto
  <2>2. ~crowded => schema' <= 1 /\ \A j \in Instances : boot'[j] # "upgrade"
    BY <1>3, <2>1 DEF Upgrade
  <2>3. QED
    BY <2>1, <2>2
<1>4. ASSUME NEW i \in Instances, Migrate(i) PROVE Recorded'
  BY <1>4 DEF Migrate, Goto
<1>5. ASSUME NEW i \in Instances, AwaitReturns(i) PROVE Recorded'
  BY <1>5 DEF AwaitReturns, Goto, Succeed
<1>6. ASSUME NEW i \in Instances, TakeLock(i) \/ Unlock(i) PROVE Recorded'
  BY <1>6 DEF TakeLock, Unlock, Goto
<1>7. ASSUME NEW i \in Instances, Destroy(i) PROVE Recorded'
  BY <1>7 DEF Destroy, GiveUp, Succeed
<1>8. ASSUME NEW i \in Instances, AwaitThrows(i) PROVE Recorded'
  BY <1>8 DEF AwaitThrows, GiveUp, Goto
<1>9. ASSUME NEW i \in Instances, Signal(i) PROVE Recorded'
  BY <1>9 DEF Signal
<1>10. ASSUME NEW i \in Instances, ServerClosed(i) \/ AppClosed(i) \/ Crash(i) PROVE Recorded'
  BY <1>10 DEF ServerClosed, AppClosed, Crash, Exit
<1>11. CASE UNCHANGED server
  BY <1>11 DEF server
<1>12. QED
  BY <1>1, <1>2, <1>3, <1>4, <1>5, <1>6, <1>7, <1>8, <1>9, <1>10, <1>11
     DEF ServerNext, ServerStep, Run

LEMMA RecordedMigrates == Recorded => MigratedBeforeServing
BY DEF Recorded, MigratedBeforeServing

\* No instance serves before the migrations are recorded, and they are recorded twice
\* only if two instances applied them at once.
THEOREM MigrationsFirst == ServerSpec => []MigratedBeforeServing
BY RecordedMigrates, RecordedInit, RecordedNext, PTL DEF ServerSpec

-----------------------------------------------------------------------------

\* What bounds bootstrapAttempts: every attempt but the present one has cost a
\* failure. An exception is on its way only through the two finally blocks.
TriesOf(i) ==
    /\ attempts[i] <= faults + 1
    /\ Alive(i) /\ thrown[i] => boot[i] \in {"unlock", "destroy"}
    /\ Alive(i) /\ (thrown[i] \/ (boot[i] = "idle" /\ ~ready[i])) => attempts[i] <= faults

Tries == \A i \in Instances : TriesOf(i)

LEMMA TriesInit == ServerInit => ServerTypeOK /\ Tries
<1> SUFFICES ASSUME ServerInit PROVE ServerTypeOK /\ Tries
  OBVIOUS
<1>1. MaxFaults \in Nat /\ faults = 0 /\ schema \in Nat
  BY ServerAssumption DEF ServerInit
<1>2. ServerTypeOK
  <2>1. /\ attempts = [i \in Instances |-> 0] /\ 0 \in 0 .. MaxFaults + 1
        /\ faults \in 0 .. MaxFaults
    BY <1>1 DEF ServerInit
  <2>2. QED
    BY <1>1, <2>1 DEF ServerInit, ServerTypeOK
<1>3. Tries
  <2> SUFFICES ASSUME NEW i \in Instances PROVE TriesOf(i)
    BY DEF Tries
  <2>1. attempts[i] = 0 /\ ~thrown[i] /\ faults = 0
    BY DEF ServerInit
  <2>2. QED
    BY <2>1 DEF TriesOf
<1>4. QED
  BY <1>2, <1>3

LEMMA TriesNext == ServerTypeOK /\ Tries /\ [ServerNext]_server => ServerTypeOK' /\ Tries'
<1> SUFFICES ASSUME ServerTypeOK, Tries, [ServerNext]_server
             PROVE  ServerTypeOK' /\ Tries'
  OBVIOUS
<1>0. MaxFaults \in Nat /\ faults \in Nat /\ \A i \in Instances : attempts[i] \in Nat
  BY ServerAssumption DEF ServerTypeOK
<1> USE ServerAssumption, <1>0 DEF ServerTypeOK, Awaits, Alive, Set, applied
<1>1. ASSUME NEW i \in Instances, Listen(i)
     PROVE  ServerTypeOK' /\ Tries'
  <2>1. ServerTypeOK'
    <3>0. ~(boot[i] # "idle" \/ ready[i]) /\ life[i] # "exited" => attempts[i] <= faults
      BY DEF Tries, TriesOf
    <3>1. CASE boot[i] # "idle" \/ ready[i]
      BY <1>1, <3>1 DEF Listen, Bootstrap
    <3>2. CASE ~(boot[i] # "idle" \/ ready[i])
      <4>1. /\ boot' = [boot EXCEPT ![i] = "create"]
            /\ attempts' = [attempts EXCEPT ![i] = attempts[i] + 1]
            /\ failed' = [failed EXCEPT ![i] = FALSE]
        BY <1>1, <3>2 DEF Listen, Bootstrap
      <4>2. attempts[i] + 1 \in 0 .. MaxFaults + 1
        BY <1>1, <3>2, <3>0 DEF Listen
      <4>3. QED
        BY <1>1, <4>1, <4>2 DEF Listen
    <3>9. QED
      BY <1>1, <3>1, <3>2 DEF Listen, Bootstrap
  <2>2. ASSUME NEW j \in Instances, j # i PROVE TriesOf(j)'
    BY <1>1, <2>2 DEF Tries, TriesOf, Listen, Bootstrap
  <2>3. TriesOf(i)'
    BY <1>1 DEF Tries, TriesOf, Listen, Bootstrap
  <2>4. QED
    BY <2>1, <2>2, <2>3 DEF Tries
<1>2. ASSUME NEW i \in Instances, TimerFires(i)
     PROVE  ServerTypeOK' /\ Tries'
  <2>1. ServerTypeOK'
    <3>0. ~(boot[i] # "idle" \/ ready[i]) /\ life[i] # "exited" => attempts[i] <= faults
      BY DEF Tries, TriesOf
    <3>1. CASE boot[i] # "idle" \/ ready[i]
      BY <1>2, <3>1 DEF TimerFires, Bootstrap
    <3>2. CASE ~(boot[i] # "idle" \/ ready[i])
      <4>1. /\ boot' = [boot EXCEPT ![i] = "create"]
            /\ attempts' = [attempts EXCEPT ![i] = attempts[i] + 1]
            /\ failed' = [failed EXCEPT ![i] = FALSE]
        BY <1>2, <3>2 DEF TimerFires, Bootstrap
      <4>2. attempts[i] + 1 \in 0 .. MaxFaults + 1
        BY <1>2, <3>2, <3>0 DEF TimerFires
      <4>3. QED
        BY <1>2, <4>1, <4>2 DEF TimerFires
    <3>9. QED
      BY <1>2, <3>1, <3>2 DEF TimerFires, Bootstrap
  <2>2. ASSUME NEW j \in Instances, j # i PROVE TriesOf(j)'
    BY <1>2, <2>2 DEF Tries, TriesOf, TimerFires, Bootstrap
  <2>3. TriesOf(i)'
    BY <1>2 DEF Tries, TriesOf, TimerFires, Bootstrap
  <2>4. QED
    BY <2>1, <2>2, <2>3 DEF Tries
<1>3. ASSUME NEW i \in Instances, AwaitReturns(i)
     PROVE  ServerTypeOK' /\ Tries'
  <2>1. ServerTypeOK'
    <3>2. CASE Goto(i, "connect") /\ UNCHANGED thrown
      BY <1>3, <3>2 DEF AwaitReturns, Goto
    <3>3. CASE Goto(i, "lock") /\ UNCHANGED thrown
      BY <1>3, <3>3 DEF AwaitReturns, Goto
    <3>5. CASE Succeed(i)
      BY <1>3, <3>5 DEF AwaitReturns, Succeed
    <3>9. QED
      BY <1>3, <3>2, <3>3, <3>5 DEF AwaitReturns
  <2>2. ASSUME NEW j \in Instances, j # i PROVE TriesOf(j)'
    BY <1>3, <2>2 DEF Tries, TriesOf, AwaitReturns, Goto, Succeed
  <2>3. TriesOf(i)'
    BY <1>3 DEF Tries, TriesOf, AwaitReturns, Goto, Succeed
  <2>4. QED
    BY <2>1, <2>2, <2>3 DEF Tries
<1>4. ASSUME NEW i \in Instances, TakeLock(i) \/ Unlock(i)
     PROVE  ServerTypeOK' /\ Tries'
  <2>1. ServerTypeOK'
    BY <1>4 DEF Tries, TriesOf, TakeLock, Unlock, Goto
  <2>2. ASSUME NEW j \in Instances, j # i PROVE TriesOf(j)'
    BY <1>4, <2>2 DEF Tries, TriesOf, TakeLock, Unlock, Goto
  <2>3. TriesOf(i)'
    BY <1>4 DEF Tries, TriesOf, TakeLock, Unlock, Goto
  <2>4. QED
    BY <2>1, <2>2, <2>3 DEF Tries
<1>5. ASSUME NEW i \in Instances, Destroy(i)
     PROVE  ServerTypeOK' /\ Tries'
  <2>1. ServerTypeOK'
    <3>1. CASE thrown[i]
      BY <1>5, <3>1 DEF Destroy, GiveUp
    <3>2. CASE ~thrown[i]
      <4>1. Succeed(i) /\ lock' \in Instances \union {None} /\ UNCHANGED <<life, applied, faults>>
        BY <1>5, <3>2 DEF Destroy
      <4>2. QED
        BY <4>1 DEF Succeed
    <3>9. QED
      BY <1>5, <3>1, <3>2 DEF Destroy, GiveUp, Succeed
  <2>2. ASSUME NEW j \in Instances, j # i PROVE TriesOf(j)'
    BY <1>5, <2>2 DEF Tries, TriesOf, Destroy, GiveUp, Succeed
  <2>3. TriesOf(i)'
    BY <1>5 DEF Tries, TriesOf, Destroy, GiveUp, Succeed
  <2>4. QED
    BY <2>1, <2>2, <2>3 DEF Tries
<1>6. ASSUME NEW i \in Instances, AwaitThrows(i)
     PROVE  ServerTypeOK' /\ Tries'
  <2>1. ServerTypeOK'
    <3>1. CASE GiveUp(i)
      BY <1>6, <3>1 DEF AwaitThrows, GiveUp
    <3>3. CASE Goto(i, "create") /\ UNCHANGED thrown
      BY <1>6, <3>3 DEF AwaitThrows, Goto
    <3>2. CASE /\ thrown' = [thrown EXCEPT ![i] = TRUE]
                /\ Goto(i, IF boot[i] = "migrate" THEN "unlock" ELSE "destroy")
      BY <1>6, <3>2 DEF AwaitThrows, Goto
    <3>9. QED
      BY <1>6, <3>1, <3>2, <3>3 DEF AwaitThrows
  <2>2. ASSUME NEW j \in Instances, j # i PROVE TriesOf(j)'
    BY <1>6, <2>2 DEF Tries, TriesOf, AwaitThrows, GiveUp, Goto
  <2>3. TriesOf(i)'
    BY <1>6 DEF Tries, TriesOf, AwaitThrows, GiveUp, Goto
  <2>4. QED
    BY <2>1, <2>2, <2>3 DEF Tries
<1>7. ASSUME NEW i \in Instances, Signal(i)
     PROVE  ServerTypeOK' /\ Tries'
  <2>1. ServerTypeOK'
    BY <1>7 DEF Tries, TriesOf, Signal
  <2>2. ASSUME NEW j \in Instances, j # i PROVE TriesOf(j)'
    BY <1>7, <2>2 DEF Tries, TriesOf, Signal
  <2>3. TriesOf(i)'
    BY <1>7 DEF Tries, TriesOf, Signal
  <2>4. QED
    BY <2>1, <2>2, <2>3 DEF Tries
<1>8. ASSUME NEW i \in Instances, ServerClosed(i) \/ AppClosed(i)
     PROVE  ServerTypeOK' /\ Tries'
  <2>1. ServerTypeOK'
    BY <1>8 DEF Tries, TriesOf, ServerClosed, AppClosed, Exit
  <2>2. ASSUME NEW j \in Instances, j # i PROVE TriesOf(j)'
    BY <1>8, <2>2 DEF Tries, TriesOf, ServerClosed, AppClosed, Exit
  <2>3. TriesOf(i)'
    BY <1>8 DEF Tries, TriesOf, ServerClosed, AppClosed, Exit
  <2>4. QED
    BY <2>1, <2>2, <2>3 DEF Tries
<1>9. ASSUME NEW i \in Instances, Crash(i)
     PROVE  ServerTypeOK' /\ Tries'
  <2>1. ServerTypeOK'
    BY <1>9 DEF Tries, TriesOf, Crash, Exit
  <2>2. ASSUME NEW j \in Instances, j # i PROVE TriesOf(j)'
    BY <1>9, <2>2 DEF Tries, TriesOf, Crash, Exit
  <2>3. TriesOf(i)'
    BY <1>9 DEF Tries, TriesOf, Crash, Exit
  <2>4. QED
    BY <2>1, <2>2, <2>3 DEF Tries
<1>10. ASSUME NEW i \in Instances, CreateReads(i) \/ Upgrade(i) \/ Migrate(i)
      PROVE  ServerTypeOK' /\ Tries'
  <2>1. ServerTypeOK'
    <3>1. CASE CreateReads(i)
      BY <3>1 DEF CreateReads, Goto
    <3>2. CASE Upgrade(i)
      BY <3>2 DEF Upgrade, Goto
    <3>3. CASE Migrate(i)
      BY <3>3 DEF Migrate, Goto
    <3>4. QED
      BY <1>10, <3>1, <3>2, <3>3
  <2>2. ASSUME NEW j \in Instances, j # i PROVE TriesOf(j)'
    BY <1>10, <2>2 DEF Tries, TriesOf, CreateReads, Upgrade, Migrate, Goto
  <2>3. TriesOf(i)'
    BY <1>10 DEF Tries, TriesOf, CreateReads, Upgrade, Migrate, Goto
  <2>4. QED
    BY <2>1, <2>2, <2>3 DEF Tries
<1>11. CASE UNCHANGED server
  BY <1>11 DEF server, Tries, TriesOf
<1>12. QED
  BY <1>1, <1>2, <1>3, <1>4, <1>5, <1>6, <1>7, <1>8, <1>9, <1>10,
     <1>11 DEF ServerNext, ServerStep, Run

\* Every variable keeps its type; bootstrapAttempts exceeds the failures by one at
\* most, as a retry never starts beside a running attempt and no attempt is counted
\* twice; an exception is on its way only through the finally blocks.
THEOREM AttemptsBounded == ServerSpec => [](ServerTypeOK /\ Tries)
BY TriesInit, TriesNext, PTL DEF ServerSpec

-----------------------------------------------------------------------------
(* The composition.                                                        *)

\* What an action that is not a step of server.ts does to the server: SeedThrows
\* counts a failure, the others leave it alone.
LEMMA ServerUntouched ==
    ASSUME NEW r \in Seeders, SeedThrows(r)
    PROVE  /\ faults' = faults + 1 /\ faults < load.faults
           /\ UNCHANGED <<boot, thrown, ready, failed, attempts, timer, life, lock, applied>>
BY DEF SeedThrows

LEMMA InstanceSteps ==
    ASSUME NEW i \in Instances, InstanceStep(i)
    PROVE  ServerNext
<1>1. CASE Work(i)
  BY <1>1 DEF Work, ServerNext, ServerStep
<1>2. CASE Close(i)
  BY <1>2 DEF Close, ServerNext, ServerStep
<1>3. CASE Die(i)
  BY <1>3 DEF Die, ServerNext, ServerStep
<1>4. QED
  BY <1>1, <1>2, <1>3 DEF InstanceStep

LEMMA Steps ==
    ASSUME [Next]_vars
    PROVE  [ServerNext]_server \/ \E r \in Seeders : SeedThrows(r)
<1>1. CASE \E i \in Instances : InstanceStep(i)
  BY <1>1, InstanceSteps
<1>2. ASSUME NEW p \in Additions, CreatePlan(p) PROVE UNCHANGED server
  BY <1>2 DEF CreatePlan, AdminWrites
<1>3. ASSUME NEW b \in PlanIds, RemovePlan(b) PROVE UNCHANGED server
  BY <1>3 DEF RemovePlan, AdminWrites
<1>4. ASSUME NEW b \in PlanIds, NEW dto \in Changes, UpdatePlan(b, dto)
      PROVE  UNCHANGED server
  BY <1>4 DEF UpdatePlan, AdminWrites
<1>5. ASSUME NEW r \in Seeders, SeedContinue(r) PROVE UNCHANGED server
  BY <1>5 DEF SeedContinue, SeedFind, SeedReprice, SeedInsert
<1>6. ASSUME NEW r \in Seeders, NEW i \in Instances, SeedStart(r, i)
      PROVE  UNCHANGED server
  BY <1>6 DEF SeedStart
<1>7. CASE UNCHANGED vars
  BY <1>7 DEF vars
<1>8. QED
  BY <1>1, <1>2, <1>3, <1>4, <1>5, <1>6, <1>7 DEF Next

\* The seeding of plans and the edits of admins do not come between the instances and
\* their migrations: MigratedBeforeServing holds of the composition, too.
THEOREM MigrationsComeFirst == Spec => []MigratedBeforeServing
<1>1. Init => Recorded
  BY RecordedInit DEF Init
<1>2. Recorded /\ [Next]_vars => Recorded'
  <2>1. ASSUME NEW r \in Seeders, SeedThrows(r), Recorded PROVE Recorded'
    BY <2>1 DEF SeedThrows, Recorded, applied
  <2>2. QED
    BY <2>1, Steps, RecordedNext
<1>3. QED
  BY <1>1, <1>2, RecordedMigrates, PTL DEF Spec

-----------------------------------------------------------------------------
(* Types. *)

LEMMA DefaultPlans ==
    /\ Len(Defaults) \in Nat \ {0}
    /\ \A k \in 1 .. Len(Defaults) : Defaults[k] \in Plans
    /\ \A p \in Plans : p.name # None /\ p.days # None /\ p.price # None
<1>1. /\ Defaults \in Seq(Plans) /\ Len(Defaults) > 0
      /\ None \notin Boxes /\ None \notin Days /\ None \notin Prices
  BY PlanAssumption
<1>2. /\ Len(Defaults) \in Nat \ {0}
      /\ \A k \in 1 .. Len(Defaults) : Defaults[k] \in Plans
  <2> HIDE DEF Plans
  <2>1. QED
    BY <1>1
<1>3. QED
  BY <1>1, <1>2 DEF Plans

LEMMA PlanTypeInit == Init => PlanTypeOK
<1> SUFFICES ASSUME Init PROVE PlanTypeOK
  OBVIOUS
<1>1. /\ table \in [PlanIds -> PlanRows]
      /\ \A b \in PlanIds : Whole(table[b])
  BY PlanAssumption DEF Init
<1>2. NoSeeder \in Locals
  BY DefaultPlans DEF NoSeeder, Locals
<1>3. QED
  BY <1>1, <1>2 DEF Init, PlanTypeOK, NoSeeder

\* Writes of the table.
LEMMA PutTyped ==
    ASSUME PlanTypeOK, NEW b \in PlanIds, NEW row \in PlanRows, Whole(row), Put(b, row)
    PROVE  /\ table' \in [PlanIds -> PlanRows]
           /\ \A c \in PlanIds : Whole(table'[c])
BY DEF PlanTypeOK, Put

LEMMA AddTyped ==
    ASSUME PlanTypeOK, NEW p \in Plans, NEW by \in {"seed", "admin"}, Add(p, by)
    PROVE  /\ table' \in [PlanIds -> PlanRows]
           /\ \A c \in PlanIds : Whole(table'[c])
<1> DEFINE b   == CHOOSE b \in Unused : TRUE
           row == [is |-> "stored", name |-> p.name, days |-> p.days, price |-> p.price,
                   by |-> by]
<1>1. Put(b, row) /\ b \in Unused
  BY DEF Add
<1>2. b \in PlanIds
  BY <1>1, PlanAssumption DEF Unused, PlanTypeOK
<1>3. row \in PlanRows
  BY DEF PlanRows, Plans
<1>4. Whole(row)
  BY DefaultPlans DEF Whole
<1> HIDE DEF b, row
<1>5. QED
  BY <1>1, <1>2, <1>3, <1>4, PutTyped

\* What the writes of seeder keep.
SeedersOK ==
    /\ seeder \in [Seeders -> Locals]
    /\ \A r \in Seeders : /\ seeder[r].pc # "idle" => seeder[r].at \in Instances
                          /\ seeder[r].pc = "reprice" => seeder[r].plan \in PlanIds

LEMMA DisturbTyped ==
    ASSUME SeedersOK
    PROVE  /\ Disturb(seeder) \in [Seeders -> Locals]
           /\ \A r \in Seeders : /\ Disturb(seeder)[r].pc = seeder[r].pc
                                 /\ Disturb(seeder)[r].at = seeder[r].at
                                 /\ Disturb(seeder)[r].plan = seeder[r].plan
BY DEF Disturb, SeedersOK, Locals

LEMMA OnwardTyped ==
    ASSUME SeedersOK, NEW r \in Seeders, seeder[r].pc # "idle", Onward(r)
    PROVE  SeedersOK'
<1>1. NoSeeder \in Locals /\ NoSeeder.pc = "idle"
  BY DefaultPlans DEF NoSeeder, Locals
<1>2. CASE seeder[r].k = Len(Defaults)
  BY <1>1, <1>2 DEF Onward, Step, SeedersOK
<1>3. CASE seeder[r].k # Len(Defaults)
  <2> DEFINE next == [seeder[r] EXCEPT !.pc = "find", !.k = @ + 1, !.plan = None]
  <2>1. seeder[r].k + 1 \in 1 .. Len(Defaults)
    BY <1>3, DefaultPlans DEF SeedersOK, Locals
  <2>2. next \in Locals /\ next.pc = "find" /\ next.at \in Instances
    BY <2>1 DEF SeedersOK, Locals
  <2>3. seeder' = [seeder EXCEPT ![r] = next]
    BY <1>3 DEF Onward, Step
  <2> HIDE DEF next
  <2>4. QED
    BY <2>2, <2>3 DEF SeedersOK
<1>4. QED
  BY <1>2, <1>3

LEMMA AdminTyped ==
    ASSUME PlanTypeOK, NEW op, AdminWrites(op),
           /\ table' \in [PlanIds -> PlanRows]
           /\ \A c \in PlanIds : Whole(table'[c])
    PROVE  PlanTypeOK'
<1>1. SeedersOK
  BY DEF PlanTypeOK, SeedersOK
<1>2. SeedersOK'
  BY <1>1, DisturbTyped DEF AdminWrites, SeedersOK
<1>3. QED
  BY <1>2 DEF AdminWrites, PlanTypeOK, SeedersOK

LEMMA UpdateTyped ==
    ASSUME PlanTypeOK, NEW b \in PlanIds, NEW dto \in Changes, UpdatePlan(b, dto)
    PROVE  /\ table' \in [PlanIds -> PlanRows]
           /\ \A c \in PlanIds : Whole(table'[c])
<1> DEFINE row == [table[b] EXCEPT !.name  = OrElse(dto.name, @),
                                   !.days  = OrElse(dto.days, @),
                                   !.price = OrElse(dto.price, @),
                                   !.by    = IF dto.name = None /\ dto.days = None
                                             THEN @ ELSE "admin"]
<1>1. table[b] \in PlanRows /\ Whole(table[b])
  BY DEF PlanTypeOK
<1>2. /\ dto.name \in Boxes \union {None}
      /\ dto.days \in Days \union {None} /\ dto.price \in Prices \union {None}
  BY PlanAssumption
<1>3. /\ row \in PlanRows /\ row.is = table[b].is
      /\ row.name = OrElse(dto.name, table[b].name)
      /\ row.days = OrElse(dto.days, table[b].days)
      /\ row.price = OrElse(dto.price, table[b].price)
  BY <1>1, <1>2 DEF PlanRows, OrElse
<1>4. Whole(row)
  BY <1>1, <1>3 DEF Whole, OrElse
<1>5. Put(b, row)
  BY DEF UpdatePlan
<1> HIDE DEF row
<1>6. QED
  BY <1>3, <1>4, <1>5, PutTyped

LEMMA RepriceTyped ==
    ASSUME PlanTypeOK, NEW r \in Seeders, SeedReprice(r)
    PROVE  /\ table' \in [PlanIds -> PlanRows]
           /\ \A c \in PlanIds : Whole(table'[c])
<1>1. CASE table[seeder[r].plan].is = "stored"
  <2> DEFINE b   == seeder[r].plan
             row == [table[b] EXCEPT !.price = Seed(r).price]
  <2>1. b \in PlanIds /\ seeder[r] \in Locals
    BY DEF PlanTypeOK, SeedReprice
  <2>2. table[b] \in PlanRows /\ Whole(table[b])
    BY <2>1 DEF PlanTypeOK
  <2>3. Seed(r).price \in Prices /\ Seed(r).price # None
    BY <2>1, DefaultPlans DEF Seed, Locals, Plans
  <2>4. /\ row \in PlanRows /\ row.is = table[b].is /\ row.name = table[b].name
        /\ row.days = table[b].days /\ row.price = Seed(r).price
    BY <2>2, <2>3 DEF PlanRows
  <2>5. Whole(row)
    BY <2>2, <2>3, <2>4 DEF Whole
  <2>6. Put(b, row)
    BY <1>1 DEF SeedReprice
  <2> HIDE DEF b, row
  <2>7. QED
    BY <2>1, <2>4, <2>5, <2>6, PutTyped
<1>2. CASE table[seeder[r].plan].is # "stored"
  BY <1>2 DEF SeedReprice, PlanTypeOK
<1>3. QED
  BY <1>1, <1>2

LEMMA SeedTyped ==
    ASSUME PlanTypeOK, NEW r \in Seeders, SeedContinue(r)
    PROVE  PlanTypeOK'
<1>0. SeedersOK /\ seeder[r] \in Locals
  BY DEF PlanTypeOK, SeedersOK
<1>1. SeedersOK'
  <2>1. CASE Onward(r)
    <3>1. seeder[r].pc # "idle"
      BY DEF SeedContinue, SeedFind, SeedReprice, SeedInsert
    <3>2. QED
      BY <2>1, <3>1, <1>0, OnwardTyped
  <2>2. CASE SeedFind(r) /\ Step(r, [seeder[r] EXCEPT !.pc = "insert"])
    BY <2>2, <1>0 DEF SeedFind, Step, SeedersOK, Locals
  <2>3. ASSUME NEW b \in PlanIds, SeedFind(r),
               Step(r, [seeder[r] EXCEPT !.pc = "reprice", !.plan = b])
        PROVE  SeedersOK'
    BY <2>3, <1>0 DEF SeedFind, Step, SeedersOK, Locals
  <2>4. CASE SeedFind(r)
    <3>1. CASE Step(r, [seeder[r] EXCEPT !.pc = "insert"])
      BY <2>4, <3>1, <2>2
    <3>2. ASSUME NEW b \in Same(Seed(r)),
                 IF table[b].price = Seed(r).price THEN Onward(r)
                 ELSE Step(r, [seeder[r] EXCEPT !.pc = "reprice", !.plan = b])
          PROVE  SeedersOK'
      <4>1. b \in PlanIds
        BY DEF Same
      <4>2. QED
        BY <3>2, <4>1, <2>4, <2>1, <2>3
    <3>3. QED
      BY <2>4, <3>1, <3>2 DEF SeedFind
  <2>5. QED
    BY <2>1, <2>4 DEF SeedContinue, SeedReprice, SeedInsert
<1>2. /\ table' \in [PlanIds -> PlanRows]
      /\ \A c \in PlanIds : Whole(table'[c])
  <2>1. CASE SeedFind(r)
    BY <2>1 DEF SeedFind, PlanTypeOK
  <2>2. CASE SeedInsert(r)
    <3>1. Seed(r) \in Plans /\ Add(Seed(r), "seed")
      BY <2>2, <1>0, DefaultPlans DEF Seed, Locals, SeedInsert
    <3>2. QED
      BY <3>1, AddTyped
  <2>3. QED
    BY <2>1, <2>2, RepriceTyped DEF SeedContinue
<1>3. UNCHANGED <<lapped, load>>
  BY DEF SeedContinue, SeedFind, SeedReprice, SeedInsert
<1>4. QED
  BY <1>1, <1>2, <1>3 DEF PlanTypeOK, SeedersOK

LEMMA PlanTypeNext == PlanTypeOK /\ [Next]_vars => PlanTypeOK'
<1> SUFFICES ASSUME PlanTypeOK, [Next]_vars PROVE PlanTypeOK'
  OBVIOUS
<1>0. NoSeeder \in Locals /\ NoSeeder.pc = "idle"
  BY DefaultPlans DEF NoSeeder, Locals
<1>1. ASSUME NEW p \in Additions, CreatePlan(p) PROVE PlanTypeOK'
  <2>1. p \in Plans
    BY PlanAssumption
  <2>2. AdminWrites("create") /\ Add(p, "admin")
    BY <1>1 DEF CreatePlan
  <2>3. QED
    BY <2>1, <2>2, AddTyped, AdminTyped
<1>2. ASSUME NEW b \in PlanIds, RemovePlan(b) PROVE PlanTypeOK'
  <2>1. AdminWrites("remove") /\ Put(b, [NoPlan EXCEPT !.is = "deleted"])
    BY <1>2 DEF RemovePlan
  <2>2. /\ [NoPlan EXCEPT !.is = "deleted"] \in PlanRows
        /\ Whole([NoPlan EXCEPT !.is = "deleted"])
    BY DEF NoPlan, PlanRows, Whole
  <2>3. QED
    BY <2>1, <2>2, PutTyped, AdminTyped
<1>3. ASSUME NEW b \in PlanIds, NEW dto \in Changes, UpdatePlan(b, dto) PROVE PlanTypeOK'
  <2>1. AdminWrites("update")
    BY <1>3 DEF UpdatePlan
  <2>2. QED
    BY <1>3, <2>1, UpdateTyped, AdminTyped
<1>4. ASSUME NEW r \in Seeders, SeedThrows(r) PROVE PlanTypeOK'
  BY <1>4, <1>0 DEF SeedThrows, Step, PlanTypeOK
<1>5. ASSUME NEW r \in Seeders, NEW i \in Instances, SeedStart(r, i) PROVE PlanTypeOK'
  <2> DEFINE alone == Running = {}
             new   == [NoSeeder EXCEPT !.pc = "find", !.at = i, !.alone = alone]
  <2>1. SeedersOK
    BY DEF PlanTypeOK, SeedersOK
  <2>2. seeder' = [Disturb(seeder) EXCEPT ![r] = new]
    BY <1>5 DEF SeedStart
  <2>3. new \in Locals /\ new.pc = "find" /\ new.at = i
    <3>1. alone \in BOOLEAN
      OBVIOUS
    <3> HIDE DEF alone
    <3>2. QED
      BY <3>1, <1>0 DEF Locals
  <2>4. UNCHANGED <<table, load>> /\ lapped' = (lapped \/ Running # {})
    BY <1>5 DEF SeedStart
  <2> HIDE DEF new
  <2>5. SeedersOK'
    BY <2>1, <2>2, <2>3, DisturbTyped DEF SeedersOK
  <2>6. lapped' \in BOOLEAN
    BY <2>4 DEF PlanTypeOK
  <2>7. QED
    BY <2>4, <2>5, <2>6 DEF PlanTypeOK, SeedersOK
<1>6. ASSUME NEW i \in Instances, InstanceStep(i) PROVE PlanTypeOK'
  <2>1. CASE UNCHANGED seeder
    BY <1>6, <2>1 DEF InstanceStep, PlanTypeOK
  <2>2. CASE seeder' = [r \in Seeders |-> IF r \in Served(i) THEN NoSeeder ELSE seeder[r]]
    BY <1>6, <2>2, <1>0 DEF InstanceStep, PlanTypeOK
  <2>3. QED
    BY <1>6, <2>1, <2>2 DEF InstanceStep, Work, Close, Die
<1>7. CASE UNCHANGED vars
  BY <1>7 DEF vars, plan, PlanTypeOK
<1>8. QED
  BY <1>1, <1>2, <1>3, <1>4, <1>5, <1>6, <1>7, SeedTyped DEF Next

\* The server's variables, the seedings' failures included.
LEMMA ServerNextTypes ==
    PlanTypeOK /\ ServerTypeOK /\ Tries /\ [Next]_vars => ServerTypeOK' /\ Tries'
<1>1. ASSUME NEW r \in Seeders, SeedThrows(r), PlanTypeOK, ServerTypeOK, Tries
      PROVE  ServerTypeOK' /\ Tries'
  <2>1. load.faults \in 0 .. MaxFaults
    BY <1>1, PlanAssumption DEF PlanTypeOK
  <2>2. ServerTypeOK'
    BY <1>1, <2>1, ServerAssumption DEF SeedThrows, ServerTypeOK, applied
  <2>3. ASSUME NEW i \in Instances PROVE TriesOf(i)'
    BY <1>1, <2>3 DEF SeedThrows, ServerTypeOK, Tries, TriesOf, Alive
  <2>4. QED
    BY <2>2, <2>3 DEF Tries
<1>2. QED
  BY <1>1, Steps, TriesNext

\* Every variable of the server, the table and the seedings keeps its type: no row
\* loses a column, and a seeding has the locals its next step needs.
THEOREM TypeCorrect == Spec => []TypeOK
<1> DEFINE Inv == TypeOK /\ Tries
<1>1. Init => Inv
  BY PlanTypeInit, TriesInit DEF Init, TypeOK
<1>2. Inv /\ [Next]_vars => Inv'
  BY PlanTypeNext, ServerNextTypes DEF TypeOK
<1>3. QED
  BY <1>1, <1>2, PTL DEF Spec

-----------------------------------------------------------------------------
(* Twins. *)

\* A row whose name and days a seeding has written.
Seeded(b)    == table[b].is = "stored" /\ table[b].by = "seed"
Twin(b, p)   == Seeded(b) /\ table[b].name = p.name /\ table[b].days = p.days

\* While seedings have not overlapped there is one at most, and what it is about to
\* insert is not there.
TwinInv ==
    ~lapped =>
        /\ \A r, s \in Running : r = s
        /\ \A r \in Seeders : seeder[r].pc = "insert" => \A b \in PlanIds : ~Twin(b, Seed(r))
        /\ \A b, c \in PlanIds : b # c /\ Seeded(b) => ~Twin(c, table[b])

LEMMA TwinInvSuffices == PlanTypeOK /\ TwinInv => TwinsOverlapped
BY DEF PlanTypeOK, TwinInv, TwinsOverlapped, Stored, Seeded, Twin

\* No step but SeedInsert makes a row the seeding's.
Kept == \A b \in PlanIds : Seeded(b)' =>
            Seeded(b) /\ table'[b].name = table[b].name /\ table'[b].days = table[b].days

LEMMA KeptTwins ==
    ASSUME TwinInv, Kept, lapped' = lapped, NEW D \in SUBSET Seeders,
           \A s \in Seeders \ D : \/ seeder'[s].pc = "idle"
                                  \/ seeder'[s].pc = seeder[s].pc /\ seeder'[s].k = seeder[s].k,
           \A s \in D : /\ seeder'[s].pc # "idle" => seeder[s].pc # "idle"
                        /\ seeder'[s].pc = "insert" =>
                               \A b \in PlanIds : ~Twin(b, Seed(s)')
    PROVE  TwinInv'
<1> SUFFICES ASSUME ~lapped PROVE TwinInv'
  BY DEF TwinInv
<1>1. \A r, s \in Running' : r = s
  BY DEF TwinInv, Running
<1>2. ASSUME NEW r \in Seeders, seeder'[r].pc = "insert", NEW b \in PlanIds
      PROVE  ~Twin(b, Seed(r))'
  <2>1. ~Twin(b, Seed(r)')
    <3>1. CASE r \in D
      BY <3>1, <1>2
    <3>2. CASE r \notin D
      <4>1. seeder[r].pc = "insert" /\ Seed(r)' = Seed(r)
        BY <3>2, <1>2 DEF Seed
      <4>2. QED
        BY <4>1 DEF TwinInv
    <3>3. QED
      BY <3>1, <3>2
  <2>2. QED
    BY <2>1 DEF Twin, Kept, Seeded
<1>3. \A b, c \in PlanIds : b # c /\ Seeded(b)' => ~Twin(c, table[b])'
  BY DEF TwinInv, Twin, Kept, Seeded
<1>4. QED
  BY <1>1, <1>2, <1>3 DEF TwinInv

LEMMA PutKept ==
    ASSUME PlanTypeOK, NEW b \in PlanIds, NEW row, Put(b, row),
           row.is = "stored" /\ row.by = "seed" =>
               Seeded(b) /\ row.name = table[b].name /\ row.days = table[b].days
    PROVE  Kept
BY DEF PlanTypeOK, Put, Kept, Seeded

LEMMA AdminKept ==
    ASSUME PlanTypeOK, TwinInv, Kept, NEW op, AdminWrites(op)
    PROVE  TwinInv'
<1>1. \A s \in Seeders : seeder'[s].pc = seeder[s].pc /\ seeder'[s].k = seeder[s].k
  BY DEF AdminWrites, Disturb, PlanTypeOK, Locals
<1>2. lapped' = lapped
  BY DEF AdminWrites
<1>3. QED
  BY <1>1, <1>2, KeptTwins, {} \in SUBSET Seeders

LEMMA TwinInit == Init => TwinInv
BY PlanAssumption DEF Init, TwinInv, Running, NoSeeder, Seeded

LEMMA FindTwins ==
    ASSUME PlanTypeOK, TwinInv, NEW r \in Seeders, SeedFind(r)
    PROVE  TwinInv'
<1>1. Kept /\ lapped' = lapped /\ seeder[r].pc = "find"
  BY DEF SeedFind, Kept, Seeded
<1>2. \A s \in Seeders \ {r} : seeder'[s] = seeder[s]
  BY DEF SeedFind, Onward, Step, PlanTypeOK
<1>3. ASSUME seeder'[r].pc = "insert"
      PROVE  \A b \in PlanIds : ~Twin(b, Seed(r)')
  <2>1. seeder[r] \in Locals
    BY DEF PlanTypeOK
  <2>2. CASE Same(Seed(r)) = {} /\ Step(r, [seeder[r] EXCEPT !.pc = "insert"])
    <3>1. Seed(r)' = Seed(r)
      BY <2>1, <2>2 DEF Step, Seed, PlanTypeOK, Locals
    <3>2. QED
      BY <2>2, <3>1 DEF Same, Twin, Seeded
  <2>3. CASE Onward(r)
    BY <2>1, <2>3, <1>3 DEF Onward, Step, PlanTypeOK, NoSeeder, Locals
  <2>4. ASSUME NEW b, Step(r, [seeder[r] EXCEPT !.pc = "reprice", !.plan = b])
        PROVE  FALSE
    BY <2>1, <2>4, <1>3 DEF Step, PlanTypeOK, Locals
  <2>5. QED
    BY <2>2, <2>3, <2>4 DEF SeedFind
<1>4. QED
  BY <1>1, <1>2, <1>3, KeptTwins, {r} \in SUBSET Seeders

LEMMA OnwardPc ==
    ASSUME PlanTypeOK, NEW r \in Seeders, Onward(r)
    PROVE  /\ \A s \in Seeders \ {r} : seeder'[s] = seeder[s]
           /\ seeder'[r].pc \in {"find", "idle"}
<1>1. seeder[r] \in Locals
  BY DEF PlanTypeOK
<1>2. QED
  BY <1>1 DEF Onward, Step, PlanTypeOK, NoSeeder, Locals

LEMMA RepriceTwins ==
    ASSUME PlanTypeOK, TwinInv, NEW r \in Seeders, SeedReprice(r)
    PROVE  TwinInv'
<1>1. Kept
  <2>1. CASE UNCHANGED table
    BY <2>1 DEF Kept, Seeded
  <2>2. CASE table[seeder[r].plan].is = "stored"
    <3> DEFINE b   == seeder[r].plan
               row == [table[b] EXCEPT !.price = Seed(r).price]
    <3>1. Put(b, row) /\ b \in PlanIds
      BY <2>2 DEF SeedReprice, PlanTypeOK
    <3>2. table[b] \in PlanRows
      BY <3>1 DEF PlanTypeOK
    <3>3. /\ row.is = table[b].is /\ row.by = table[b].by
          /\ row.name = table[b].name /\ row.days = table[b].days
      BY <3>2 DEF PlanRows
    <3> HIDE DEF b, row
    <3>4. QED
      BY <3>1, <3>3, PutKept DEF Seeded
  <2>3. QED
    BY <2>1, <2>2 DEF SeedReprice
<1>2. Onward(r) /\ lapped' = lapped /\ seeder[r].pc = "reprice"
  BY DEF SeedReprice
<1>3. QED
  BY <1>1, <1>2, OnwardPc, KeptTwins, {r} \in SUBSET Seeders

\* An INSERT takes an id that is unused.
LEMMA AddPut ==
    ASSUME PlanTypeOK, NEW p \in Plans, NEW by \in {"seed", "admin"}, Add(p, by)
    PROVE  \E b \in PlanIds :
              /\ table[b].is = "unused"
              /\ Put(b, [is |-> "stored", name |-> p.name, days |-> p.days,
                         price |-> p.price, by |-> by])
<1>1. Unused \subseteq {b \in PlanIds : table[b].is = "unused"}
  BY PlanAssumption DEF Unused, PlanTypeOK
<1>2. (CHOOSE b \in Unused : TRUE) \in Unused
  BY DEF Add
<1>3. QED
  BY <1>1, <1>2 DEF Add

LEMMA InsertTwins ==
    ASSUME PlanTypeOK, TwinInv, NEW r \in Seeders, SeedInsert(r)
    PROVE  TwinInv'
<1> SUFFICES ASSUME ~lapped' PROVE TwinInv'
  BY DEF TwinInv
<1>1. ~lapped /\ Onward(r) /\ seeder[r].pc = "insert" /\ r \in Running
  BY DEF SeedInsert, Running
<1>2. seeder[r] \in Locals /\ Seed(r) \in Plans
  BY DefaultPlans DEF PlanTypeOK, Locals, Seed
<1>3. PICK b \in PlanIds : /\ table[b].is = "unused"
                           /\ Put(b, [is |-> "stored", name |-> Seed(r).name, days |-> Seed(r).days,
                                      price |-> Seed(r).price, by |-> "seed"])
  BY <1>2, AddPut DEF SeedInsert
<1>4. /\ table'[b].name = Seed(r).name /\ table'[b].days = Seed(r).days
      /\ ~Seeded(b)
      /\ \A c \in PlanIds \ {b} : table'[c] = table[c]
  BY <1>3 DEF Put, PlanTypeOK, Seeded
<1>5. \A c \in PlanIds : ~Twin(c, Seed(r))
  BY <1>1 DEF TwinInv
<1>6. \A c, d \in PlanIds : c # d /\ Seeded(c)' => ~Twin(d, table[c])'
  BY <1>1, <1>4, <1>5 DEF TwinInv, Twin, Seeded
<1>7. \A s \in Seeders : s # r => seeder'[s].pc = "idle"
  BY <1>1, OnwardPc DEF TwinInv, Running
<1>8. seeder'[r].pc # "insert"
  BY <1>1, OnwardPc
<1>9. QED
  BY <1>6, <1>7, <1>8 DEF TwinInv, Running

LEMMA TwinNext == PlanTypeOK /\ TwinInv /\ [Next]_vars => TwinInv'
<1> SUFFICES ASSUME PlanTypeOK, TwinInv, [Next]_vars PROVE TwinInv'
  OBVIOUS
<1>0. UNCHANGED table => Kept
  BY DEF Kept, Seeded
<1>1. ASSUME NEW p \in Additions, CreatePlan(p) PROVE TwinInv'
  <2>1. p \in Plans /\ AdminWrites("create") /\ Add(p, "admin")
    BY <1>1, PlanAssumption DEF CreatePlan
  <2>2. Kept
    BY <2>1, AddPut, PutKept
  <2>3. QED
    BY <2>1, <2>2, AdminKept
<1>2. ASSUME NEW b \in PlanIds, RemovePlan(b) PROVE TwinInv'
  <2>1. AdminWrites("remove") /\ Put(b, [NoPlan EXCEPT !.is = "deleted"])
    BY <1>2 DEF RemovePlan
  <2>2. [NoPlan EXCEPT !.is = "deleted"].is # "stored"
    BY DEF NoPlan
  <2>3. Kept
    BY <2>1, <2>2, PutKept
  <2>4. QED
    BY <2>1, <2>3, AdminKept
<1>3. ASSUME NEW b \in PlanIds, NEW dto \in Changes, UpdatePlan(b, dto) PROVE TwinInv'
  <2> DEFINE row == [table[b] EXCEPT !.name  = OrElse(dto.name, @),
                                     !.days  = OrElse(dto.days, @),
                                     !.price = OrElse(dto.price, @),
                                     !.by    = IF dto.name = None /\ dto.days = None
                                               THEN @ ELSE "admin"]
  <2>1. AdminWrites("update") /\ Put(b, row)
    BY <1>3 DEF UpdatePlan
  <2>2. table[b] \in PlanRows
    BY DEF PlanTypeOK
  <2>3. /\ row.is = table[b].is
        /\ row.by = "seed" => /\ row.by = table[b].by
                              /\ row.name = table[b].name /\ row.days = table[b].days
    BY <2>2 DEF PlanRows, OrElse
  <2> HIDE DEF row
  <2>4. Kept
    BY <2>1, <2>3, PutKept DEF Seeded
  <2>5. QED
    BY <2>1, <2>4, AdminKept
<1>4. ASSUME NEW r \in Seeders, SeedThrows(r) PROVE TwinInv'
  <2>1. /\ \A s \in Seeders : seeder'[s].pc = "idle" \/ seeder'[s] = seeder[s]
        /\ lapped' = lapped /\ UNCHANGED table
    BY <1>4 DEF SeedThrows, Step, PlanTypeOK, NoSeeder
  <2>2. QED
    BY <2>1, <1>0, KeptTwins, {} \in SUBSET Seeders
<1>5. ASSUME NEW r \in Seeders, NEW i \in Instances, SeedStart(r, i) PROVE TwinInv'
  <2> SUFFICES ASSUME ~lapped' PROVE TwinInv'
    BY DEF TwinInv
  <2>1. ~lapped /\ Running = {} /\ UNCHANGED table
    BY <1>5 DEF SeedStart
  <2>2. \A s \in Seeders : seeder[s].pc = "idle"
    BY <2>1 DEF Running
  <2>3. \A s \in Seeders : s # r => seeder'[s] = seeder[s]
    BY <1>5, <2>2 DEF SeedStart, Disturb, PlanTypeOK
  <2>4. seeder'[r].pc = "find"
    BY <1>5 DEF SeedStart, Disturb, NoSeeder
  <2>5. QED
    BY <2>1, <2>2, <2>3, <2>4 DEF TwinInv, Running, Twin, Seeded
<1>6. ASSUME NEW i \in Instances, InstanceStep(i) PROVE TwinInv'
  <2>1. /\ \A s \in Seeders : seeder'[s].pc = "idle" \/ seeder'[s] = seeder[s]
        /\ lapped' = lapped /\ UNCHANGED table
    BY <1>6 DEF InstanceStep, Close, Die, NoSeeder
  <2>2. QED
    BY <2>1, <1>0, KeptTwins, {} \in SUBSET Seeders
<1>7. CASE UNCHANGED vars
  <2>1. UNCHANGED <<table, seeder, lapped>>
    BY <1>7 DEF vars, plan
  <2>2. QED
    BY <2>1, <1>0, KeptTwins, {} \in SUBSET Seeders
<1>8. QED
  BY <1>1, <1>2, <1>3, <1>4, <1>5, <1>6, <1>7, FindTwins, RepriceTwins, InsertTwins
     DEF Next, SeedContinue

\* Failed, killed and repeated seedings, beside admins and restarts of any number of
\* instances, make no twins, unless two of them were under way at once.
THEOREM NoTwins == Spec => []TwinsOverlapped
<1> DEFINE Inv == PlanTypeOK /\ TwinInv
<1>1. Init => Inv
  BY PlanTypeInit, TwinInit
<1>2. Inv /\ [Next]_vars => Inv'
  BY PlanTypeNext, TwinNext
<1>3. Inv => TwinsOverlapped
  BY TwinInvSuffices
<1>4. QED
  BY <1>1, <1>2, <1>3, PTL DEF Spec

-----------------------------------------------------------------------------
(* What a seeding delivers. *)

\* Default plan k is in the table with its price.
Has(k) == \E b \in PlanIds : /\ table[b].is = "stored"
                             /\ table[b].name = Defaults[k].name
                             /\ table[b].days = Defaults[k].days
                             /\ table[b].price = Defaults[k].price

\* A seeding that nobody has disturbed is the only one, what it has gone through is
\* there, and the row it is about to change is still the one it found.
AloneInv(r) ==
    /\ \A s \in Running : s = r
    /\ \A j \in 1 .. seeder[r].k - 1 : Has(j)
    /\ seeder[r].pc = "reprice" => seeder[r].plan \in Same(Seed(r))

DeliverInv == \A r \in Running : seeder[r].alone => AloneInv(r)

LEMMA DeliverInit == Init => DeliverInv
BY DEF Init, DeliverInv, Running, NoSeeder

\* A step of a seeding is no other's.
LEMMA SeedLocals ==
    ASSUME PlanTypeOK, NEW r \in Seeders, SeedContinue(r)
    PROVE  /\ r \in Running
           /\ \A s \in Seeders \ {r} : seeder'[s] = seeder[s]
           /\ seeder'[r].pc # "idle" => seeder'[r].alone = seeder[r].alone
<1>1. seeder[r] \in Locals
  BY DEF PlanTypeOK
<1>2. r \in Running
  BY DEF SeedContinue, SeedFind, SeedReprice, SeedInsert, Running
<1>3. CASE Onward(r)
  BY <1>1, <1>2, <1>3 DEF Onward, Step, PlanTypeOK, NoSeeder, Locals
<1>4. CASE Step(r, [seeder[r] EXCEPT !.pc = "insert"])
  BY <1>1, <1>2, <1>4 DEF Step, PlanTypeOK, Locals
<1>5. ASSUME NEW b, Step(r, [seeder[r] EXCEPT !.pc = "reprice", !.plan = b])
      PROVE  /\ \A s \in Seeders \ {r} : seeder'[s] = seeder[s]
             /\ seeder'[r].alone = seeder[r].alone
  BY <1>1, <1>5 DEF Step, PlanTypeOK, Locals
<1>6. QED
  BY <1>2, <1>3, <1>4, <1>5 DEF SeedContinue, SeedFind, SeedReprice, SeedInsert

LEMMA OnwardDelivers ==
    ASSUME PlanTypeOK, NEW r \in Running, Onward(r), AloneInv(r),
           \A j \in 1 .. seeder[r].k : Has(j)'
    PROVE  /\ seeder'[r].pc # "idle" => AloneInv(r)'
           /\ seeder'[r].pc = "idle" => \A j \in 1 .. Len(Defaults) : Has(j)'
<1>1. seeder[r] \in Locals /\ r \in Seeders
  BY DEF PlanTypeOK, Running
<1>2. CASE seeder[r].k = Len(Defaults)
  BY <1>1, <1>2 DEF Onward, Step, NoSeeder, PlanTypeOK
<1>3. CASE seeder[r].k # Len(Defaults)
  <2>1. /\ seeder'[r].pc = "find" /\ seeder'[r].k = seeder[r].k + 1
        /\ \A s \in Seeders \ {r} : seeder'[s] = seeder[s]
    BY <1>1, <1>3 DEF Onward, Step, PlanTypeOK, Locals
  <2>2. seeder[r].k \in Nat
    BY <1>1 DEF Locals
  <2>3. \A s \in Running' : s = r
    BY <2>1 DEF AloneInv, Running
  <2>4. \A j \in 1 .. seeder'[r].k - 1 : Has(j)'
    BY <2>1, <2>2
  <2>5. QED
    BY <2>1, <2>3, <2>4 DEF AloneInv
<1>4. QED
  BY <1>2, <1>3

LEMMA FindDelivers ==
    ASSUME PlanTypeOK, NEW r \in Running, AloneInv(r), SeedFind(r)
    PROVE  /\ seeder'[r].pc # "idle" => AloneInv(r)'
           /\ seeder'[r].pc = "idle" => \A j \in 1 .. Len(Defaults) : Has(j)'
<1>1. seeder[r] \in Locals /\ r \in Seeders /\ table' = table
  BY DEF PlanTypeOK, Running, SeedFind
<1>2. \A j : Has(j)' = Has(j)
  BY <1>1 DEF Has
<1>3. CASE Step(r, [seeder[r] EXCEPT !.pc = "insert"])
  <2>1. /\ seeder'[r].pc = "insert" /\ seeder'[r].k = seeder[r].k
        /\ \A s \in Seeders \ {r} : seeder'[s] = seeder[s]
    BY <1>1, <1>3 DEF Step, PlanTypeOK, Locals
  <2>2. QED
    BY <2>1, <1>2 DEF AloneInv, Running
<1>4. ASSUME NEW b \in Same(Seed(r)),
             Step(r, [seeder[r] EXCEPT !.pc = "reprice", !.plan = b])
      PROVE  seeder'[r].pc = "reprice" /\ AloneInv(r)'
  <2>1. /\ seeder'[r].pc = "reprice" /\ seeder'[r].k = seeder[r].k /\ seeder'[r].plan = b
        /\ \A s \in Seeders \ {r} : seeder'[s] = seeder[s]
    BY <1>1, <1>4 DEF Step, PlanTypeOK, Locals
  <2>2. b \in Same(Seed(r))'
    BY <2>1, <1>1 DEF Same, Seed
  <2>3. QED
    BY <2>1, <2>2, <1>2 DEF AloneInv, Running
<1>5. ASSUME NEW b \in Same(Seed(r)), table[b].price = Seed(r).price, Onward(r)
      PROVE  /\ seeder'[r].pc # "idle" => AloneInv(r)'
             /\ seeder'[r].pc = "idle" => \A j \in 1 .. Len(Defaults) : Has(j)'
  <2>1. Has(seeder[r].k)
    BY <1>5 DEF Has, Same, Seed
  <2>2. seeder[r].k \in Nat
    BY <1>1 DEF Locals
  <2>3. \A j \in 1 .. seeder[r].k : Has(j)'
    BY <2>1, <2>2, <1>2 DEF AloneInv
  <2>4. QED
    BY <2>3, <1>5, OnwardDelivers
<1>6. QED
  BY <1>3, <1>4, <1>5 DEF SeedFind

\* The rows of the default plans before k are not the one that a write for k is about.
LEMMA WriteDelivers ==
    ASSUME PlanTypeOK, NEW r \in Running, AloneInv(r), Onward(r), NEW b \in PlanIds,
           table[b].is # "stored" \/ b \in Same(Seed(r)),
           \A c \in PlanIds \ {b} : table'[c] = table[c],
           table'[b].is = "stored", table'[b].name = Seed(r).name,
           table'[b].days = Seed(r).days, table'[b].price = Seed(r).price
    PROVE  /\ seeder'[r].pc # "idle" => AloneInv(r)'
           /\ seeder'[r].pc = "idle" => \A j \in 1 .. Len(Defaults) : Has(j)'
<1>0. PICK k \in 1 .. Len(Defaults) : k = seeder[r].k
  BY DEF PlanTypeOK, Running, Locals
<1>1. Seed(r) = Defaults[k] /\ Len(Defaults) \in Nat
  BY <1>0, DefaultPlans DEF Seed
<1>2. Has(k)'
  BY <1>1 DEF Has
<1>3. ASSUME NEW j \in 1 .. k - 1 PROVE Has(j)'
  <2>1. j \in 1 .. Len(Defaults) /\ j # k
    BY <1>1
  <2>2. PICK c \in PlanIds : /\ table[c].is = "stored"
                             /\ table[c].name = Defaults[j].name
                             /\ table[c].days = Defaults[j].days
                             /\ table[c].price = Defaults[j].price
    BY <1>0, <1>3 DEF AloneInv, Has
  <2>3. c # b
    BY <2>1, <2>2, <1>1, PlanAssumption DEF Same
  <2>4. QED
    BY <2>2, <2>3 DEF Has
<1>4. \A j \in 1 .. k : Has(j)'
  BY <1>1, <1>2, <1>3
<1>5. QED
  BY <1>0, <1>4, OnwardDelivers

LEMMA RepriceDelivers ==
    ASSUME PlanTypeOK, NEW r \in Running, AloneInv(r), SeedReprice(r)
    PROVE  /\ seeder'[r].pc # "idle" => AloneInv(r)'
           /\ seeder'[r].pc = "idle" => \A j \in 1 .. Len(Defaults) : Has(j)'
<1> DEFINE b   == seeder[r].plan
           row == [table[b] EXCEPT !.price = Seed(r).price]
<1>1. b \in Same(Seed(r)) /\ Onward(r)
  BY DEF SeedReprice, AloneInv
<1>2. b \in PlanIds /\ table[b].is = "stored" /\ table[b].name = Seed(r).name
      /\ table[b].days = Seed(r).days /\ table[b] \in PlanRows
  BY <1>1 DEF Same, PlanTypeOK
<1>3. Put(b, row)
  BY <1>2 DEF SeedReprice
<1>4. row.is = "stored" /\ row.name = Seed(r).name /\ row.days = Seed(r).days
      /\ row.price = Seed(r).price
  BY <1>2 DEF PlanRows
<1> HIDE DEF b, row
<1>5. table'[b] = row /\ \A c \in PlanIds \ {b} : table'[c] = table[c]
  BY <1>2, <1>3 DEF Put, PlanTypeOK
<1>6. QED
  BY <1>1, <1>2, <1>4, <1>5, WriteDelivers

LEMMA InsertDelivers ==
    ASSUME PlanTypeOK, NEW r \in Running, AloneInv(r), SeedInsert(r)
    PROVE  /\ seeder'[r].pc # "idle" => AloneInv(r)'
           /\ seeder'[r].pc = "idle" => \A j \in 1 .. Len(Defaults) : Has(j)'
<1>1. Seed(r) \in Plans /\ Onward(r)
  BY DefaultPlans DEF PlanTypeOK, Running, Locals, Seed, SeedInsert
<1>2. PICK b \in PlanIds : /\ table[b].is = "unused"
                           /\ Put(b, [is |-> "stored", name |-> Seed(r).name, days |-> Seed(r).days,
                                      price |-> Seed(r).price, by |-> "seed"])
  BY <1>1, AddPut DEF SeedInsert
<1>3. /\ table'[b].is = "stored" /\ table'[b].name = Seed(r).name
      /\ table'[b].days = Seed(r).days /\ table'[b].price = Seed(r).price
      /\ \A c \in PlanIds \ {b} : table'[c] = table[c]
  BY <1>2 DEF Put, PlanTypeOK
<1>4. QED
  BY <1>1, <1>2, <1>3, WriteDelivers

\* The two facts about a seeding's own step.
LEMMA SeedDelivers ==
    ASSUME PlanTypeOK, DeliverInv, NEW r \in Seeders, SeedContinue(r)
    PROVE  /\ DeliverInv'
           /\ seeder[r].alone /\ seeder'[r].pc = "idle" =>
                  \A j \in 1 .. Len(Defaults) : Has(j)'
<1>1. /\ r \in Running
      /\ \A s \in Seeders \ {r} : seeder'[s] = seeder[s]
      /\ seeder'[r].pc # "idle" => seeder'[r].alone = seeder[r].alone
  BY SeedLocals
<1>2. CASE seeder[r].alone
  <2>1. AloneInv(r)
    BY <1>1, <1>2 DEF DeliverInv
  <2>2. /\ seeder'[r].pc # "idle" => AloneInv(r)'
        /\ seeder'[r].pc = "idle" => \A j \in 1 .. Len(Defaults) : Has(j)'
    BY <1>1, <2>1, FindDelivers, RepriceDelivers, InsertDelivers DEF SeedContinue
  <2>3. Running' \subseteq {r}
    BY <1>1, <2>1 DEF AloneInv, Running
  <2>4. DeliverInv'
    BY <2>2, <2>3 DEF DeliverInv, Running
  <2>5. QED
    BY <2>2, <2>4
<1>3. CASE ~seeder[r].alone
  <2>1. \A s \in Running : ~seeder[s].alone
    BY <1>1, <1>3 DEF DeliverInv, AloneInv
  <2>2. \A s \in Running' : ~seeder'[s].alone
    BY <1>1, <1>3, <2>1 DEF Running
  <2>3. QED
    BY <1>3, <2>2 DEF DeliverInv
<1>4. QED
  BY <1>2, <1>3

LEMMA AdminDelivers ==
    ASSUME PlanTypeOK, NEW op, AdminWrites(op)
    PROVE  /\ DeliverInv'
           /\ \A r \in Seeders : seeder'[r].pc = seeder[r].pc
<1>1. \A r \in Seeders : /\ seeder'[r].pc = seeder[r].pc
                         /\ seeder'[r].pc # "idle" => ~seeder'[r].alone
  BY DEF AdminWrites, Disturb, PlanTypeOK, Locals
<1>2. QED
  BY <1>1 DEF DeliverInv, Running

LEMMA FewerDelivers ==
    ASSUME DeliverInv, UNCHANGED table,
           \A r \in Seeders : seeder'[r].pc = "idle" \/ seeder'[r] = seeder[r]
    PROVE  DeliverInv'
<1> SUFFICES ASSUME NEW r \in Running', seeder'[r].alone PROVE AloneInv(r)'
  BY DEF DeliverInv
<1>1. r \in Running /\ seeder'[r] = seeder[r] /\ Running' \subseteq Running
  BY DEF Running
<1>2. AloneInv(r)
  BY <1>1 DEF DeliverInv
<1>3. \A j : Has(j)' = Has(j)
  BY DEF Has
<1>4. QED
  BY <1>1, <1>2, <1>3 DEF AloneInv, Same, Seed

LEMMA DeliverNext ==
    PlanTypeOK /\ ServerTypeOK /\ DeliverInv /\ [Next]_vars => DeliverInv' /\ Delivers
<1> SUFFICES ASSUME PlanTypeOK, ServerTypeOK, DeliverInv, [Next]_vars
             PROVE  DeliverInv' /\ Delivers
  OBVIOUS
<1>1. ASSUME NEW op, AdminWrites(op) PROVE DeliverInv' /\ Delivers
  BY <1>1, AdminDelivers DEF Delivers
<1>2. ASSUME NEW r \in Seeders, SeedContinue(r) PROVE DeliverInv' /\ Delivers
  <2>1. DeliverInv' /\ (seeder[r].alone /\ seeder'[r].pc = "idle" =>
                            \A k \in 1 .. Len(Defaults) : Has(k)')
    BY <1>2, SeedDelivers
  <2>2. \A s \in Seeders \ {r} : seeder'[s] = seeder[s]
    BY <1>2, SeedLocals
  <2>3. QED
    BY <2>1, <2>2 DEF Delivers, Has
<1>3. ASSUME NEW r \in Seeders, SeedThrows(r) PROVE DeliverInv' /\ Delivers
  <2>1. /\ \A s \in Seeders : seeder'[s].pc = "idle" \/ seeder'[s] = seeder[s]
        /\ UNCHANGED table
    BY <1>3 DEF SeedThrows, Step, PlanTypeOK, NoSeeder
  <2>2. faults' = faults + 1 /\ faults \in Nat
    BY <1>3, ServerAssumption DEF SeedThrows, ServerTypeOK
  <2>3. Delivers
    BY <2>2 DEF Delivers
  <2>4. QED
    BY <2>1, <2>3, FewerDelivers
<1>4. ASSUME NEW r \in Seeders, NEW i \in Instances, SeedStart(r, i)
      PROVE  DeliverInv' /\ Delivers
  <2> DEFINE alone == Running = {}
             new   == [NoSeeder EXCEPT !.pc = "find", !.at = i, !.alone = alone]
  <2>1. seeder' = [Disturb(seeder) EXCEPT ![r] = new] /\ seeder[r].pc = "idle"
    BY <1>4 DEF SeedStart
  <2>2. new.pc = "find" /\ new.k = 1 /\ new.alone = alone
    <3> HIDE DEF alone
    <3>1. QED
      BY DEF NoSeeder
  <2> HIDE DEF new
  <2>3. /\ seeder'[r] = new
        /\ \A s \in Seeders \ {r} : /\ seeder'[s].pc = seeder[s].pc
                                    /\ seeder'[s].pc # "idle" => ~seeder'[s].alone
    BY <2>1 DEF Disturb, PlanTypeOK, Locals
  <2>4. DeliverInv'
    <3>1. CASE Running = {}
      <4>1. Running' = {r}
        BY <3>1, <2>2, <2>3 DEF Running
      <4>2. AloneInv(r)'
        BY <4>1, <2>2, <2>3 DEF AloneInv
      <4>3. QED
        BY <4>1, <4>2 DEF DeliverInv
    <3>2. CASE Running # {}
      <4>1. ~alone
        BY <3>2
      <4> HIDE DEF alone
      <4>2. \A s \in Running' : ~seeder'[s].alone
        BY <4>1, <2>2, <2>3 DEF Running
      <4>3. QED
        BY <4>2 DEF DeliverInv
    <3>3. QED
      BY <3>1, <3>2
  <2>5. Delivers
    BY <2>1, <2>2, <2>3 DEF Delivers
  <2>6. QED
    BY <2>4, <2>5
<1>5. ASSUME NEW i \in Instances, InstanceStep(i) PROVE DeliverInv' /\ Delivers
  <2>1. /\ \A s \in Seeders : seeder'[s].pc = "idle" \/ seeder'[s] = seeder[s]
        /\ UNCHANGED table
    BY <1>5 DEF InstanceStep, Close, Die, NoSeeder
  <2>2. DeliverInv'
    BY <2>1, FewerDelivers
  <2>3. CASE UNCHANGED seeder
    BY <2>2, <2>3 DEF Delivers
  <2>4. CASE Die(i)
    <3>1. life' = [life EXCEPT ![i] = "exited"] /\ life[i] # "exited"
      BY <2>4 DEF Die, AppClosed, Crash, Exit, Set, Alive
    <3>2. life' # life
      BY <3>1 DEF ServerTypeOK
    <3>3. QED
      BY <2>2, <3>2 DEF Delivers
  <2>5. QED
    BY <1>5, <2>2, <2>3, <2>4 DEF InstanceStep, Close
<1>6. CASE UNCHANGED vars
  <2>1. UNCHANGED <<table, seeder>>
    BY <1>6 DEF vars, plan
  <2>2. QED
    BY <2>1, FewerDelivers DEF Delivers
<1>7. QED
  BY <1>1, <1>2, <1>3, <1>4, <1>5, <1>6 DEF Next, CreatePlan, UpdatePlan, RemovePlan

\* A seeding beside which nobody writes plans leaves each default plan in the table
\* with its price, for any default plans and whatever the table held, half-finished
\* seedings and twins included.
THEOREM SeedingIsComplete == Spec => SeedingDelivers
<1> DEFINE Inv == TypeOK /\ Tries /\ DeliverInv
<1>1. Init => Inv
  BY PlanTypeInit, TriesInit, DeliverInit DEF Init, TypeOK
<1>2. Inv /\ [Next]_vars => Inv'
  BY PlanTypeNext, ServerNextTypes, DeliverNext DEF TypeOK
<1>3. Inv /\ [Next]_vars => [Delivers]_vars
  BY DeliverNext DEF TypeOK
<1>4. QED
  BY <1>1, <1>2, <1>3, PTL DEF Spec, SeedingDelivers

-----------------------------------------------------------------------------
(* What is read. *)

LEMMA StoredRows ==
    ASSUME PlanTypeOK
    PROVE  /\ Stored(table) \subseteq PlanIds /\ IsFiniteSet(Stored(table))
           /\ \A b \in Stored(table) : table[b].days \in Nat
<1>1. Stored(table) \subseteq PlanIds
  BY DEF Stored, PlanTypeOK
<1>2. IsFiniteSet(Stored(table))
  BY <1>1, PlanAssumption, FS_Subset
<1>3. ASSUME NEW b \in Stored(table) PROVE table[b].days \in Nat
  <2>1. table[b] \in PlanRows /\ table[b].days # None
    BY <1>1 DEF PlanTypeOK, Stored, Whole
  <2>2. QED
    BY <2>1, PlanAssumption DEF PlanRows
<1>4. QED
  BY <1>1, <1>2, <1>3

\* A cadence has the same cycle in the five functions.
LEMMA Cycles ==
    ASSUME NEW d \in Nat
    PROVE  <<FrequencyLabel(d), PeriodLabel(d), ShipmentPeriodLabel(d), CycleKey(d),
             BillingFrequency(d)>>
             \in {<<"Yearly", "/yr", "/yr", "YEARLY", "yearly">>,
                  <<"Every 3 months", "/3mo", "/3mo", "EVERY_3_MONTHS", "every 3 months">>,
                  <<"Every 2 weeks", "/2wk", "/2wk", "EVERY_2_WEEKS", "every 2 weeks">>,
                  <<"Weekly", "/wk", "/wk", "WEEKLY", "weekly">>,
                  <<"Monthly", "/mo", "/mo", "MONTHLY", "monthly">>}
<1> USE DEF FrequencyLabel, PeriodLabel, ShipmentPeriodLabel, CycleKey, BillingFrequency, Quarter
<1>1. CASE d >= 360
  BY <1>1
<1>2. CASE d \in 89 .. 92
  BY <1>2
<1>3. CASE d = 14
  BY <1>3
<1>4. CASE d = 7
  BY <1>4
<1>5. CASE ~(d >= 360) /\ d \notin 89 .. 92 /\ d # 14 /\ d # 7
  BY <1>5
<1>6. QED
  BY <1>1, <1>2, <1>3, <1>4, <1>5

\* The Stripe price that is charged and the period that is shown tell the same cadences
\* apart.
LEMMA SameCycle ==
    ASSUME NEW d \in Nat, NEW e \in Nat
    PROVE  /\ FrequencyLabel(d) = FrequencyLabel(e) <=> CycleKey(d) = CycleKey(e)
           /\ ShipmentPeriodLabel(d) = PeriodLabel(e) <=> BillingFrequency(d) = BillingFrequency(e)
           /\ PeriodLabel(d) = PeriodLabel(e) <=> CycleKey(d) = CycleKey(e)
BY Cycles

LEMMA Charged == PlanTypeOK => ChargedAsShown
<1> SUFFICES ASSUME PlanTypeOK, NEW b \in Stored(table), NEW c \in Stored(table)
    PROVE  /\ FrequencyLabel(table[b].days) = FrequencyLabel(table[c].days)
                <=> CycleKey(table[b].days) = CycleKey(table[c].days)
           /\ ShipmentPeriodLabel(table[b].days) = PeriodLabel(table[c].days)
                <=> BillingFrequency(table[b].days) = BillingFrequency(table[c].days)
           /\ table[b].name = table[c].name =>
                (Option(table[b]).period = Option(table[c]).period
                   <=> PriceKey(table[b]) = PriceKey(table[c]))
  BY DEF ChargedAsShown
<1>1. table[b].days \in Nat /\ table[c].days \in Nat
  BY StoredRows
<1>2. QED
  BY <1>1, SameCycle DEF Option, PriceKey

LEMMA Adds == PlanTypeOK => SummaryAddsUp
<1> SUFFICES ASSUME PlanTypeOK PROVE SummaryAddsUp
  OBVIOUS
<1> DEFINE S == Stored(table)
           W == {b \in S : table[b].days <= 7}
           Y == {b \in S : table[b].days >= 360}
           N == {table[b].name : b \in S}
           f == [b \in S |-> table[b].name]
<1>1. IsFiniteSet(S) /\ \A b \in S : table[b].days \in Nat
  BY StoredRows
<1>2. /\ IsFiniteSet(W) /\ IsFiniteSet(Y) /\ IsFiniteSet(W \cup Y)
      /\ Cardinality(W \cup Y) <= Cardinality(S)
  <2>1. W \in SUBSET S /\ Y \in SUBSET S /\ W \cup Y \in SUBSET S
    OBVIOUS
  <2> HIDE DEF W, Y, S
  <2>2. QED
    BY <1>1, <2>1, FS_Subset
<1>3. W \cap Y = {}
  BY <1>1
<1>4. /\ Cardinality(S) \in Nat /\ Cardinality(W) \in Nat /\ Cardinality(Y) \in Nat
      /\ Cardinality(W) + Cardinality(Y) <= Cardinality(S)
  <2> HIDE DEF W, Y, S
  <2>1. /\ Cardinality(S) \in Nat /\ Cardinality(W) \in Nat /\ Cardinality(Y) \in Nat
    BY <1>1, <1>2, FS_CardinalityType
  <2>2. Cardinality(W \cup Y) = Cardinality(W) + Cardinality(Y) - Cardinality(W \cap Y)
    BY <1>2, FS_Union
  <2>3. Cardinality(W \cap Y) = 0
    BY <1>3, FS_EmptySet
  <2>4. QED
    BY <2>1, <2>2, <2>3, <1>2
<1>5. Cardinality(N) <= Cardinality(S)
  <2>1. f \in Surjection(S, N)
    BY DEF Surjection
  <2> HIDE DEF f, S, N
  <2>2. QED
    BY <1>1, <2>1, FS_Surjection
<1>6. /\ Summary(table).total = Cardinality(S) /\ Summary(table).boxes = Cardinality(N)
      /\ Summary(table).weekly = Cardinality(W) /\ Summary(table).yearly = Cardinality(Y)
      /\ Summary(table).monthly = Cardinality(S) - Cardinality(W) - Cardinality(Y)
  BY DEF Summary
<1>7. Listed(table, "weekly") = W /\ Listed(table, "yearly") = Y
  BY DEF Listed
<1> HIDE DEF S, W, Y, N
<1>8. QED
  BY <1>4, <1>5, <1>6, <1>7 DEF SummaryAddsUp

\* A set of positive numbers has a least element: of the intervals that end in them,
\* one has no other within it.
LEMMA LeastIndex ==
    ASSUME NEW S \in SUBSET (Nat \ {0}), S # {}
    PROVE  \E k \in S : \A j \in S : k <= j
<1> DEFINE T == {1 .. k : k \in S}
<1>1. T \subseteq FiniteSubsetsOf(Nat) /\ T # {}
  <2>1. ASSUME NEW k \in S PROVE 1 .. k \in SUBSET Nat /\ IsFiniteSet(1 .. k)
    BY FS_Interval
  <2>2. QED
    BY <2>1 DEF FiniteSubsetsOf
<1>2. IsWellFoundedOn(StrictSubsetOrdering(Nat), FiniteSubsetsOf(Nat))
  BY FS_StrictSubsetOrderingWellFounded
<1>3. PICK x \in T : \A y \in T : <<y, x>> \notin StrictSubsetOrdering(Nat)
  <2> HIDE DEF T
  <2>1. QED
    BY <1>1, <1>2, WFMin
<1>4. PICK k \in S : x = 1 .. k
  OBVIOUS
<1>5. ASSUME NEW j \in S PROVE k <= j
  <2>1. SUFFICES ASSUME j < k PROVE FALSE
    OBVIOUS
  <2>2. 1 .. j \in T /\ 1 .. j \subseteq 1 .. k /\ k \in 1 .. k /\ k \notin 1 .. j
    BY <2>1
  <2>3. <<1 .. j, 1 .. k>> \in StrictSubsetOrdering(Nat)
    BY <2>2 DEF StrictSubsetOrdering
  <2>4. QED
    BY <2>2, <2>3, <1>3, <1>4
<1>6. QED
  BY <1>5

\* The box that is featured is one of those that are shown.
LEMMA FeaturedIsShown ==
    ASSUME Shown(table) # {}
    PROVE  \E m \in Shown(table) : Presets[m] = FeaturedName(table)
<1>1. CASE \E k \in Shown(table) : Presets[k] = Featured
  BY <1>1 DEF FeaturedName
<1>2. CASE ~\E k \in Shown(table) : Presets[k] = Featured
  <2> DEFINE m == CHOOSE k \in Shown(table) : \A j \in Shown(table) : k <= j
  <2>1. Shown(table) \in SUBSET (Nat \ {0})
    BY StorefrontAssumption DEF Shown
  <2>2. m \in Shown(table)
    BY <2>1, LeastIndex
  <2>3. FeaturedName(table) = Presets[m]
    BY <1>2 DEF FeaturedName
  <2> HIDE DEF m
  <2>4. QED
    BY <2>2, <2>3
<1>3. QED
  BY <1>1, <1>2

LEMMA OneFeatured ==
    ASSUME Shown(table) # {}
    PROVE  Cardinality({k \in Shown(table) : Presets[k] = FeaturedName(table)}) = 1
<1>1. PICK m \in Shown(table) : Presets[m] = FeaturedName(table)
  BY FeaturedIsShown
<1>2. \A k \in Shown(table) : Presets[k] = FeaturedName(table) => k = m
  BY <1>1, StorefrontAssumption DEF Shown
<1>3. {k \in Shown(table) : Presets[k] = FeaturedName(table)} = {m}
  BY <1>1, <1>2
<1>4. QED
  BY <1>3, FS_Singleton

\* The representative is one of the box's plans; it is a monthly one if there is one,
\* and a yearly one only if all are.
LEMMA RepresentativeOf ==
    ASSUME PlanTypeOK, NEW n, NEW b \in Representatives(table, n)
    PROVE  /\ b \in Group(table, n)
           /\ (\E c \in Group(table, n) : table[c].days \in 28 .. 31) => table[b].days \in 28 .. 31
           /\ table[b].days >= 360 => \A c \in Group(table, n) : table[c].days >= 360
<1> DEFINE group   == Group(table, n)
           monthly == {c \in group : table[c].days \in 28 .. 31}
           shorter == {c \in group : table[c].days < 360}
<1>0. \A c \in group : table[c].days \in Nat
  BY StoredRows DEF Group
<1>1. CASE monthly # {}
  <2>1. b \in monthly
    BY <1>1 DEF Representatives, Earliest
  <2>2. QED
    BY <2>1, <1>0
<1>2. CASE monthly = {} /\ shorter # {}
  <2>1. b \in shorter
    BY <1>2 DEF Representatives, Earliest
  <2>2. QED
    BY <2>1, <1>0, <1>2
<1>3. CASE monthly = {} /\ shorter = {}
  <2>1. b \in group
    BY <1>3 DEF Representatives, Earliest
  <2>2. QED
    BY <2>1, <1>0, <1>3
<1>4. QED
  BY <1>1, <1>2, <1>3

\* Which of the periods are the year's and the month's.
LEMMA Periods ==
    ASSUME NEW d \in Nat
    PROVE  /\ PeriodLabel(d) = "/yr" <=> d >= 360
           /\ d \in 28 .. 31 => PeriodLabel(d) = "/mo"
<1> USE DEF PeriodLabel, Quarter
<1>1. CASE d >= 360
  BY <1>1
<1>2. CASE d \in 89 .. 92
  BY <1>2
<1>3. CASE d = 14 \/ d = 7
  BY <1>3
<1>4. CASE ~(d >= 360) /\ d \notin 89 .. 92 /\ d # 14 /\ d # 7
  BY <1>4
<1>5. QED
  BY <1>1, <1>2, <1>3, <1>4

LEMMA Headline == PlanTypeOK => StorefrontHeadline
<1> SUFFICES ASSUME PlanTypeOK PROVE StorefrontHeadline
  OBVIOUS
<1>1. ASSUME NEW k \in Shown(table), NEW b \in Representatives(table, Presets[k])
      PROVE  LET item == Item(table, Presets[k], b)
             IN  /\ \E o \in item.options : o.price = item.price /\ o.period = item.period
                 /\ (\E c \in Group(table, Presets[k]) : table[c].days \in 28 .. 31)
                       => item.period = "/mo"
                 /\ item.period = "/yr" => \A o \in item.options : o.period = "/yr"
  <2> DEFINE n    == Presets[k]
             item == Item(table, n, b)
  <2>1. /\ item.price = table[b].price /\ item.period = PeriodLabel(table[b].days)
        /\ item.options = {Option(table[c]) : c \in Group(table, n)}
    BY DEF Item
  <2>2. \A c \in Group(table, n) : /\ Option(table[c]).price = table[c].price
                                   /\ Option(table[c]).period = PeriodLabel(table[c].days)
                                   /\ table[c].days \in Nat
    BY StoredRows DEF Option, Group
  <2> HIDE DEF n, item
  <2>3. /\ b \in Group(table, n)
        /\ (\E c \in Group(table, n) : table[c].days \in 28 .. 31) => table[b].days \in 28 .. 31
        /\ table[b].days >= 360 => \A c \in Group(table, n) : table[c].days >= 360
    BY RepresentativeOf DEF n
  <2>4. \E o \in item.options : o.price = item.price /\ o.period = item.period
    BY <2>1, <2>2, <2>3
  <2>5. (\E c \in Group(table, n) : table[c].days \in 28 .. 31) => item.period = "/mo"
    BY <2>1, <2>2, <2>3, Periods
  <2>6. item.period = "/yr" => \A o \in item.options : o.period = "/yr"
    BY <2>1, <2>2, <2>3, Periods
  <2>7. QED
    BY <2>4, <2>5, <2>6 DEF n, item
<1>2. QED
  BY <1>1, OneFeatured DEF StorefrontHeadline

\* Whatever admins, seedings and restarts leave in the table: two plans of a box are
\* shown with one period if and only if one Stripe price pays both, the summary adds
\* up, a box is headed by the price and the period of one of its plans, a yearly one
\* only if all are, and one box is featured.
THEOREM ReadsAlwaysAgree == Spec => []ReadsAgree
<1>1. PlanTypeOK => ReadsAgree
  BY Charged, Adds, Headline DEF ReadsAgree
<1>2. Spec => []PlanTypeOK
  BY PlanTypeInit, PlanTypeNext, PTL DEF Spec
<1>3. QED
  BY <1>1, <1>2, PTL

=============================================================================
