---------------------------- MODULE MC_PlanServer ----------------------------
(* An instance of PlanServer for TLC. *)
EXTENDS PlanServer

Plan(n, d, p) == [name |-> n, days |-> d, price |-> p]
Row(n, d, p)  == [is |-> "stored", name |-> n, days |-> d, price |-> p, by |-> "admin"]

MCPresets  == <<"Wellness", "Gamer">>
MCDefaults == <<Plan("Wellness", 7, 1), Plan("Wellness", 365, 2)>>

\* No plans; the yearly default at another price; two of the weekly one.
NoPlans  == [b \in PlanIds |-> NoPlan]
Repriced == [NoPlans EXCEPT ![1] = Row("Wellness", 365, 1)]
Twins    == [NoPlans EXCEPT ![1] = Row("Wellness", 7, 1), ![2] = Row("Wellness", 7, 2)]

MCAdditions == {Plan("Wellness", 30, 2), Plan("Gamer", 14, 1), Plan("Other", 91, 1)}
Change(n, d, p) == [name |-> n, days |-> d, price |-> p]
MCChanges == {Change(None, 4, 1), Change("Other", None, None), Change("Wellness", None, None)}

\* Instances without requests on a database that waits for the migrations, three with a
\* failure or two with more; two that are asked for the default plans; one with an admin
\* beside a seeding.
Boots  == [instances |-> Instances, ops |-> {}, seeders |-> {}, tables |-> {NoPlans},
           schema |-> 0, faults |-> 1, ids |-> {}]
Fails  == [Boots EXCEPT !.instances = {"i2", "i3"}, !.faults = MaxFaults]
Seeds  == [instances |-> {"i2", "i3"}, ops |-> {"seed"}, seeders |-> Seeders,
           tables |-> {NoPlans, Repriced, Twins}, schema |-> 1, faults |-> 1, ids |-> PlanIds]
Admins == [instances |-> {"i3"}, ops |-> {"seed", "create", "update", "remove"}, faults |-> 0,
           seeders |-> {1}, tables |-> {Repriced}, schema |-> 1, ids |-> 1 .. 4]
Mixed  == {Boots, Fails, Seeds, Admins}
=============================================================================
