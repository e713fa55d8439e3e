---------------------- MODULE MC_SubscriptionLifecycle ----------------------
(* Instances of SubscriptionLifecycle for TLC. *)
EXTENDS SubscriptionLifecycle, TLC

\* A weekly and a yearly plan, each with a Stripe price of its own.
MCPriceOf == [p \in Plans |-> p]

\* Slots are interchangeable, and so are users.
SlotSymmetry == Permutations(Requests) \union Permutations(Users)

\* Workloads: of subscribers alone, of a Stripe customer beside an admin who
\* creates and activates rows, and everything.
SubscriberOps == UserOps \union {"expire"}
AllOps        == UserOps \union AdminOps \union StripeOps
OverlapOps    == AllOps \ {"subscribe", "pause", "adminRemove"}

\* What an admin sends: a status, or another user, or both, or another plan.
NoEdits     == {}
StatusEdits == [status : Statuses, user : {None}, plan : {None}]
Activations == [status : {"ACTIVE"}, user : {None}, plan : {None}]
UserEdits   == [status : {None, "ACTIVE"}, user : Users, plan : {None}]
PlanEdits   == [status : {None}, user : {None}, plan : Plans]
AllEdits    == StatusEdits \union UserEdits \union PlanEdits
=============================================================================
