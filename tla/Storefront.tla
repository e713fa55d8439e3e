------------------------------ MODULE Storefront ------------------------------
(***************************************************************************)
(* What the code makes of a plan's frequency_in_days and of the table of   *)
(* plans: the names of a billing cycle, which five functions spell each in *)
(* its own way, the Stripe price a plan is charged by, the admin's list    *)
(* with its summary, and the storefront of the app. There is no state      *)
(* here; PlanServer applies it to the table it keeps.                      *)
(*                                                                         *)
(* A table is a function from ids to rows with the fields is, name, days   *)
(* and price. The texts of the storefront are left out.                    *)
(***************************************************************************)
EXTENDS Integers, Sequences, FiniteSets

CONSTANTS
    Names,    \* names of boxes
    Presets,  \* storefrontPresets: the names of the curated boxes, in order
    Featured, \* storefrontFeaturedPlanName
    Unnamed   \* no name

ASSUME StorefrontAssumption ==
    /\ Presets \in Seq(Names) /\ Featured \in Names
    /\ \A j, k \in 1 .. Len(Presets) : Presets[j] = Presets[k] => j = k
    /\ Unnamed \notin Names

-----------------------------------------------------------------------------
(* The cycle of a number of days.                                           *)

Quarter == 89 .. 92

FrequencyLabel(d) ==
    CASE d >= 360     -> "Yearly"
      [] d \in Quarter -> "Every 3 months"
      [] d = 14       -> "Every 2 weeks"
      [] d = 7        -> "Weekly"
      [] OTHER        -> "Monthly"

PeriodLabel(d) ==
    CASE d >= 360     -> "/yr"
      [] d \in Quarter -> "/3mo"
      [] d = 14       -> "/2wk"
      [] d = 7        -> "/wk"
      [] OTHER        -> "/mo"

\* The copy of it in ShipmentsService.
ShipmentPeriodLabel(d) ==
    CASE d >= 360     -> "/yr"
      [] d \in Quarter -> "/3mo"
      [] d = 14       -> "/2wk"
      [] d = 7        -> "/wk"
      [] OTHER        -> "/mo"

\* Mutant: every 13 weeks is 91 days.
BugCycleKey(d) ==
    CASE d >= 360      -> "YEARLY"
      [] d \in 89 .. 90 -> "EVERY_3_MONTHS"
      [] d = 14        -> "EVERY_2_WEEKS"
      [] d = 7         -> "WEEKLY"
      [] OTHER         -> "MONTHLY"

\* resolveStripeCycleKey
CycleKey(d) ==
    CASE d >= 360     -> "YEARLY"
      [] d \in Quarter -> "EVERY_3_MONTHS"
      [] d = 14       -> "EVERY_2_WEEKS"
      [] d = 7        -> "WEEKLY"
      [] OTHER        -> "MONTHLY"

\* describeBillingFrequency, in the error for a price that is not configured.
BillingFrequency(d) ==
    CASE d >= 360     -> "yearly"
      [] d \in Quarter -> "every 3 months"
      [] d = 14       -> "every 2 weeks"
      [] d = 7        -> "weekly"
      [] OTHER        -> "monthly"

\* resolvePriceIdForPlan: the environment variable that holds the Stripe price. Its
\* name is made of the plan's name, upper case and with _ for what is not a letter
\* or a digit; the names in use differ in more than that.
PriceKey(row) == <<row.name, CycleKey(row.days)>>

-----------------------------------------------------------------------------
(* The admin's list of plans.                                               *)

Stored(t) == {b \in DOMAIN t : t[b].is = "stored"}

\* The filter billingCycle; undefined leaves every plan.
Listed(t, cycle) ==
    CASE cycle = "weekly"  -> {b \in Stored(t) : t[b].days <= 7}
      [] cycle = "monthly" -> {b \in Stored(t) : t[b].days <= 31}
      [] cycle = "yearly"  -> {b \in Stored(t) : t[b].days >= 360}
      [] OTHER             -> Stored(t)

\* meta.summary: what is neither weekly nor yearly counts as monthly.
Summary(t) ==
    LET total  == Cardinality(Stored(t))
        weekly == Cardinality({b \in Stored(t) : t[b].days <= 7})
        yearly == Cardinality({b \in Stored(t) : t[b].days >= 360})
    IN  [total |-> total, boxes |-> Cardinality({t[b].name : b \in Stored(t)}),
         weekly |-> weekly, monthly |-> total - weekly - yearly, yearly |-> yearly]

-----------------------------------------------------------------------------
(* getStorefrontCatalog.                                                    *)

Group(t, n) == {b \in Stored(t) : t[b].name = n}
Shown(t)    == {k \in 1 .. Len(Presets) : Group(t, Presets[k]) # {}}

\* The featured box, or else the first that has plans.
FeaturedName(t) ==
    IF Shown(t) = {} THEN Unnamed
    ELSE IF \E k \in Shown(t) : Presets[k] = Featured THEN Featured
    ELSE Presets[CHOOSE k \in Shown(t) : \A j \in Shown(t) : k <= j]

Earliest(t, S) == {b \in S : \A c \in S : t[b].days <= t[c].days}

\* representativePlan: the first by days that is about a month, or not yearly, or any.
\* Of plans with the same days the order is the database's.
Representatives(t, n) ==
    LET group   == Group(t, n)
        monthly == {b \in group : t[b].days \in 28 .. 31}
        shorter == {b \in group : t[b].days < 360}
    IN  CASE monthly # {} -> Earliest(t, monthly)
          [] monthly = {} /\ shorter # {} -> Earliest(t, shorter)
          [] OTHER -> Earliest(t, group)

Option(row) == [label |-> FrequencyLabel(row.days), period |-> PeriodLabel(row.days),
                price |-> row.price]

\* buildStorefrontItem: one of the representatives b gives the item its price.
Item(t, n, b) == [name |-> n, price |-> t[b].price, period |-> PeriodLabel(t[b].days),
                  featured |-> n = FeaturedName(t),
                  options |-> {Option(t[c]) : c \in Group(t, n)}]

=============================================================================
