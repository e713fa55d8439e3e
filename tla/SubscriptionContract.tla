------------------------ MODULE SubscriptionContract ------------------------
(***************************************************************************)
(* What the subscription service promises about the rows of one database,  *)
(* with no request in sight: every change of a row is one of the changes   *)
(* below, each in a single step. SubscriptionsService spreads the decision *)
(* and the write of such a change over several awaits.                     *)
(***************************************************************************)
EXTENDS Naturals

CONSTANTS
    Users,      \* subscribers
    MaxSubs,    \* rows there may ever be
    None,       \* the user of an id no row has
    Editable    \* whether an admin may rewrite and remove rows

VARIABLE rows   \* id -> who subscribed, and the status of the row

SubIds  == 1 .. MaxSubs
Current == {"ACTIVE", "PAUSED"}
Stored  == Current \union {"CANCELLED"}

TypeOK == rows \in [SubIds -> [user : Users \union {None},
                               status : Stored \union {"UNUSED", "DELETED"}]]

Init == rows = [s \in SubIds |-> [user |-> None, status |-> "UNUSED"]]

\* User u has a current row other than s.
HasOther(u, s) ==
    \E t \in SubIds \ {s} : rows[t].user = u /\ rows[t].status \in Current

\* A new row. A current one needs a user without one.
Open(s, u, status) ==
    /\ rows[s].status = "UNUSED"
    /\ status \in Current => ~HasOther(u, s)
    /\ Editable \/ status = "ACTIVE"
    /\ rows' = [rows EXCEPT ![s] = [user |-> u, status |-> status]]

\* The subscriber pauses, resumes or cancels a current row; what is cancelled
\* stays cancelled.
Change(s, status) ==
    /\ rows[s].status \in Current
    /\ rows' = [rows EXCEPT ![s].status = status]

\* An admin writes a row as he likes, except that a user's second current row
\* is refused.
Edit(s, u, status) ==
    /\ Editable
    /\ rows[s].status \in Stored
    /\ status \in Current => ~HasOther(u, s)
    /\ rows' = [rows EXCEPT ![s] = [user |-> u, status |-> status]]

Remove(s) ==
    /\ Editable
    /\ rows[s].status \in Stored
    /\ rows' = [rows EXCEPT ![s] = [user |-> None, status |-> "DELETED"]]

Next ==
    \E s \in SubIds :
        \/ \E u \in Users, status \in Stored : Open(s, u, status) \/ Edit(s, u, status)
        \/ \E status \in Stored : Change(s, status)
        \/ Remove(s)

Spec == Init /\ [][Next]_rows

=============================================================================
