----------------------------- MODULE MC_Checkout -----------------------------
(* An instance of Checkout, with Accounts beside it, for TLC. *)
EXTENDS Checkout

\* One number in +855 form, and the way people write it.
MCNormal      == [s \in {"+855", "0"} |-> "+855"]
MCPlaceholder == [p \in {"+855"} |-> "phone@"]
MCEmails      == {"phone@", "admin@", "new@"}
MCGiven       == {"admin@"}
MCPriceOf     == [p \in Plans |-> p]

\* A new number and address, a new number, and the end of an account.
NewOwner  == [phone |-> "0", email |-> "new@", active |-> None]
NewNumber == [phone |-> "0", email |-> None, active |-> None]
Disabled  == [phone |-> None, email |-> None, active |-> FALSE]

\* Everything that writes users in two slots; two checkouts at once; a checkout
\* beside an admin who gives a user another address; logins to accounts that an
\* admin creates and disables.
One(S) == {CHOOSE r \in S : TRUE}
People == [ops |-> {"register", "edit", "remove", "seed"}, edits |-> {NewNumber},
           handlers |-> Handlers, slots |-> {}]
Orders == [ops |-> {"register", "checkout"}, edits |-> {}, handlers |-> One(Handlers),
           slots |-> Slots]
Owners == [ops |-> {"register", "edit", "checkout"}, edits |-> {NewOwner},
           handlers |-> One(Handlers), slots |-> One(Slots)]
Logins == [ops |-> {"register", "create", "edit", "login", "seed"},
           edits |-> {NewOwner, Disabled}, handlers |-> One(Handlers), slots |-> {}]
Mixed  == {People, Orders, Owners, Logins}
=============================================================================
