----------------------------- MODULE MC_Catalogue -----------------------------
(* An instance of Catalogue for TLC. *)
EXTENDS Catalogue, TLC

MCSeedSkus == <<"LFC-001", "ORF-002">>

\* Profile images are uploaded at any time; an admin works on plans and users
\* one request at a time.
MCAlone == AllOps \ {"uploadProfileImage"}

PlanSymmetry == Permutations(Requests) \union Permutations(Boxes)
=============================================================================
