----------------------------- MODULE MC_Shipments -----------------------------
(* An instance of Shipments for TLC. *)
EXTENDS Shipments, TLC

MCOwnerOf == [s \in Subs |-> CHOOSE u \in Users : TRUE]

SlotSymmetry == Permutations(Requests)
=============================================================================
