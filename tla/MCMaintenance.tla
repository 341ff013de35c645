----------------------------- MODULE MCMaintenance -----------------------------
(* Maintenance with interchangeable requests and documents, for safety runs. *)
EXTENDS Maintenance, TLC

Symmetry == Permutations(Workers) \cup Permutations(Own)
=============================================================================
