-------------------------- MODULE MCProjectCreation --------------------------
(* A small instance of ProjectCreation: requests are interchangeable.        *)
EXTENDS ProjectCreation, TLC

Symmetry == Permutations(Workers)
=============================================================================
