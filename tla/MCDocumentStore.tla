---------------------------- MODULE MCDocumentStore ----------------------------
(* A small instance of DocumentStore: writers are interchangeable.           *)
EXTENDS DocumentStore, TLC

Symmetry == Permutations(Writers)
=============================================================================
