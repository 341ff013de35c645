----------------------------- MODULE MCReaderPanel -----------------------------
(* Small instances of ReaderPanel: requests are interchangeable.             *)
EXTENDS ReaderPanel, TLC

Symmetry == Permutations(Workers)
=============================================================================
