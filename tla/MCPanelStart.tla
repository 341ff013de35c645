------------------------------ MODULE MCPanelStart ------------------------------
(* A small instance of PanelStart: the ids of rows and the goals of requests *)
(* are interchangeable.                                                      *)
EXTENDS PanelStart, TLC

Symmetry == Permutations(ReportIds) \cup Permutations(ActionIds)
=============================================================================
