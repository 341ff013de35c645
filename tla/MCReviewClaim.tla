---------------------------- MODULE MCReviewClaim ----------------------------
(* A small instance of ReviewClaim.  Report and action rows are             *)
(* interchangeable and none is ever removed: it is enough to look at the    *)
(* behaviours that take them in one order.  Unlike SYMMETRY that is sound   *)
(* for liveness too, since a step that takes another row has a twin, with   *)
(* the same fairness, that takes the next one.                              *)
EXTENDS ReviewClaim, Sequences

CONSTANTS q1, q2, q3, b1, b2, b3, b4
MCReports == {q1, q2, q3}
MCActions == {b1, b2, b3, b4}

TakenInOrder(rows, order) ==
    \A i \in 2 .. Len(order) : rows[order[i]] # None => rows[order[i - 1]] # None
InOrder ==
    /\ TakenInOrder(reports, <<q1, q2, q3>>)
    /\ TakenInOrder(actions, <<b1, b2, b3, b4>>)
=============================================================================
