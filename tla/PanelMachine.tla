------------------------------ MODULE PanelMachine ------------------------------
(***************************************************************************)
(* The state machine a reader panel is written against: a status that only  *)
(* moves along _LEGAL_TRANSITIONS and the seals it sets on its way          *)
(* (ReaderPanelState).  The service writes the statuses itself and calls    *)
(* none of this; ReaderPanel shows that one request at a time keeps to it,  *)
(* with one step the table does not have: a report that is refused leads    *)
(* back to the sealed ballots.                                              *)
(***************************************************************************)
EXTENDS PanelContract

VARIABLES status, seals

MachineInit == status = "independent_reading" /\ seals = {}

Advance == \E to \in Status :
    /\ Legal(status, to)
    /\ status' = to /\ seals' = seals \cup Sealed(to)

RefuseReport ==
    /\ status = "report_generating"
    /\ status' = "final_ballots_locked" /\ UNCHANGED seals

MachineSpec == MachineInit /\ [][Advance \/ RefuseReport]_<<status, seals>>
=============================================================================
