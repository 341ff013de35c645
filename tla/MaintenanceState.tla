---------------------------- MODULE MaintenanceState ----------------------------
(***************************************************************************)
(* The state machine of a project-maintenance run: ProjectMaintenanceState  *)
(* of app/workflows/project_maintenance.py, with the lifecycle table of the  *)
(* change row that maintenance_change_service.py keeps beside it.            *)
(*                                                                          *)
(* An operator XOk is the guard of the method X, and X the state it returns; *)
(* a state the constructor rejects is not ValidMaintenance.  Document and    *)
(* action ids are numbers; reports are the plan whose application they judge.*)
(***************************************************************************)
EXTENDS Naturals

CONSTANT None

Statuses == {"CHANGE_REQUESTED", "LORE_IMPACT_ANALYSIS", "CHIEF_EDITOR_IMPACT_ANALYSIS",
             "REVISION_PLAN", "USER_CONFIRMATION", "APPLY_CHANGE", "CONSISTENCY_REVIEW",
             "PROJECT_UPDATED", "CANCELLED"}
Ended == {"PROJECT_UPDATED", "CANCELLED"}
Kinds == {"revision_confirmation", "consistency_warning"}
ReviewOutcomes == {"PASSED", "WARNING", "BLOCKING"}
Decisions == {"APPROVE", "REVISE", "CANCEL", "ACCEPT_WARNING"}
ASSUME NoneIsNoValue == None \notin Nat \cup Kinds \cup ReviewOutcomes \cup Decisions

(* The fields of ProjectMaintenanceState that say more than the status.      *)
NewMaintenance ==
    [status |-> "CHANGE_REQUESTED", action |-> None, kind |-> None, outcome |-> None,
     lore |-> FALSE, chief |-> FALSE, plan |-> None, applied |-> {}, report |-> None]

Asks(s) == s.status = "USER_CONFIRMATION"

-----------------------------------------------------------------------------
(* __post_init__ and _validate_phase_references                             *)
Known(s) == s.status \in Statuses /\ s.kind \in Kinds \cup {None}

GateBound(s) ==
    /\ (s.action # None) <=> Asks(s)
    /\ (s.kind # None) <=> Asks(s)
    /\ (s.outcome # None) <=> Asks(s)

ReportBound(s) ==
    /\ s.report # None => s.applied # {}
    /\ (/\ s.applied # {}
        /\ \/ s.status = "REVISION_PLAN"
           \/ Asks(s) /\ s.kind = "revision_confirmation") => s.report # None
    /\ s.status = "APPLY_CHANGE" => s.report = None
    /\ s.status = "CANCELLED" => s.applied = {} /\ s.report = None

PhaseBound(s) ==
    LET planned == {"USER_CONFIRMATION", "APPLY_CHANGE", "CONSISTENCY_REVIEW",
                    "PROJECT_UPDATED", "CANCELLED"}
        analysed == planned \cup {"REVISION_PLAN"}
    IN  /\ s.status = "CHANGE_REQUESTED" => ~s.lore /\ ~s.chief
        /\ s.status = "LORE_IMPACT_ANALYSIS" => ~s.chief
        /\ s.status \in analysed \cup {"CHIEF_EDITOR_IMPACT_ANALYSIS"} => s.lore
        /\ s.status \in analysed => s.chief
        /\ s.status \in planned => s.plan # None
        /\ s.status \notin analysed => s.plan = None /\ s.applied = {} /\ s.report = None
        /\ s.status \in {"CONSISTENCY_REVIEW", "PROJECT_UPDATED"} => s.applied # {}
        /\ s.status = "PROJECT_UPDATED" => s.report # None
        /\ Asks(s) /\ s.kind = "consistency_warning" =>
              s.outcome = "WARNING" /\ s.applied # {} /\ s.report # None

ValidMaintenance(s) == Known(s) /\ GateBound(s) /\ ReportBound(s) /\ PhaseBound(s)

-----------------------------------------------------------------------------
(* The analysis phases of a start, in one transaction.                      *)
Analysed(s) == [s EXCEPT !.status = "REVISION_PLAN", !.lore = TRUE, !.chief = TRUE]

(* record_revision_plan, request_revision_confirmation                      *)
PlanRecorded(s, plan) == [s EXCEPT !.plan = plan]
ConfirmationRequested(s, action, outcome) ==
    [s EXCEPT !.status = "USER_CONFIRMATION", !.action = action,
              !.kind = "revision_confirmation", !.outcome = outcome]

(* record_consistency_review; applied holds the versions of every cycle.    *)
ReviewRecorded(s, versions) ==
    [s EXCEPT !.status = "CONSISTENCY_REVIEW", !.applied = @ \cup versions, !.report = None]

(* Mutant of ReviewRouted: a blocking review keeps the plan it has blocked. *)
ReviewRoutedWithPlan(s, outcome, report, action) ==
    CASE outcome = "WARNING" ->
            [s EXCEPT !.status = "USER_CONFIRMATION", !.action = action,
                      !.kind = "consistency_warning", !.outcome = outcome, !.report = report]
      [] outcome = "BLOCKING" ->
            [s EXCEPT !.status = "REVISION_PLAN", !.report = report]
      [] outcome = "PASSED" ->
            [s EXCEPT !.status = "PROJECT_UPDATED", !.report = report]

(* route_consistency_review *)
ReviewRouted(s, outcome, report, action) ==
    CASE outcome = "WARNING" ->
            [s EXCEPT !.status = "USER_CONFIRMATION", !.action = action,
                      !.kind = "consistency_warning", !.outcome = outcome, !.report = report]
      [] outcome = "BLOCKING" ->
            [s EXCEPT !.status = "REVISION_PLAN", !.plan = None, !.report = report]
      [] outcome = "PASSED" ->
            [s EXCEPT !.status = "PROJECT_UPDATED", !.report = report]

(* resolve_confirmation: which decisions an open gate takes, where each of  *)
(* them leads, and what it clears.                                          *)
DecisionOk(s, decision) ==
    \/ /\ s.kind = "revision_confirmation"
       /\ \/ decision = "REVISE"
          \/ decision = "CANCEL" /\ s.applied = {}
          \/ decision = "APPROVE" /\ s.outcome # "BLOCKING"
    \/ /\ s.kind = "consistency_warning" /\ s.outcome = "WARNING"
       /\ decision \in {"ACCEPT_WARNING", "REVISE"}

TargetOf(decision) ==
    CASE decision = "APPROVE" -> "APPLY_CHANGE"
      [] decision = "REVISE" -> "REVISION_PLAN"
      [] decision = "CANCEL" -> "CANCELLED"
      [] decision = "ACCEPT_WARNING" -> "PROJECT_UPDATED"

Resolved(s, decision) ==
    [s EXCEPT !.status = TargetOf(decision), !.action = None, !.kind = None, !.outcome = None,
              !.plan = IF decision = "REVISE" THEN None ELSE @,
              !.report = IF decision = "APPROVE" THEN None ELSE @]

(* The options the action row offers (_revision_options, _confirmation_options). *)
Options(s) ==
    IF s.kind = "consistency_warning" THEN {"ACCEPT_WARNING", "REVISE"}
    ELSE {"REVISE"}
         \cup (IF s.outcome = "BLOCKING" THEN {} ELSE {"APPROVE"})
         \cup (IF s.applied = {} THEN {"CANCEL"} ELSE {})

-----------------------------------------------------------------------------
(* The change row: _ALLOWED_TRANSITIONS and _validate_lifecycle.            *)
RowTransitions ==
    {<<"CHANGE_REQUESTED", "LORE_IMPACT_ANALYSIS">>,
     <<"LORE_IMPACT_ANALYSIS", "CHIEF_EDITOR_IMPACT_ANALYSIS">>,
     <<"CHIEF_EDITOR_IMPACT_ANALYSIS", "REVISION_PLAN">>}
    \cup ({"REVISION_PLAN"} \X {"REVISION_PLAN", "USER_CONFIRMATION"})
    \cup ({"USER_CONFIRMATION"} \X {"APPLY_CHANGE", "REVISION_PLAN", "CANCELLED", "PROJECT_UPDATED"})
    \cup ({"APPLY_CHANGE"} \X {"APPLY_CHANGE", "CONSISTENCY_REVIEW"})
    \cup ({"CONSISTENCY_REVIEW"} \X
            {"CONSISTENCY_REVIEW", "USER_CONFIRMATION", "REVISION_PLAN", "PROJECT_UPDATED"})

(* A row's move to target with a plan document and an applied time.  The    *)
(* first application sets the time, nothing changes it afterwards, and only *)
(* an approved corrective plan may be applied to a row that has one.        *)
RowAllows(row, target, plan, applied, corrective) ==
    LET step == <<row.status, target>>
        again == step = <<"USER_CONFIRMATION", "APPLY_CHANGE">> /\ row.applied /\ applied
    IN  /\ step \in RowTransitions
        /\ target \in {"CHANGE_REQUESTED", "LORE_IMPACT_ANALYSIS", "CHIEF_EDITOR_IMPACT_ANALYSIS"}
              => plan = None /\ ~applied
        /\ target \in {"USER_CONFIRMATION", "APPLY_CHANGE", "CONSISTENCY_REVIEW",
                       "PROJECT_UPDATED", "CANCELLED"} => plan # None
        /\ target \in {"CONSISTENCY_REVIEW", "PROJECT_UPDATED"} => applied
        /\ target = "CANCELLED" => ~applied
        /\ corrective => again
        /\ again => corrective
        /\ IF target = "REVISION_PLAN"
           THEN row.status # "REVISION_PLAN" => plan = None
           ELSE plan = row.plan
        /\ IF row.status = "APPLY_CHANGE"
           THEN row.applied => applied
           ELSE applied = row.applied
=============================================================================
