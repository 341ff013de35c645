---------------------------- MODULE MaintenancePlan ----------------------------
(***************************************************************************)
(* What the agents of a project maintenance may answer, and the plan the     *)
(* service makes of it: app/agents/maintenance_contracts.py and the pure     *)
(* functions of project_maintenance_service.py.                              *)
(*                                                                          *)
(* refs maps every document the agents are shown to its current version.    *)
(* An affected item is a stable reference bound to a document or to None;    *)
(* an operation names a document at a version, what is to happen to it and   *)
(* the items it answers.  Order, wording, levels and identifiers are left    *)
(* out; a malformed answer is a failed call (Crash in Maintenance).          *)
(***************************************************************************)
EXTENDS MaintenanceState

CONSTANTS
    Items,       \* the stable references an impact analysis may find
    Severities   \* the warnings the agents may give, of "ADVISORY" and "BLOCKING"

(* RevisionOperationKind *)
OperationKinds == {"revise", "retain", "retire"}

(* MaintenanceImpactOutput, _validate_impact_references and                 *)
(* _reconcile_affected_items: the lore agent and the chief editor name       *)
(* items; where both name one they bind it alike, or the start fails.  The   *)
(* union of two such answers is again such an answer.                        *)
Impacts(refs) ==
    UNION {[S -> DOMAIN refs \cup {None}] : S \in SUBSET Items \ {{}}}

(* RevisionPlanOutput, validate_revision_plan_output: an operation stands on *)
(* a document that was shown, and on the document its items are bound to.    *)
Operations(refs, affected) ==
    {o \in [doc : DOMAIN refs, kind : OperationKinds, items : SUBSET DOMAIN affected \ {{}}] :
        \A i \in o.items : affected[i] \in {None, o.doc}}

(* _reconcile_operations: operations on one target have to agree,            *)
Agree(ops) == \A o, p \in ops : o.doc = p.doc => o = p
(* the items have to be covered,                                             *)
Covered(ops, affected) == UNION {o.items : o \in ops} = DOMAIN affected
(* and the plan has to be applicable (_ensure_apply_compatible_operations).  *)
Applicable(ops) ==
    /\ \E o \in ops : o.kind = "revise"
    /\ \A o \in ops : o.kind # "retire"

(* _prepare_plan: the plans two planners' answers are merged into, each      *)
(* operation with the version that was shown.                                *)
PreparedPlans(refs, affected) ==
    {[d \in {o.doc : o \in ops} |->
         [version |-> refs[d], kind |-> (CHOOSE o \in ops : o.doc = d).kind,
          items |-> (CHOOSE o \in ops : o.doc = d).items]] :
     ops \in {ops \in SUBSET Operations(refs, affected) :
                 Agree(ops) /\ Covered(ops, affected) /\ Applicable(ops)}}

(* The outcome of a plan is its worst warning's; ConsistencyReviewOutput     *)
(* derives a review's from its findings alike.                               *)
PlanOutcome(severities) ==
    IF "BLOCKING" \in severities THEN "BLOCKING"
    ELSE IF severities # {} THEN "WARNING" ELSE "PASSED"
Outcomes == {PlanOutcome(severities) : severities \in SUBSET Severities}

(* validate_apply_change_output: one edit for each document to revise, each  *)
(* on the version the operation names.                                       *)
Edits(ops) == {d \in DOMAIN ops : ops[d].kind = "revise"}
=============================================================================
