--------------------------- MODULE MaintenanceProofs ---------------------------
(***************************************************************************)
(* Project maintenance for any number of runs, plans, documents, requests   *)
(* and saves.  What requests hold outside the database proves nothing: each  *)
(* transaction loads the rows again and compares, so the invariant is about  *)
(* rows only.  A checkpoint, its change row and the rows of its plan, its     *)
(* approval, its cycle and its gate belong together in every phase, and what *)
(* was approved or applied is never changed afterwards.                     *)
(***************************************************************************)
EXTENDS Maintenance, SequenceTheorems, TLAPS

Number == Nat \cup {None}
DocVersion == Docs \X Nat

Checkpoint ==
    [status : Statuses, action : Number, kind : Kinds \cup {None},
     outcome : ReviewOutcomes \cup {None}, lore : BOOLEAN, chief : BOOLEAN,
     plan : Number, applied : SUBSET DocVersion, report : Number]
Meta == [plan : Number, previous : Number, approval : Number, cycle : SUBSET DocVersion]
ChangeRow == [status : Statuses, plan : Number, applied : BOOLEAN, meta : Meta]
ActionRow ==
    [kind : Kinds, outcome : ReviewOutcomes, options : SUBSET Decisions,
     decision : Decisions \cup {None}, plan : Nat]
Operation == [version : Nat, kind : OperationKinds, items : SUBSET Items]
PlanRow ==
    {p \in [ops : UNION {[S -> Operation] : S \in SUBSET Docs}, outcome : ReviewOutcomes] :
        Edits(p.ops) # {}}
Written == [plan : Nat, approval : Nat]
Report == [cycle : SUBSET DocVersion, outcome : ReviewOutcomes]

RowsOK ==
    /\ run \in Nat
    /\ DOMAIN affected \subseteq Items
    /\ actions \in Seq(ActionRow)
    /\ plans \in Seq(PlanRow)
    /\ ver \in [Docs -> Seq(Written \cup {None})]
    /\ report \in Report \cup {None}

(* The author has approved the plan by stands for, as AppliedAsApproved has it. *)
Approved(rowsOfActions, rowsOfPlans, by) ==
    /\ by.approval \in 1 .. Len(rowsOfActions) /\ by.plan \in 1 .. Len(rowsOfPlans)
    /\ rowsOfActions[by.approval].kind = "revision_confirmation"
    /\ rowsOfActions[by.approval].decision = "APPROVE"
    /\ rowsOfActions[by.approval].plan = by.plan

(* Version n of document d is one of an approved plan, as all its versions. *)
WrittenAsApproved(rowsOfActions, rowsOfPlans, versions, d, n) ==
    LET by == versions[d][n]
        ops == rowsOfPlans[by.plan].ops
    IN  /\ Approved(rowsOfActions, rowsOfPlans, by)
        /\ d \in Edits(ops) /\ ops[d].version = n - 1
        /\ \A e \in Edits(ops) :
              ops[e].version + 1 \in 1 .. Len(versions[e]) /\ versions[e][ops[e].version + 1] = by

VersionsOK ==
    \A d \in Docs : \A n \in 1 .. Len(ver[d]) :
        ver[d][n] # None => WrittenAsApproved(actions, plans, ver, d, n)

(* The phases a run is left in; the analysis is part of the start.           *)
Phases == {"REVISION_PLAN", "USER_CONFIRMATION", "APPLY_CHANGE", "CONSISTENCY_REVIEW"} \cup Ended
Warned == Asks(st) /\ st.kind = "consistency_warning"

CheckpointOK ==
    /\ st \in Checkpoint /\ row \in ChangeRow
    /\ ValidMaintenance(st)
    /\ st.status \in Phases /\ row.status = st.status
    /\ project = IF st.status \in Ended THEN None ELSE run

ItemsOf(plan) == UNION {plan[d].items : d \in DOMAIN plan}

(* The plan of the checkpoint is the newest there is.                       *)
PlanOK ==
    /\ Len(plans) \in 1 .. Len(plans)
    /\ st.status = "REVISION_PLAN" => st.plan = None /\ row.plan = None /\ row.meta.previous = Len(plans)
    /\ st.plan # None => st.plan = Len(plans) /\ row.plan = run /\ row.meta.plan = Len(plans)
    /\ ItemsOf(plans[Len(plans)].ops) = DOMAIN affected

(* From the approval to the verdict the row knows the approval, and from the  *)
(* application on its cycle.                                                *)
ApprovalOK ==
    st.status \in {"APPLY_CHANGE", "CONSISTENCY_REVIEW"} \/ Warned =>
        /\ row.meta.previous = st.plan /\ row.meta.approval \in Nat
        /\ Approved(actions, plans, [plan |-> st.plan, approval |-> row.meta.approval])
CycleOK ==
    st.status = "CONSISTENCY_REVIEW" \/ Warned =>
        /\ row.meta.cycle # {} /\ row.meta.cycle \subseteq st.applied
        /\ \A v \in row.meta.cycle :
              ver[v[1]][v[2]] = [plan |-> st.plan, approval |-> row.meta.approval]

(* What was applied is there, and the report is about some of it.            *)
AppliedOK ==
    /\ \A v \in st.applied : v[2] \in 1 .. Len(ver[v[1]]) /\ ver[v[1]][v[2]] # None
    /\ st.report # None => report # None /\ report.cycle \subseteq st.applied

(* An open gate is a row without a decision that offers what may be decided. *)
GateOK ==
    Asks(st) =>
        /\ st.action \in 1 .. Len(actions)
        /\ actions[st.action].kind = st.kind /\ actions[st.action].outcome = st.outcome
        /\ actions[st.action].plan = st.plan /\ actions[st.action].decision = None
        /\ actions[st.action].options = Options(st)
        /\ st.kind = "revision_confirmation" => plans[Len(plans)].outcome = st.outcome
        /\ st.kind = "consistency_warning" => report = [cycle |-> row.meta.cycle, outcome |-> "WARNING"]

RunOK ==
    /\ run # 0
    /\ CheckpointOK /\ PlanOK /\ ApprovalOK /\ CycleOK /\ AppliedOK /\ GateOK

NoRun == run = 0 /\ st = None /\ row = None /\ project = None

MaintenanceInv ==
    /\ RowsOK
    /\ VersionsOK
    /\ NoRun \/ RunOK

-----------------------------------------------------------------------------
(* Steps that write no row.                                                 *)

LEMMA RowsUnchanged ==
    ASSUME MaintenanceInv, UNCHANGED <<project, rows, ver>>
    PROVE  MaintenanceInv'
<1>0. UNCHANGED <<project, run, st, row, affected, actions, plans, report, ver>>
  BY DEF rows
<1>1. RowsOK'
  BY <1>0 DEF MaintenanceInv, RowsOK
<1>2. VersionsOK'
  <2>1. VersionsOK /\ actions' = actions /\ plans' = plans /\ ver' = ver
    BY <1>0 DEF MaintenanceInv
  <2> QED
    BY <2>1 DEF VersionsOK
<1>3. NoRun' \/ RunOK'
  <2>1. CASE NoRun
    BY <1>0, <2>1 DEF NoRun
  <2>2. CASE RunOK
    BY <1>0, <2>2 DEF RunOK, CheckpointOK, PlanOK, ApprovalOK, CycleOK, AppliedOK, GateOK, Warned, Approved,
       Asks, Options
  <2> QED
    BY <2>1, <2>2 DEF MaintenanceInv
<1> QED
  BY <1>1, <1>2, <1>3 DEF MaintenanceInv

LEMMA QuietSteps ==
    ASSUME MaintenanceInv, NEW w \in Workers,
           \/ LoadStart(w) \/ StartRefused(w) \/ WritePlan(w) \/ Resume(w)
           \/ LoadApply(w) \/ PersistApplyRefused(w) \/ WriteVersion(w) \/ WriteFails(w)
           \/ LoadReview(w) \/ PersistReviewRefused(w)
           \/ LoadRevision(w) \/ PersistRevisionRefused(w) \/ Crash(w)
    PROVE  MaintenanceInv'
<1>1. UNCHANGED <<project, rows, ver>>
  BY DEF LoadStart, StartRefused, WritePlan, Resume, LoadApply, PersistApplyRefused, WriteVersion, WriteFails,
     WriteNext, LoadReview, PersistReviewRefused, LoadRevision, PersistRevisionRefused, Crash,
     database, data, files
<1> QED
  BY <1>1, RowsUnchanged

-----------------------------------------------------------------------------
(* What is written stays.                                                   *)

(* Rows are added, an open gate may be decided, and versions are added.      *)
HistoryGrows ==
    /\ Len(plans) <= Len(plans') /\ \A p \in 1 .. Len(plans) : plans'[p] = plans[p]
    /\ Len(actions) <= Len(actions')
    /\ \A a \in 1 .. Len(actions) :
          /\ actions'[a].kind = actions[a].kind /\ actions'[a].plan = actions[a].plan
          /\ actions[a].decision = "APPROVE" => actions'[a].decision = "APPROVE"
    /\ plans' \in Seq(PlanRow) /\ actions' \in Seq(ActionRow)
    /\ ver' \in [Docs -> Seq(Written \cup {None})]
    /\ \A d \in Docs : /\ Len(ver[d]) <= Len(ver'[d])
                       /\ \A n \in 1 .. Len(ver[d]) : ver'[d][n] = ver[d][n]

LEMMA Lengths ==
    ASSUME RowsOK
    PROVE  /\ Len(plans) \in Nat /\ Len(actions) \in Nat /\ \A d \in Docs : Len(ver[d]) \in Nat
           /\ DOMAIN plans = 1 .. Len(plans) /\ DOMAIN actions = 1 .. Len(actions)
           /\ \A d \in Docs : DOMAIN ver[d] = 1 .. Len(ver[d])
           /\ \A p \in 1 .. Len(plans) : plans[p] \in PlanRow
           /\ \A a \in 1 .. Len(actions) : actions[a] \in ActionRow
BY DEF RowsOK

LEMMA PlanTypes ==
    ASSUME RowsOK, NEW p \in 1 .. Len(plans)
    PROVE  /\ DOMAIN plans[p].ops \subseteq Docs
           /\ \A d \in DOMAIN plans[p].ops : plans[p].ops[d] \in Operation
           /\ Edits(plans[p].ops) \subseteq DOMAIN plans[p].ops
           /\ Edits(plans[p].ops) # {}
           /\ plans[p].outcome \in ReviewOutcomes
<1>1. plans[p] \in PlanRow
  BY Lengths
<1>2. PICK S \in SUBSET Docs : plans[p].ops \in [S -> Operation]
  BY <1>1 DEF PlanRow
<1> QED
  BY <1>1, <1>2 DEF PlanRow, Edits

LEMMA ApprovalsStay ==
    ASSUME RowsOK, HistoryGrows, NEW by, Approved(actions, plans, by)
    PROVE  Approved(actions', plans', by)
<1>1. Len(plans) \in Nat /\ Len(actions) \in Nat /\ Len(plans') \in Nat /\ Len(actions') \in Nat
  BY Lengths DEF HistoryGrows
<1> QED
  BY <1>1 DEF Approved, HistoryGrows

LEMMA VersionsStay ==
    ASSUME RowsOK, VersionsOK, HistoryGrows, NEW d \in Docs, NEW n \in 1 .. Len(ver[d]), ver'[d][n] # None
    PROVE  WrittenAsApproved(actions', plans', ver', d, n)
<1>1. PICK by : by = ver[d][n]
  OBVIOUS
<1>2. PICK ops : ops = plans[by.plan].ops
  OBVIOUS
<1>3. ver'[d][n] = by /\ by # None
  BY <1>1 DEF HistoryGrows
<1>4. /\ Approved(actions, plans, by) /\ d \in Edits(ops) /\ ops[d].version = n - 1
      /\ \A e \in Edits(ops) : ops[e].version + 1 \in 1 .. Len(ver[e]) /\ ver[e][ops[e].version + 1] = by
  <2>1. WrittenAsApproved(actions, plans, ver, d, n)
    BY <1>1, <1>3 DEF VersionsOK
  <2> QED
    BY <1>1, <1>2, <2>1 DEF WrittenAsApproved
<1>5. by.plan \in 1 .. Len(plans)
  BY <1>4 DEF Approved
<1>6. plans'[by.plan].ops = ops
  BY <1>2, <1>5 DEF HistoryGrows
<1>7. Edits(ops) \subseteq Docs
  BY <1>2, <1>5, PlanTypes
<1>8. ASSUME NEW e \in Edits(ops)
      PROVE  ops[e].version + 1 \in 1 .. Len(ver'[e]) /\ ver'[e][ops[e].version + 1] = by
  <2>1. PICK m : m = ops[e].version + 1
    OBVIOUS
  <2>2. e \in Docs /\ m \in 1 .. Len(ver[e]) /\ ver[e][m] = by
    BY <1>4, <1>7, <2>1
  <2>3. Len(ver[e]) \in Nat /\ Len(ver'[e]) \in Nat
    BY <2>2, Lengths DEF HistoryGrows
  <2>4. Len(ver[e]) <= Len(ver'[e]) /\ ver'[e][m] = ver[e][m]
    BY <2>2 DEF HistoryGrows
  <2>5. m \in 1 .. Len(ver'[e])
    BY <2>2, <2>3, <2>4
  <2> QED
    BY <2>1, <2>2, <2>4, <2>5
<1>9. Approved(actions', plans', by)
  BY <1>4, ApprovalsStay
<1> QED
  BY <1>3, <1>4, <1>6, <1>8, <1>9 DEF WrittenAsApproved

(* With no new version, or versions of the author's only.                   *)
LEMMA NothingApplied ==
    ASSUME RowsOK, VersionsOK, HistoryGrows,
           \A d \in Docs : \A n \in 1 .. Len(ver'[d]) : n > Len(ver[d]) => ver'[d][n] = None
    PROVE  VersionsOK'
<1>1. ASSUME NEW d \in Docs, NEW n \in 1 .. Len(ver'[d]), ver'[d][n] # None
      PROVE  n \in 1 .. Len(ver[d])
  <2>1. Len(ver[d]) \in Nat /\ Len(ver'[d]) \in Nat
    BY Lengths DEF HistoryGrows
  <2> QED
    BY <1>1, <2>1
<1> QED
  BY <1>1, VersionsStay DEF VersionsOK

-----------------------------------------------------------------------------
(* What the agents may answer.                                              *)

LEMMA RefsTypes ==
    ASSUME RowsOK, NEW S \in SUBSET Docs
    PROVE  /\ Refs(S) \in [DOMAIN Refs(S) -> Nat] /\ DOMAIN Refs(S) \subseteq S
           /\ \A d \in DOMAIN Refs(S) : Refs(S)[d] = Len(ver[d])
BY Lengths DEF Refs, Current

(* A prepared plan is a plan row's: operations that agree make one function,  *)
(* which covers the affected items.                                         *)
LEMMA PreparedPlansFit ==
    ASSUME NEW refs, DOMAIN refs \subseteq Docs, \A d \in DOMAIN refs : refs[d] \in Nat,
           NEW items, DOMAIN items \subseteq Items,
           NEW plan \in PreparedPlans(refs, items)
    PROVE  /\ plan \in UNION {[S -> Operation] : S \in SUBSET Docs}
           /\ ItemsOf(plan) = DOMAIN items
           /\ DOMAIN plan \subseteq DOMAIN refs
           /\ Edits(plan) # {}
<1>1. PICK ops \in SUBSET Operations(refs, items) :
         /\ Agree(ops) /\ Covered(ops, items) /\ Applicable(ops)
         /\ plan = [d \in {o.doc : o \in ops} |->
                       [version |-> refs[d], kind |-> (CHOOSE o \in ops : o.doc = d).kind,
                        items |-> (CHOOSE o \in ops : o.doc = d).items]]
  BY DEF PreparedPlans
<1>2. \A o \in ops : /\ o.doc \in DOMAIN refs /\ o.kind \in OperationKinds
                     /\ o.items \subseteq Items
  BY DEF Operations
<1>3. \A o, q \in ops : o.doc = q.doc => o = q
  BY <1>1 DEF Agree
<1>4. DOMAIN plan = {o.doc : o \in ops}
  BY <1>1
<1>5. ASSUME NEW o \in ops
      PROVE  /\ o.doc \in DOMAIN plan
             /\ plan[o.doc] = [version |-> refs[o.doc], kind |-> o.kind, items |-> o.items]
  <2>1. o.doc \in DOMAIN plan
    BY <1>4
  <2>2. (CHOOSE q \in ops : q.doc = o.doc) = o
    BY <1>3
  <2> QED
    BY <1>1, <2>1, <2>2
<1>6. \A d \in DOMAIN plan : \E o \in ops : o.doc = d
  BY <1>4
<1>7. ASSUME NEW d \in DOMAIN plan
      PROVE  \E o \in ops : o.doc = d /\ plan[d] = [version |-> refs[d], kind |-> o.kind, items |-> o.items]
  <2>1. PICK o \in ops : o.doc = d
    BY <1>6
  <2>2. plan[o.doc] = [version |-> refs[o.doc], kind |-> o.kind, items |-> o.items]
    BY <1>5
  <2> QED
    BY <2>1, <2>2
<1>8. ASSUME NEW d \in DOMAIN plan
      PROVE  d \in DOMAIN refs /\ plan[d] \in Operation
  <2>1. PICK o \in ops : o.doc = d /\ plan[d] = [version |-> refs[d], kind |-> o.kind, items |-> o.items]
    BY <1>7
  <2>2. d \in DOMAIN refs /\ refs[d] \in Nat /\ o.kind \in OperationKinds /\ o.items \in SUBSET Items
    BY <2>1, <1>2
  <2> QED
    BY <2>1, <2>2 DEF Operation
<1>9. plan \in [DOMAIN plan -> Operation]
  <2>1. plan = [d \in DOMAIN plan |-> plan[d]]
    BY <1>1, <1>4
  <2> QED
    BY <2>1, <1>8
<1>10. ItemsOf(plan) = UNION {o.items : o \in ops}
  <2>1. ASSUME NEW d \in DOMAIN plan PROVE \E o \in ops : plan[d].items = o.items
    <3>1. PICK o \in ops : o.doc = d /\ plan[d] = [version |-> refs[d], kind |-> o.kind, items |-> o.items]
      BY <1>7
    <3>2. plan[d].items = o.items
      BY <3>1
    <3> QED
      BY <3>2
  <2>2. ASSUME NEW o \in ops PROVE \E d \in DOMAIN plan : plan[d].items = o.items
    <3>1. o.doc \in DOMAIN plan /\ plan[o.doc] = [version |-> refs[o.doc], kind |-> o.kind, items |-> o.items]
      BY <1>5
    <3>2. plan[o.doc].items = o.items
      BY <3>1
    <3> QED
      BY <3>1, <3>2
  <2> QED
    BY <2>1, <2>2 DEF ItemsOf
<1>11. Edits(plan) # {}
  <2>1. PICK o \in ops : o.kind = "revise"
    BY <1>1 DEF Applicable
  <2>2. o.doc \in DOMAIN plan /\ plan[o.doc] = [version |-> refs[o.doc], kind |-> o.kind, items |-> o.items]
    BY <1>5
  <2>3. plan[o.doc].kind = "revise"
    BY <2>1, <2>2
  <2> QED
    BY <2>2, <2>3 DEF Edits
<1>12. DOMAIN plan \subseteq DOMAIN refs
  BY <1>8
<1>13. plan \in UNION {[S -> Operation] : S \in SUBSET Docs}
  BY <1>9, <1>12
<1> QED
  BY <1>1, <1>10, <1>11, <1>12, <1>13 DEF Covered

LEMMA OutcomesFit == Outcomes \subseteq ReviewOutcomes
BY DEF Outcomes, PlanOutcome, ReviewOutcomes

LEMMA ImpactsFit ==
    ASSUME NEW refs, NEW items \in Impacts(refs)
    PROVE  DOMAIN items \subseteq Items
BY DEF Impacts

-----------------------------------------------------------------------------
(* A new plan with its gate, at a start and at a revision.                   *)

LEMMA AppendAdds ==
    ASSUME NEW S, NEW seq \in Seq(S), NEW e \in S
    PROVE  /\ Append(seq, e) \in Seq(S) /\ Len(Append(seq, e)) = Len(seq) + 1
           /\ \A i \in 1 .. Len(seq) : Append(seq, e)[i] = seq[i]
           /\ Append(seq, e)[Len(seq) + 1] = e
           /\ Len(seq) \in Nat
BY AppendProperties

LEMMA GateTypes ==
    ASSUME NEW kind \in Kinds, NEW outcome \in ReviewOutcomes, NEW options \in SUBSET Decisions, NEW plan \in Nat
    PROVE  [kind |-> kind, outcome |-> outcome, options |-> options, decision |-> None, plan |-> plan] \in ActionRow
BY DEF ActionRow

LEMMA PlanAdded ==
    ASSUME RowsOK, NEW plan \in PlanRow, NEW gate \in ActionRow,
           plans' = Append(plans, plan), actions' = Append(actions, gate), UNCHANGED ver
    PROVE  /\ HistoryGrows
           /\ Len(plans') = Len(plans) + 1 /\ plans'[Len(plans) + 1] = plan
           /\ Len(actions') = Len(actions) + 1 /\ actions'[Len(actions) + 1] = gate
<1>1. /\ plans' \in Seq(PlanRow) /\ Len(plans') = Len(plans) + 1
      /\ \A i \in 1 .. Len(plans) : plans'[i] = plans[i]
      /\ plans'[Len(plans) + 1] = plan /\ Len(plans) \in Nat
  BY AppendAdds DEF RowsOK
<1>2. /\ actions' \in Seq(ActionRow) /\ Len(actions') = Len(actions) + 1
      /\ \A i \in 1 .. Len(actions) : actions'[i] = actions[i]
      /\ actions'[Len(actions) + 1] = gate /\ Len(actions) \in Nat
  BY AppendAdds DEF RowsOK
<1>3. /\ ver' \in [Docs -> Seq(Written \cup {None})]
      /\ \A d \in Docs : Len(ver[d]) <= Len(ver'[d]) /\ \A n \in 1 .. Len(ver[d]) : ver'[d][n] = ver[d][n]
  BY Lengths DEF RowsOK
<1> QED
  BY <1>1, <1>2, <1>3 DEF HistoryGrows

(* The rows a new plan and its gate leave, whatever went before.             *)
LEMMA GateOpened ==
    ASSUME MaintenanceInv,
           NEW plan \in PlanRow, NEW outcome \in ReviewOutcomes, plan.outcome = outcome,
           NEW applied \in SUBSET DocVersion, NEW verdict \in Number,
           plans' = Append(plans, plan),
           st' = [status |-> "USER_CONFIRMATION", action |-> Len(actions) + 1,
                  kind |-> "revision_confirmation", outcome |-> outcome, lore |-> TRUE, chief |-> TRUE,
                  plan |-> Len(plans) + 1, applied |-> applied, report |-> verdict],
           verdict # None <=> applied # {},
           actions' = Append(actions, NewAction("revision_confirmation", st')),
           row' \in ChangeRow, row'.status = "USER_CONFIRMATION", row'.plan = run',
           row'.meta = [NoMeta EXCEPT !.plan = Len(plans) + 1],
           run' \in Nat \ {0}, project' = run',
           DOMAIN affected' \subseteq Items, report' \in Report \cup {None},
           ItemsOf(plan.ops) = DOMAIN affected',
           \A v \in applied : v \in DocVersion /\ v[2] \in 1 .. Len(ver[v[1]]) /\ ver[v[1]][v[2]] # None,
           verdict # None => report' # None /\ report'.cycle \subseteq applied,
           UNCHANGED ver
    PROVE  MaintenanceInv'
<1>0. RowsOK /\ VersionsOK /\ Len(plans) \in Nat /\ Len(actions) \in Nat
  BY Lengths DEF MaintenanceInv
<1>a. None \notin Nat /\ None \notin Kinds /\ None \notin ReviewOutcomes /\ None \notin Decisions
  BY NoneIsNoValue
<1>1. PICK gate : gate = NewAction("revision_confirmation", st')
  OBVIOUS
<1>2. PICK options \in SUBSET Decisions : options = Options(st')
  BY DEF Options, Decisions
<1>b. gate = [kind |-> "revision_confirmation", outcome |-> outcome, options |-> options, decision |-> None,
              plan |-> Len(plans) + 1]
  BY <1>1, <1>2 DEF NewAction
<1>3. gate \in ActionRow
  <2>1. "revision_confirmation" \in Kinds /\ Len(plans) + 1 \in Nat
    BY <1>0 DEF Kinds
  <2> QED
    BY <1>b, <1>2, <2>1, GateTypes
<1>4. /\ HistoryGrows
      /\ Len(plans') = Len(plans) + 1 /\ plans'[Len(plans) + 1] = plan
      /\ Len(actions') = Len(actions) + 1
      /\ actions'[Len(actions) + 1] = gate
  BY <1>0, <1>1, <1>3, PlanAdded
<1>5. RowsOK'
  BY <1>4 DEF RowsOK, HistoryGrows
<1>6. VersionsOK'
  <2>1. \A d \in Docs : \A n \in 1 .. Len(ver'[d]) : n > Len(ver[d]) => ver'[d][n] = None
    BY <1>0, Lengths
  <2> QED
    BY <1>0, <1>4, <2>1, NothingApplied
<1>7. CheckpointOK'
  <2>1. st' \in Checkpoint
    BY <1>0 DEF Checkpoint, Statuses, Kinds, Number
  <2>2. ValidMaintenance(st')
    BY <1>0, <1>a
       DEF ValidMaintenance, Known, GateBound, ReportBound, PhaseBound, Asks, Statuses, Kinds
  <2> QED
    BY <2>1, <2>2 DEF CheckpointOK, Phases, Ended
<1>8. PlanOK'
  BY <1>0, <1>4 DEF PlanOK, NoMeta
<1>9. ApprovalOK' /\ CycleOK'
  BY DEF ApprovalOK, CycleOK, Warned, Asks
<1>10. AppliedOK'
  BY DEF AppliedOK
<1>11. GateOK'
  BY <1>0, <1>2, <1>b, <1>4 DEF GateOK, Asks
<1> QED
  BY <1>5, <1>6, <1>7, <1>8, <1>9, <1>10, <1>11 DEF MaintenanceInv, RunOK

LEMMA StartSteps ==
    ASSUME MaintenanceInv, NEW w \in Workers, PersistStart(w)
    PROVE  MaintenanceInv'
<1>0. RowsOK /\ Len(plans) \in Nat /\ Len(actions) \in Nat
  BY Lengths DEF MaintenanceInv
<1>1. PICK refs, items, outcome, plan :
         /\ refs = Refs(Own) /\ items \in Impacts(refs) /\ outcome \in Outcomes
         /\ plan \in PreparedPlans(refs, items)
         /\ affected' = items
         /\ plans' = Append(plans, [ops |-> plan, outcome |-> outcome])
         /\ st' = ConfirmationRequested(PlanRecorded(Analysed(NewMaintenance), Len(plans) + 1),
                                        Len(actions) + 1, outcome)
         /\ actions' = Append(actions, NewAction("revision_confirmation", st'))
         /\ row' = NewRow(run + 1, Len(plans) + 1)
  BY DEF PersistStart, CanStart
<1>2. run' = run + 1 /\ project' = run + 1 /\ report' = None /\ ver' = ver /\ run \in Nat
  BY <1>0 DEF PersistStart, RowsOK
<1>3. /\ DOMAIN items \subseteq Items /\ outcome \in ReviewOutcomes
      /\ DOMAIN refs \subseteq Docs /\ \A d \in DOMAIN refs : refs[d] \in Nat
  BY <1>0, <1>1, ImpactsFit, OutcomesFit, RefsTypes DEF Docs
<1>4. /\ plan \in UNION {[S -> Operation] : S \in SUBSET Docs} /\ Edits(plan) # {}
      /\ ItemsOf(plan) = DOMAIN items
  BY <1>1, <1>3, PreparedPlansFit
<1>5. PICK planRow : planRow = [ops |-> plan, outcome |-> outcome]
  OBVIOUS
<1>6. planRow \in PlanRow
  BY <1>3, <1>4, <1>5 DEF PlanRow
<1>7. st' = [status |-> "USER_CONFIRMATION", action |-> Len(actions) + 1,
             kind |-> "revision_confirmation", outcome |-> outcome, lore |-> TRUE, chief |-> TRUE,
             plan |-> Len(plans) + 1, applied |-> {}, report |-> None]
  BY <1>1 DEF ConfirmationRequested, PlanRecorded, Analysed, NewMaintenance
<1>8. row' = [status |-> "USER_CONFIRMATION", plan |-> run + 1, applied |-> FALSE,
              meta |-> [plan |-> Len(plans) + 1, previous |-> None, approval |-> None, cycle |-> {}]]
  BY <1>1 DEF NewRow, NoMeta
<1>9. row' \in ChangeRow
  <2>1. "USER_CONFIRMATION" \in Statuses /\ run + 1 \in Number /\ Len(plans) + 1 \in Number /\ None \in Number
    BY <1>0, <1>2 DEF Statuses, Number
  <2> QED
    BY <1>8, <2>1 DEF ChangeRow, Meta
<1>10. row'.meta = [NoMeta EXCEPT !.plan = Len(plans) + 1]
  BY <1>8 DEF NoMeta
<1>11. {} \in SUBSET DocVersion /\ None \in Number
  BY DEF Number
<1>12. run' \in Nat \ {0}
  BY <1>2
<1> QED
  <2>1. /\ planRow.outcome = outcome /\ plans' = Append(plans, planRow)
        /\ ItemsOf(planRow.ops) = DOMAIN affected' /\ DOMAIN affected' \subseteq Items
    BY <1>1, <1>3, <1>4, <1>5
  <2>2. row'.status = "USER_CONFIRMATION" /\ row'.plan = run' /\ project' = run'
    BY <1>2, <1>8
  <2>3. report' \in Report \cup {None}
    BY <1>2
  <2>4. \A v \in {} : v \in DocVersion /\ v[2] \in 1 .. Len(ver[v[1]]) /\ ver[v[1]][v[2]] # None
    OBVIOUS
  <2> QED
    BY <1>1, <1>2, <1>3, <1>6, <1>7, <1>9, <1>10, <1>11, <1>12, <2>1, <2>2, <2>3, <2>4, GateOpened

(* A request that goes on with a phase has found the run in it.              *)
LEMMA LockedRun ==
    ASSUME MaintenanceInv, NEW status, Locked(status)
    PROVE  /\ RowsOK /\ VersionsOK /\ RunOK /\ CheckpointOK /\ PlanOK /\ ApprovalOK /\ CycleOK /\ AppliedOK /\ GateOK
           /\ st.status = status /\ row.status = status
           /\ Len(plans) \in Nat /\ Len(actions) \in Nat /\ run \in Nat
<1>1. RowsOK /\ Len(plans) \in Nat /\ Len(actions) \in Nat /\ run \in Nat
  BY Lengths DEF MaintenanceInv, RowsOK
<1> QED
  BY <1>1 DEF Locked, MaintenanceInv, NoRun, RunOK

LEMMA RevisionSteps ==
    ASSUME MaintenanceInv, NEW w \in Workers, PersistRevision(w)
    PROVE  MaintenanceInv'
<1>0. /\ RowsOK /\ RunOK /\ CheckpointOK /\ PlanOK /\ AppliedOK
      /\ st.status = "REVISION_PLAN" /\ Len(plans) \in Nat /\ Len(actions) \in Nat /\ run \in Nat
  BY LockedRun DEF PersistRevision, CanPersistRevision, CanLoadRevision
<1>r. worker[w].request = [previous |-> row.meta.previous, refs |-> Refs(Docs)]
  BY DEF PersistRevision, CanPersistRevision, RevisionRequest
<1>s. PICK refs : refs = Refs(Docs) /\ refs = worker[w].request.refs
  BY <1>r
<1>1. PICK outcome \in Outcomes, plan \in PreparedPlans(refs, affected) :
         /\ Move(ConfirmationRequested(PlanRecorded(st, Len(plans) + 1), Len(actions) + 1, outcome),
                 run, row.applied, [NoMeta EXCEPT !.plan = Len(plans) + 1])
         /\ plans' = Append(plans, [ops |-> plan, outcome |-> outcome])
         /\ actions' = Append(actions, NewAction("revision_confirmation",
                ConfirmationRequested(PlanRecorded(st, Len(plans) + 1), Len(actions) + 1, outcome)))
  BY <1>s DEF PersistRevision
<1>2. run' = run /\ report' = report /\ ver' = ver /\ affected' = affected
  BY DEF PersistRevision, data
<1>3. /\ DOMAIN affected \subseteq Items /\ outcome \in ReviewOutcomes
      /\ DOMAIN refs \subseteq Docs /\ \A d \in DOMAIN refs : refs[d] \in Nat
  BY <1>0, <1>s, OutcomesFit, RefsTypes DEF RowsOK
<1>4. /\ plan \in UNION {[S -> Operation] : S \in SUBSET Docs} /\ Edits(plan) # {}
      /\ ItemsOf(plan) = DOMAIN affected
  BY <1>1, <1>3, PreparedPlansFit
<1>5. PICK planRow : planRow = [ops |-> plan, outcome |-> outcome]
  OBVIOUS
<1>6. planRow \in PlanRow
  BY <1>3, <1>4, <1>5 DEF PlanRow
<1>7. st \in Checkpoint /\ row \in ChangeRow /\ ValidMaintenance(st)
  BY <1>0 DEF CheckpointOK
<1>8. st.lore = TRUE /\ st.chief = TRUE
  BY <1>0, <1>7 DEF ValidMaintenance, PhaseBound, Checkpoint
<1>9. st.report # None <=> st.applied # {}
  BY <1>0, <1>7 DEF ValidMaintenance, ReportBound
<1>10. st' = [status |-> "USER_CONFIRMATION", action |-> Len(actions) + 1,
              kind |-> "revision_confirmation", outcome |-> outcome, lore |-> TRUE, chief |-> TRUE,
              plan |-> Len(plans) + 1, applied |-> st.applied, report |-> st.report]
  BY <1>1, <1>7, <1>8 DEF Move, ConfirmationRequested, PlanRecorded, Checkpoint
<1>11. st' = ConfirmationRequested(PlanRecorded(st, Len(plans) + 1), Len(actions) + 1, outcome)
  BY <1>1 DEF Move
<1>12. actions' = Append(actions, NewAction("revision_confirmation", st'))
  BY <1>1, <1>11
<1>13. st'.status = "USER_CONFIRMATION"
  BY <1>10
<1>14. /\ row' = [status |-> "USER_CONFIRMATION", plan |-> run, applied |-> row.applied,
                  meta |-> [NoMeta EXCEPT !.plan = Len(plans) + 1]]
       /\ project' = project
  BY <1>1, <1>11, <1>13 DEF Move, Ended
<1>15. row' \in ChangeRow
  <2>1. "USER_CONFIRMATION" \in Statuses /\ run \in Number /\ Len(plans) + 1 \in Number /\ None \in Number
    BY <1>0 DEF Statuses, Number
  <2>2. row.applied \in BOOLEAN
    BY <1>7 DEF ChangeRow
  <2>3. [NoMeta EXCEPT !.plan = Len(plans) + 1] \in Meta
    BY <2>1 DEF NoMeta, Meta
  <2> QED
    BY <1>14, <2>1, <2>2, <2>3 DEF ChangeRow
<1>16. st.applied \in SUBSET DocVersion /\ st.report \in Number
  BY <1>7 DEF Checkpoint
<1>17. run' \in Nat \ {0} /\ project' = run'
  BY <1>0, <1>2, <1>14 DEF RunOK, CheckpointOK, Ended
<1>18. /\ \A v \in st.applied : v \in DocVersion /\ v[2] \in 1 .. Len(ver[v[1]]) /\ ver[v[1]][v[2]] # None
       /\ st.report # None => report' # None /\ report'.cycle \subseteq st.applied
       /\ report' \in Report \cup {None}
  BY <1>0, <1>2, <1>16 DEF AppliedOK, RowsOK
<1> QED
  BY <1>1, <1>2, <1>3, <1>4, <1>5, <1>6, <1>9, <1>10, <1>12, <1>14, <1>15, <1>16, <1>17, <1>18, GateOpened

-----------------------------------------------------------------------------
(* The author's decisions.                                                  *)

LEMMA DecisionSteps ==
    ASSUME MaintenanceInv, NEW w \in Workers, NEW decision \in Decisions, Decide(w, decision)
    PROVE  MaintenanceInv'
<1>0. /\ RowsOK /\ VersionsOK /\ RunOK /\ CheckpointOK /\ PlanOK /\ AppliedOK /\ GateOK
      /\ st.status = "USER_CONFIRMATION" /\ Len(plans) \in Nat /\ Len(actions) \in Nat /\ run \in Nat
  BY LockedRun DEF Decide
<1>a. None \notin Nat /\ None \notin Kinds /\ None \notin ReviewOutcomes /\ None \notin Decisions
  BY NoneIsNoValue
<1>1. st \in Checkpoint /\ row \in ChangeRow /\ ValidMaintenance(st) /\ project = run /\ run # 0
  BY <1>0 DEF CheckpointOK, RunOK, Ended
<1>2. /\ st.action \in 1 .. Len(actions) /\ actions[st.action].kind = st.kind
      /\ actions[st.action].plan = st.plan /\ actions[st.action].decision = None
  BY <1>0 DEF GateOK, Asks
<1>3. st.plan # None /\ st.plan = Len(plans) /\ row.plan = run
  BY <1>0, <1>1, <1>a DEF ValidMaintenance, PhaseBound, PlanOK
<1>4. /\ st' = Resolved(st, decision) /\ DecisionOk(st, decision) /\ ValidMaintenance(st')
      /\ actions' = [actions EXCEPT ![st.action].decision = decision]
      /\ UNCHANGED <<run, affected, plans, report, ver>>
  BY DEF Decide, Move, MayMove, data
<1>5. st' = [status |-> TargetOf(decision), action |-> None, kind |-> None, outcome |-> None,
             lore |-> st.lore, chief |-> st.chief,
             plan |-> IF decision = "REVISE" THEN None ELSE st.plan, applied |-> st.applied,
             report |-> IF decision = "APPROVE" THEN None ELSE st.report]
  BY <1>1, <1>4 DEF Resolved, Checkpoint
<1>6. TargetOf(decision) \in {"REVISION_PLAN", "APPLY_CHANGE", "CANCELLED", "PROJECT_UPDATED"}
  BY DEF TargetOf, Decisions
<1>7. PICK status : status = TargetOf(decision)
  OBVIOUS
<1>8. /\ decision = "REVISE" <=> status = "REVISION_PLAN"
      /\ decision = "APPROVE" <=> status = "APPLY_CHANGE"
      /\ status \in Statuses /\ status # "USER_CONFIRMATION" /\ status # "CONSISTENCY_REVIEW"
      /\ status \in Phases
  BY <1>6, <1>7 DEF TargetOf, Decisions, Statuses, Phases, Ended
<1>9. /\ row' = [status |-> status, plan |-> IF decision = "REVISE" THEN None ELSE row.plan,
                 applied |-> row.applied,
                 meta |-> [row.meta EXCEPT !.previous = st.plan, !.approval = st.action]]
      /\ project' = IF status \in Ended THEN None ELSE project
  BY <1>5, <1>4, <1>7, <1>8 DEF Decide, Move, MetaAfterDecision
<1>10. row' \in ChangeRow
       /\ row'.meta = [plan |-> row.meta.plan, previous |-> st.plan, approval |-> st.action,
                       cycle |-> row.meta.cycle]
  <2>1. row.meta \in Meta /\ row.applied \in BOOLEAN /\ row.plan \in Number
    BY <1>1 DEF ChangeRow
  <2>2. st.plan \in Number /\ st.action \in Number /\ None \in Number
    BY <1>1 DEF Checkpoint, Number
  <2>3. [row.meta EXCEPT !.previous = st.plan, !.approval = st.action]
          = [plan |-> row.meta.plan, previous |-> st.plan, approval |-> st.action, cycle |-> row.meta.cycle]
    <3>1. PICK meta : meta = [row.meta EXCEPT !.previous = st.plan]
      OBVIOUS
    <3>2. meta = [plan |-> row.meta.plan, previous |-> st.plan, approval |-> row.meta.approval,
                  cycle |-> row.meta.cycle]
      BY <2>1, <3>1 DEF Meta
    <3>3. [meta EXCEPT !.approval = st.action]
            = [plan |-> row.meta.plan, previous |-> st.plan, approval |-> st.action, cycle |-> row.meta.cycle]
      BY <3>2
    <3> QED
      BY <3>1, <3>3, Zenon
  <2>4. [plan |-> row.meta.plan, previous |-> st.plan, approval |-> st.action, cycle |-> row.meta.cycle] \in Meta
    BY <2>1, <2>2 DEF Meta
  <2> QED
    BY <1>8, <1>9, <2>1, <2>2, <2>3, <2>4 DEF ChangeRow
<1>11. /\ actions' \in Seq(ActionRow) /\ Len(actions') = Len(actions)
       /\ \A a \in 1 .. Len(actions) :
             /\ actions'[a].kind = actions[a].kind /\ actions'[a].plan = actions[a].plan
             /\ a # st.action => actions'[a] = actions[a]
       /\ actions'[st.action].decision = decision
  <2>1. PICK gate : gate = [actions[st.action] EXCEPT !.decision = decision]
    OBVIOUS
  <2>2. actions[st.action] \in ActionRow
    BY <1>0, <1>2, Lengths
  <2>3. gate \in ActionRow /\ gate.decision = decision
        /\ gate.kind = actions[st.action].kind /\ gate.plan = actions[st.action].plan
    BY <2>1, <2>2 DEF ActionRow
  <2>4. actions' = [actions EXCEPT ![st.action] = gate]
    BY <1>4, <2>1
  <2> QED
    BY <1>0, <1>2, <2>3, <2>4 DEF RowsOK
<1>12. HistoryGrows
  <2>1. None # "APPROVE"
    BY <1>a DEF Decisions
  <2>2. \A a \in 1 .. Len(actions) : actions[a].decision = "APPROVE" => actions'[a].decision = "APPROVE"
    BY <1>2, <1>11, <2>1
  <2>3. /\ \A p \in 1 .. Len(plans) : plans'[p] = plans[p]
        /\ plans' \in Seq(PlanRow) /\ Len(plans) <= Len(plans')
    BY <1>0, <1>4 DEF RowsOK
  <2>4. /\ ver' \in [Docs -> Seq(Written \cup {None})]
        /\ \A d \in Docs : Len(ver[d]) <= Len(ver'[d]) /\ \A n \in 1 .. Len(ver[d]) : ver'[d][n] = ver[d][n]
    BY <1>0, <1>4, Lengths DEF RowsOK
  <2>5. Len(actions) <= Len(actions')
    BY <1>0, <1>11
  <2>6. \A a \in 1 .. Len(actions) :
           /\ actions'[a].kind = actions[a].kind /\ actions'[a].plan = actions[a].plan
           /\ actions[a].decision = "APPROVE" => actions'[a].decision = "APPROVE"
    BY <1>11, <2>2
  <2>7. actions' \in Seq(ActionRow)
    BY <1>11
  <2> QED
    BY <2>3, <2>4, <2>5, <2>6, <2>7 DEF HistoryGrows
<1>13. RowsOK'
  BY <1>0, <1>4, <1>11 DEF RowsOK
<1>14. VersionsOK'
  <2>1. \A d \in Docs : \A n \in 1 .. Len(ver'[d]) : n > Len(ver[d]) => ver'[d][n] = None
    BY <1>0, <1>4, Lengths
  <2> QED
    BY <1>0, <1>12, <2>1, NothingApplied
<1>15. CheckpointOK'
  <2>1. st' \in Checkpoint
    BY <1>1, <1>5, <1>7, <1>8 DEF Checkpoint, Number
  <2>2. st'.status = status /\ row'.status = status
    BY <1>5, <1>7, <1>9
  <2> QED
    BY <1>1, <1>4, <1>8, <1>9, <1>10, <2>1, <2>2 DEF CheckpointOK
<1>16. PlanOK'
  <2>1. row.meta.plan = Len(plans)
    BY <1>0, <1>3 DEF PlanOK
  <2>2. st'.status = status /\ (status = "REVISION_PLAN" => st'.plan = None /\ row'.plan = None)
        /\ (st'.plan # None => st'.plan = st.plan /\ row'.plan = row.plan)
    BY <1>5, <1>7, <1>8, <1>9
  <2> QED
    BY <1>0, <1>3, <1>4, <1>10, <2>1, <2>2 DEF PlanOK
<1>17. st'.status = status
  BY <1>5, <1>7
<1>18. ApprovalOK'
  <2>1. CASE status = "APPLY_CHANGE"
    <3>1. decision = "APPROVE" /\ st'.plan = st.plan
      BY <1>5, <1>8, <2>1
    <3>2. st.kind = "revision_confirmation"
      BY <3>1 , <1>4 DEF DecisionOk
    <3>3. PICK by : by = [plan |-> st.plan, approval |-> st.action]
      OBVIOUS
    <3>4. by = [plan |-> st'.plan, approval |-> row'.meta.approval]
      BY <1>10, <3>1, <3>3
    <3>5. Approved(actions', plans', by)
      BY <1>0, <1>2, <1>3, <1>4, <1>11, <3>1, <3>2, <3>3 DEF Approved, PlanOK
    <3> QED
      BY <1>2, <1>10, <3>1, <3>4, <3>5 DEF ApprovalOK
  <2>2. CASE status # "APPLY_CHANGE"
    BY <1>8, <1>17, <2>2 DEF ApprovalOK, Warned, Asks
  <2> QED
    BY <2>1, <2>2
<1>19. CycleOK' /\ GateOK'
  BY <1>8, <1>17 DEF CycleOK, GateOK, Warned, Asks
<1>20. AppliedOK'
  <2>1. st'.applied = st.applied /\ st'.report \in {None, st.report}
    BY <1>5
  <2> QED
    BY <1>0, <1>4, <2>1 DEF AppliedOK
<1> QED
  BY <1>1, <1>4, <1>13, <1>14, <1>15, <1>16, <1>18, <1>19, <1>20 DEF MaintenanceInv, RunOK

-----------------------------------------------------------------------------
(* The application of an approved plan.                                     *)

LEMMA ApplySteps ==
    ASSUME MaintenanceInv, NEW w \in Workers, PersistApply(w)
    PROVE  MaintenanceInv'
<1>0. /\ RowsOK /\ VersionsOK /\ RunOK /\ CheckpointOK /\ PlanOK /\ ApprovalOK /\ AppliedOK
      /\ st.status = "APPLY_CHANGE" /\ Len(plans) \in Nat /\ Len(actions) \in Nat /\ run \in Nat
  BY LockedRun DEF PersistApply, CanPersistApply, CanLoadApply
<1>1. st \in Checkpoint /\ row \in ChangeRow /\ ValidMaintenance(st) /\ project = run /\ run # 0
  BY <1>0 DEF CheckpointOK, RunOK, Ended
<1>2. /\ st.plan # None /\ st.plan = Len(plans) /\ row.plan = run /\ row.meta.plan = Len(plans)
      /\ st.plan \in 1 .. Len(plans)
  BY <1>0, <1>1 DEF ValidMaintenance, PhaseBound, PlanOK
<1>3. PICK ops : ops = plans[st.plan].ops
  OBVIOUS
<1>4. /\ Edits(ops) \subseteq DOMAIN ops /\ DOMAIN ops \subseteq Docs /\ Edits(ops) # {}
      /\ \A d \in DOMAIN ops : ops[d].version = Len(ver[d])
  BY <1>0, <1>2, <1>3, PlanTypes DEF PersistApply, CanPersistApply, CanLoadApply, TargetsCurrent, Current
<1>5. PICK by : by = [plan |-> st.plan, approval |-> row.meta.approval]
  OBVIOUS
<1>6. /\ row.meta.previous = st.plan /\ row.meta.approval \in Nat
      /\ Approved(actions, plans, by)
  BY <1>0, <1>5 DEF ApprovalOK
<1>7. by \in Written /\ by # None
  <2>1. st.plan \in Nat /\ row.meta.approval \in Nat
    BY <1>0, <1>2, <1>6
  <2>2. by \in [plan : Nat, approval : Nat]
    BY <1>5, <2>1
  <2> QED
    BY <2>2, NoneIsNoRecord DEF Written
<1>8. PICK written : written = {<<d, Len(ver[d]) + 1>> : d \in Edits(ops)}
  OBVIOUS
<1>9. /\ st' = ReviewRecorded(st, written) /\ ValidMaintenance(st')
      /\ row' = [status |-> st'.status, plan |-> row.plan, applied |-> TRUE,
                 meta |-> [row.meta EXCEPT !.cycle = written]]
      /\ project' = IF st'.status \in Ended THEN None ELSE project
      /\ ver' = [d \in Docs |-> IF d \in Edits(ops) THEN Append(ver[d], by) ELSE ver[d]]
      /\ UNCHANGED <<run, affected, actions, plans, report>>
  BY <1>3, <1>5, <1>8 DEF PersistApply, Move, MayMove, Current, ApplyRequest
<1>10. written \in SUBSET DocVersion /\ written # {}
       /\ \A v \in written : v[1] \in Edits(ops) /\ v[2] = Len(ver[v[1]]) + 1
  <2>1. \A d \in Edits(ops) : <<d, Len(ver[d]) + 1>> \in DocVersion
    BY <1>0, <1>4, Lengths DEF DocVersion
  <2>2. ASSUME NEW v \in written
        PROVE  v \in DocVersion /\ v[1] \in Edits(ops) /\ v[2] = Len(ver[v[1]]) + 1
    <3>1. PICK d \in Edits(ops) : v = <<d, Len(ver[d]) + 1>>
      BY <1>8
    <3>2. v[1] = d /\ v[2] = Len(ver[d]) + 1
      BY <3>1
    <3> QED
      BY <2>1, <3>1, <3>2
  <2>3. written # {}
    <3>1. PICK d : d \in Edits(ops)
      BY <1>4
    <3>2. <<d, Len(ver[d]) + 1>> \in written
      BY <1>8, <3>1
    <3> QED
      BY <3>2
  <2> QED
    BY <2>2, <2>3
<1>11. st' = [status |-> "CONSISTENCY_REVIEW", action |-> st.action, kind |-> st.kind, outcome |-> st.outcome,
              lore |-> st.lore, chief |-> st.chief, plan |-> st.plan,
              applied |-> st.applied \cup written, report |-> None]
  BY <1>1, <1>9 DEF ReviewRecorded, Checkpoint
<1>12. /\ row'.status = "CONSISTENCY_REVIEW" /\ row'.plan = run /\ row' \in ChangeRow
       /\ row'.meta = [plan |-> row.meta.plan, previous |-> row.meta.previous,
                       approval |-> row.meta.approval, cycle |-> written]
       /\ project' = run
  <2>1. row.meta \in Meta /\ row.plan \in Number
    BY <1>1 DEF ChangeRow
  <2>2. [row.meta EXCEPT !.cycle = written]
          = [plan |-> row.meta.plan, previous |-> row.meta.previous, approval |-> row.meta.approval, cycle |-> written]
    BY <2>1 DEF Meta
  <2>3. [plan |-> row.meta.plan, previous |-> row.meta.previous, approval |-> row.meta.approval, cycle |-> written]
          \in Meta
    BY <1>10, <2>1 DEF Meta
  <2>4. st'.status = "CONSISTENCY_REVIEW" /\ "CONSISTENCY_REVIEW" \in Statuses /\ "CONSISTENCY_REVIEW" \notin Ended
    BY <1>11 DEF Statuses, Ended
  <2> QED
    BY <1>1, <1>2, <1>9, <2>1, <2>2, <2>3, <2>4 DEF ChangeRow
<1>13. ASSUME NEW d \in Docs
       PROVE  /\ ver'[d] \in Seq(Written \cup {None}) /\ Len(ver[d]) \in Nat
              /\ \A n \in 1 .. Len(ver[d]) : ver'[d][n] = ver[d][n]
              /\ IF d \in Edits(ops) THEN Len(ver'[d]) = Len(ver[d]) + 1 /\ ver'[d][Len(ver[d]) + 1] = by
                                     ELSE ver'[d] = ver[d]
  <2>1. ver[d] \in Seq(Written \cup {None}) /\ by \in Written \cup {None}
    BY <1>0, <1>7 DEF RowsOK
  <2>2. ver'[d] = IF d \in Edits(ops) THEN Append(ver[d], by) ELSE ver[d]
    BY <1>9
  <2>3. CASE d \in Edits(ops)
    BY <2>1, <2>2, <2>3, AppendAdds
  <2>4. CASE d \notin Edits(ops)
    BY <2>1, <2>2, <2>4
  <2> QED
    BY <2>3, <2>4
<1>14. HistoryGrows
  <2>1. DOMAIN ver' = Docs /\ ver' = [d \in Docs |-> ver'[d]]
    BY <1>9
  <2>2. ver' \in [Docs -> Seq(Written \cup {None})]
    BY <1>13, <2>1
  <2>3. \A d \in Docs : Len(ver[d]) <= Len(ver'[d]) /\ \A n \in 1 .. Len(ver[d]) : ver'[d][n] = ver[d][n]
    BY <1>13
  <2> QED
    BY <1>0, <1>9, <2>2, <2>3 DEF HistoryGrows, RowsOK
<1>15. RowsOK'
  BY <1>0, <1>9, <1>14 DEF RowsOK, HistoryGrows
<1>16. ASSUME NEW d \in Edits(ops)
       PROVE  ops[d].version + 1 \in 1 .. Len(ver'[d]) /\ ver'[d][ops[d].version + 1] = by
  BY <1>4, <1>13
<1>17. by.plan = st.plan /\ plans'[by.plan].ops = ops /\ Approved(actions', plans', by)
  BY <1>3, <1>5, <1>6, <1>9
<1>18. VersionsOK'
  <2>1. ASSUME NEW d \in Docs, NEW n \in 1 .. Len(ver'[d]), ver'[d][n] # None
        PROVE  WrittenAsApproved(actions', plans', ver', d, n)
    <3>1. CASE n \in 1 .. Len(ver[d])
      BY <1>0, <1>14, <2>1, <3>1, VersionsStay
    <3>2. CASE n \notin 1 .. Len(ver[d])
      <4>1. d \in Edits(ops) /\ n = Len(ver[d]) + 1 /\ ver'[d][n] = by
        BY <1>13, <3>2
      <4>2. ops[d].version = n - 1
        BY <1>4, <1>13, <4>1
      <4> QED
        BY <1>16, <1>17, <4>1, <4>2 DEF WrittenAsApproved
    <3> QED
      BY <3>1, <3>2
  <2> QED
    BY <2>1 DEF VersionsOK
<1>19. CheckpointOK'
  <2>1. st' \in Checkpoint
    BY <1>1, <1>10, <1>11 DEF Checkpoint, Statuses, Number
  <2> QED
    BY <1>9, <1>11, <1>12, <2>1 DEF CheckpointOK, Phases, Ended
<1>20. PlanOK'
  <2>1. row'.meta.plan = Len(plans) /\ st'.status = "CONSISTENCY_REVIEW" /\ st'.plan = Len(plans)
    BY <1>2, <1>11, <1>12
  <2> QED
    BY <1>0, <1>9, <1>12, <2>1 DEF PlanOK
<1>21. st'.plan = st.plan /\ row'.meta.approval = row.meta.approval /\ row'.meta.previous = row.meta.previous
       /\ row'.meta.cycle = written /\ st'.applied = st.applied \cup written /\ st'.status = "CONSISTENCY_REVIEW"
       /\ st'.report = None
  BY <1>11, <1>12
<1>22. ApprovalOK'
  BY <1>5, <1>6, <1>17, <1>21 DEF ApprovalOK
<1>23. ASSUME NEW v \in written
       PROVE  v[2] \in 1 .. Len(ver'[v[1]]) /\ ver'[v[1]][v[2]] = by
  BY <1>4, <1>10, <1>13
<1>24. CycleOK'
  BY <1>5, <1>10, <1>21, <1>23 DEF CycleOK
<1>25. AppliedOK'
  <2>1. ASSUME NEW v \in st.applied
        PROVE  v[2] \in 1 .. Len(ver'[v[1]]) /\ ver'[v[1]][v[2]] # None
    <3>1. v[1] \in Docs /\ v[2] \in 1 .. Len(ver[v[1]]) /\ ver[v[1]][v[2]] # None
      BY <1>0, <1>1 DEF AppliedOK, Checkpoint, DocVersion
    <3>2. Len(ver[v[1]]) \in Nat /\ Len(ver'[v[1]]) \in Nat /\ Len(ver[v[1]]) <= Len(ver'[v[1]])
      BY <1>13, <3>1
    <3> QED
      BY <1>13, <3>1, <3>2
  <2> QED
    BY <1>7, <1>21, <1>23, <2>1 DEF AppliedOK
<1>26. GateOK'
  BY <1>21 DEF GateOK, Asks
<1> QED
  BY <1>1, <1>9, <1>15, <1>18, <1>19, <1>20, <1>22, <1>24, <1>25, <1>26 DEF MaintenanceInv, RunOK

-----------------------------------------------------------------------------
(* The verdict about the newest cycle.                                      *)

LEMMA ReviewSteps ==
    ASSUME MaintenanceInv, NEW w \in Workers, NEW outcome \in ReviewOutcomes, PersistReview(w, outcome)
    PROVE  MaintenanceInv'
<1>0. /\ RowsOK /\ VersionsOK /\ RunOK /\ CheckpointOK /\ PlanOK /\ ApprovalOK /\ CycleOK /\ AppliedOK
      /\ st.status = "CONSISTENCY_REVIEW" /\ Len(plans) \in Nat /\ Len(actions) \in Nat /\ run \in Nat
  BY LockedRun DEF PersistReview, CanPersistReview, CanLoadReview
<1>1. st \in Checkpoint /\ row \in ChangeRow /\ ValidMaintenance(st) /\ project = run /\ run # 0
  BY <1>0 DEF CheckpointOK, RunOK, Ended
<1>2. /\ st.plan # None /\ st.plan = Len(plans) /\ row.plan = run /\ row.meta.plan = Len(plans)
      /\ st.plan \in 1 .. Len(plans)
  BY <1>0, <1>1 DEF ValidMaintenance, PhaseBound, PlanOK
<1>3. /\ row.meta.previous = st.plan /\ row.meta.approval \in Nat
      /\ Approved(actions, plans, [plan |-> st.plan, approval |-> row.meta.approval])
  BY <1>0 DEF ApprovalOK
<1>4. /\ row.meta.cycle # {} /\ row.meta.cycle \subseteq st.applied
      /\ \A v \in row.meta.cycle : ver[v[1]][v[2]] = [plan |-> st.plan, approval |-> row.meta.approval]
  BY <1>0 DEF CycleOK
<1>5. st.applied # {} /\ st.lore \in BOOLEAN /\ st.chief \in BOOLEAN /\ row.meta \in Meta
  BY <1>1, <1>4 DEF Checkpoint, ChangeRow
<1>6. PICK next : next = ReviewRouted(st, outcome, st.plan, Len(actions) + 1)
  OBVIOUS
<1>7. PICK meta : meta = IF outcome = "BLOCKING" THEN [row.meta EXCEPT !.previous = st.plan] ELSE row.meta
  OBVIOUS
<1>8. /\ st' = next /\ ValidMaintenance(next)
      /\ row' = [status |-> next.status, plan |-> IF outcome = "BLOCKING" THEN None ELSE row.plan,
                 applied |-> row.applied, meta |-> meta]
      /\ project' = IF next.status \in Ended THEN None ELSE project
      /\ actions' = IF outcome = "WARNING"
                    THEN Append(actions, NewAction("consistency_warning", next)) ELSE actions
      /\ UNCHANGED <<run, affected, plans, ver>>
  BY <1>6, <1>7 DEF PersistReview, Move, MayMove, data
<1>9. report' = [cycle |-> row.meta.cycle, outcome |-> outcome]
  BY DEF PersistReview, CanPersistReview, ReviewRequest
<1>10. meta = row.meta
  BY <1>3, <1>5, <1>7 DEF Meta
<1>11. next = [status |-> CASE outcome = "WARNING" -> "USER_CONFIRMATION"
                            [] outcome = "BLOCKING" -> "REVISION_PLAN"
                            [] outcome = "PASSED" -> "PROJECT_UPDATED",
               action |-> IF outcome = "WARNING" THEN Len(actions) + 1 ELSE st.action,
               kind |-> IF outcome = "WARNING" THEN "consistency_warning" ELSE st.kind,
               outcome |-> IF outcome = "WARNING" THEN outcome ELSE st.outcome,
               lore |-> st.lore, chief |-> st.chief,
               plan |-> IF outcome = "BLOCKING" THEN None ELSE st.plan,
               applied |-> st.applied, report |-> st.plan]
  BY <1>1, <1>6 DEF ReviewRouted, ReviewOutcomes, Checkpoint
<1>12. /\ next \in Checkpoint /\ next.applied = st.applied /\ next.report # None
       /\ outcome = "WARNING" <=> next.status = "USER_CONFIRMATION"
       /\ outcome = "BLOCKING" <=> next.status = "REVISION_PLAN"
       /\ next.status \in {"USER_CONFIRMATION", "REVISION_PLAN", "PROJECT_UPDATED"}
  <2>1. CASE outcome = "WARNING"
    BY <1>0, <1>1, <1>2, <1>11, <2>1 DEF Checkpoint, Statuses, Kinds, ReviewOutcomes, Number
  <2>2. CASE outcome = "BLOCKING"
    BY <1>0, <1>1, <1>2, <1>11, <2>2 DEF Checkpoint, Statuses, Kinds, ReviewOutcomes, Number
  <2>3. CASE outcome = "PASSED"
    BY <1>0, <1>1, <1>2, <1>11, <2>3 DEF Checkpoint, Statuses, Kinds, ReviewOutcomes, Number
  <2> QED
    BY <2>1, <2>2, <2>3 DEF ReviewOutcomes
<1>13. row' \in ChangeRow /\ row'.status = next.status /\ row'.meta = row.meta
       /\ row'.plan = IF outcome = "BLOCKING" THEN None ELSE row.plan
  BY <1>1, <1>8, <1>10, <1>12 DEF ChangeRow, Checkpoint, Number
<1>14. /\ actions' \in Seq(ActionRow) /\ Len(actions') >= Len(actions)
       /\ \A a \in 1 .. Len(actions) : actions'[a] = actions[a]
       /\ outcome = "WARNING" => /\ Len(actions) + 1 \in 1 .. Len(actions')
                                 /\ actions'[Len(actions) + 1] =
                                      [kind |-> "consistency_warning", outcome |-> next.outcome,
                                       options |-> Options(next), decision |-> None, plan |-> next.plan]
  <2>1. CASE outcome = "WARNING"
    <3>1. PICK gate : gate = NewAction("consistency_warning", next)
      OBVIOUS
    <3>2. PICK options \in SUBSET Decisions : options = Options(next)
      BY DEF Options, Decisions
    <3>3. PICK plan : plan = next.plan
      OBVIOUS
    <3>4. gate = [kind |-> "consistency_warning", outcome |-> outcome, options |-> options, decision |-> None,
                  plan |-> plan] /\ next.outcome = outcome
      BY <1>11, <2>1, <3>1, <3>2, <3>3 DEF NewAction
    <3>5. "consistency_warning" \in Kinds /\ plan \in Nat
      BY <1>0, <1>2, <1>11, <2>1, <3>3 DEF Kinds
    <3>6. gate \in ActionRow
      BY <3>2, <3>4, <3>5, GateTypes
    <3>7. actions' = Append(actions, gate) /\ actions \in Seq(ActionRow)
      BY <1>0, <1>8, <2>1, <3>1 DEF RowsOK
    <3>8. /\ actions' \in Seq(ActionRow) /\ Len(actions') = Len(actions) + 1
          /\ \A a \in 1 .. Len(actions) : actions'[a] = actions[a]
          /\ actions'[Len(actions) + 1] = gate
      BY <3>6, <3>7, AppendAdds
    <3> QED
      BY <1>0, <3>2, <3>3, <3>4, <3>8
  <2>2. CASE outcome # "WARNING"
    BY <1>0, <1>8, <2>2 DEF RowsOK
  <2> QED
    BY <2>1, <2>2
<1>15. HistoryGrows
  <2>1. /\ ver' \in [Docs -> Seq(Written \cup {None})]
        /\ \A d \in Docs : Len(ver[d]) <= Len(ver'[d]) /\ \A n \in 1 .. Len(ver[d]) : ver'[d][n] = ver[d][n]
    BY <1>0, <1>8, Lengths DEF RowsOK
  <2>2. Len(actions) <= Len(actions')
    BY <1>0, <1>14
  <2> QED
    BY <1>0, <1>8, <1>14, <2>1, <2>2 DEF HistoryGrows, RowsOK
<1>16. RowsOK'
  <2>1. report' \in Report
    BY <1>1, <1>4, <1>9 DEF Report, Checkpoint
  <2> QED
    BY <1>0, <1>8, <1>14, <2>1 DEF RowsOK
<1>17. VersionsOK'
  <2>1. \A d \in Docs : \A n \in 1 .. Len(ver'[d]) : n > Len(ver[d]) => ver'[d][n] = None
    BY <1>0, <1>8, Lengths
  <2> QED
    BY <1>0, <1>15, <2>1, NothingApplied
<1>18. CheckpointOK'
  <2>1. st' = next /\ st' \in Checkpoint /\ row' \in ChangeRow /\ ValidMaintenance(st')
    BY <1>8, <1>12, <1>13
  <2>2. next.status \in Phases
    BY <1>12 DEF Phases, Ended
  <2>3. project' = IF next.status \in Ended THEN None ELSE run'
    BY <1>1, <1>8
  <2> QED
    BY <1>13, <2>1, <2>2, <2>3 DEF CheckpointOK
<1>19. next.plan = (IF outcome = "BLOCKING" THEN None ELSE st.plan)
  BY <1>11
<1>20. PlanOK'
  BY <1>0, <1>2, <1>3, <1>8, <1>12, <1>13, <1>19 DEF PlanOK
<1>21. ApprovalOK'
  <2>1. CASE outcome = "WARNING"
    <3>1. PICK by : by = [plan |-> st.plan, approval |-> row.meta.approval]
      OBVIOUS
    <3>2. Approved(actions', plans', by)
      BY <1>0, <1>3, <1>15, <3>1, ApprovalsStay
    <3>3. by = [plan |-> st'.plan, approval |-> row'.meta.approval] /\ st'.plan = st.plan
      BY <1>8, <1>13, <1>19, <2>1, <3>1
    <3> QED
      BY <1>3, <1>13, <3>2, <3>3 DEF ApprovalOK
  <2>2. CASE outcome # "WARNING"
    BY <1>8, <1>12, <2>2 DEF ApprovalOK, Warned, Asks
  <2> QED
    BY <2>1, <2>2
<1>22. CycleOK'
  <2>1. CASE outcome = "WARNING"
    BY <1>4, <1>8, <1>12, <1>13, <1>19, <2>1 DEF CycleOK
  <2>2. CASE outcome # "WARNING"
    BY <1>8, <1>12, <2>2 DEF CycleOK, Warned, Asks
  <2> QED
    BY <2>1, <2>2
<1>23. AppliedOK'
  <2>1. report' # None /\ report'.cycle \subseteq st.applied
    <3>1. report'.cycle = row.meta.cycle
      BY <1>9
    <3>2. report' \in [cycle : SUBSET (Docs \X Nat), outcome : ReviewOutcomes]
      BY <1>1, <1>4, <1>9 DEF Checkpoint, DocVersion
    <3> QED
      BY <1>4, <3>1, <3>2, NoneIsNoRecord
  <2> QED
    BY <1>0, <1>8, <1>12, <2>1 DEF AppliedOK
<1>24. GateOK'
  <2>1. CASE outcome = "WARNING"
    <3>1. /\ next.action = Len(actions) + 1 /\ next.kind = "consistency_warning" /\ next.outcome = "WARNING"
      BY <1>11, <2>1
    <3> QED
      BY <1>8, <1>9, <1>13, <1>14, <2>1, <3>1 DEF GateOK
  <2>2. CASE outcome # "WARNING"
    BY <1>8, <1>12, <2>2 DEF GateOK, Asks
  <2> QED
    BY <2>1, <2>2
<1> QED
  BY <1>1, <1>8, <1>16, <1>17, <1>18, <1>20, <1>21, <1>22, <1>23, <1>24 DEF MaintenanceInv, RunOK

-----------------------------------------------------------------------------
(* The author's saves.                                                      *)

LEMMA EditSteps ==
    ASSUME MaintenanceInv, NEW d \in Docs, EditDocument(d)
    PROVE  MaintenanceInv'
<1>0. RowsOK /\ VersionsOK
  BY DEF MaintenanceInv
<1>1. /\ ver' = [ver EXCEPT ![d] = Append(ver[d], None)]
      /\ UNCHANGED <<project, run, st, row, affected, actions, plans, report>>
  BY DEF EditDocument, rows
<1>2. ASSUME NEW e \in Docs
      PROVE  /\ ver'[e] \in Seq(Written \cup {None}) /\ Len(ver[e]) \in Nat
             /\ Len(ver[e]) <= Len(ver'[e])
             /\ \A n \in 1 .. Len(ver[e]) : ver'[e][n] = ver[e][n]
             /\ \A n \in 1 .. Len(ver'[e]) : n > Len(ver[e]) => ver'[e][n] = None
  <2>1. ver[e] \in Seq(Written \cup {None}) /\ ver \in [Docs -> Seq(Written \cup {None})]
        /\ None \in Written \cup {None}
    BY <1>0 DEF RowsOK
  <2>2. CASE e = d
    <3>1. ver'[e] = Append(ver[e], None)
      BY <1>1, <2>1, <2>2
    <3>2. /\ Append(ver[e], None) \in Seq(Written \cup {None}) /\ Len(Append(ver[e], None)) = Len(ver[e]) + 1
          /\ \A i \in 1 .. Len(ver[e]) : Append(ver[e], None)[i] = ver[e][i]
          /\ Append(ver[e], None)[Len(ver[e]) + 1] = None
          /\ Len(ver[e]) \in Nat
      BY <2>1, AppendAdds
    <3> QED
      BY <3>1, <3>2
  <2>3. CASE e # d
    <3>1. ver'[e] = ver[e] /\ Len(ver[e]) \in Nat
      BY <1>1, <2>1, <2>3
    <3> QED
      BY <2>1, <3>1
  <2> QED
    BY <2>2, <2>3
<1>3. ver' \in [Docs -> Seq(Written \cup {None})]
  <2>1. ver' = [e \in Docs |-> ver'[e]]
    BY <1>0, <1>1 DEF RowsOK
  <2> QED
    BY <1>2, <2>1
<1>4. HistoryGrows
  <2>1. Len(plans) \in Nat /\ Len(actions) \in Nat
    BY <1>0, Lengths
  <2> QED
    BY <1>0, <1>1, <1>2, <1>3, <2>1 DEF HistoryGrows, RowsOK
<1>5. RowsOK'
  BY <1>0, <1>1, <1>3 DEF RowsOK
<1>6. VersionsOK'
  BY <1>0, <1>2, <1>4, NothingApplied
<1>7. CASE NoRun
  BY <1>1, <1>5, <1>6, <1>7 DEF MaintenanceInv, NoRun
<1>8. CASE RunOK
  <2>1. CheckpointOK /\ PlanOK /\ ApprovalOK /\ CycleOK /\ AppliedOK /\ GateOK
    BY <1>8 DEF RunOK
  <2>2. CheckpointOK' /\ PlanOK' /\ ApprovalOK' /\ GateOK'
    BY <1>1, <2>1 DEF CheckpointOK, PlanOK, ApprovalOK, GateOK, Warned, Asks
  <2>3. ASSUME NEW v \in st.applied
        PROVE  /\ v[2] \in 1 .. Len(ver'[v[1]]) /\ ver'[v[1]][v[2]] # None
               /\ ver'[v[1]][v[2]] = ver[v[1]][v[2]]
    <3>1. v[1] \in Docs /\ v[2] \in 1 .. Len(ver[v[1]]) /\ ver[v[1]][v[2]] # None
      BY <2>1 DEF AppliedOK, CheckpointOK, Checkpoint, DocVersion
    <3>2. Len(ver[v[1]]) \in Nat /\ Len(ver'[v[1]]) \in Nat /\ Len(ver[v[1]]) <= Len(ver'[v[1]])
      BY <1>2, <3>1
    <3> QED
      BY <1>2, <3>1, <3>2
  <2>4. AppliedOK'
    BY <1>1, <2>1, <2>3 DEF AppliedOK
  <2>5. CycleOK'
    BY <1>1, <2>1, <2>3 DEF CycleOK, Warned, Asks
  <2> QED
    BY <1>1, <1>5, <1>6, <1>8, <2>2, <2>4, <2>5 DEF MaintenanceInv, RunOK
<1> QED
  BY <1>7, <1>8 DEF MaintenanceInv

-----------------------------------------------------------------------------
(* The invariant holds in every state.                                      *)

LEMMA MaintenanceStep == MaintenanceInv /\ [MaintenanceNext]_maintenanceVars => MaintenanceInv'
<1> SUFFICES ASSUME MaintenanceInv, [MaintenanceNext]_maintenanceVars
             PROVE  MaintenanceInv'
  OBVIOUS
<1>1. ASSUME NEW w \in Workers,
             \/ LoadStart(w) \/ StartRefused(w) \/ WritePlan(w) \/ Resume(w)
             \/ LoadApply(w) \/ PersistApplyRefused(w) \/ WriteVersion(w) \/ WriteFails(w)
             \/ LoadReview(w) \/ PersistReviewRefused(w)
             \/ LoadRevision(w) \/ PersistRevisionRefused(w) \/ Crash(w)
      PROVE  MaintenanceInv'
  BY <1>1, QuietSteps
<1>2. ASSUME NEW w \in Workers, PersistStart(w) PROVE MaintenanceInv'
  BY <1>2, StartSteps
<1>3. ASSUME NEW w \in Workers, NEW decision \in Decisions, Decide(w, decision) PROVE MaintenanceInv'
  BY <1>3, DecisionSteps
<1>4. ASSUME NEW w \in Workers, PersistApply(w) PROVE MaintenanceInv'
  BY <1>4, ApplySteps
<1>5. ASSUME NEW w \in Workers, NEW outcome \in ReviewOutcomes, PersistReview(w, outcome)
      PROVE  MaintenanceInv'
  BY <1>5, ReviewSteps
<1>6. ASSUME NEW w \in Workers, PersistRevision(w) PROVE MaintenanceInv'
  BY <1>6, RevisionSteps
<1>7. ASSUME NEW d \in Docs, EditDocument(d) PROVE MaintenanceInv'
  BY <1>7, EditSteps
<1>8. CASE EditPlan
  BY <1>8, RowsUnchanged DEF EditPlan
<1>9. CASE UNCHANGED maintenanceVars
  BY <1>9, RowsUnchanged DEF maintenanceVars, database, data
<1> QED
  BY <1>1, <1>2, <1>3, <1>4, <1>5, <1>6, <1>7, <1>8, <1>9 DEF MaintenanceNext

LEMMA MaintenanceStart == MaintenanceInit => MaintenanceInv
<1> SUFFICES ASSUME MaintenanceInit PROVE MaintenanceInv
  OBVIOUS
<1>1. \A d \in Docs : ver[d] \in Seq(Written \cup {None}) /\ \A n \in 1 .. Len(ver[d]) : ver[d][n] = None
  <2> TAKE d \in Docs
  <2>1. ver[d] = <<>> \/ ver[d] = <<None>>
    BY DEF MaintenanceInit
  <2>2. CASE ver[d] = <<>>
    BY <2>2
  <2>3. CASE ver[d] = <<None>>
    BY <2>3
  <2> QED
    BY <2>1, <2>2, <2>3
<1>2. ver \in [Docs -> Seq(Written \cup {None})]
  <2>1. ver = [d \in Docs |-> ver[d]]
    BY DEF MaintenanceInit
  <2> QED
    BY <1>1, <2>1
<1>3. RowsOK
  BY <1>2 DEF MaintenanceInit, RowsOK
<1>4. VersionsOK
  BY <1>1 DEF VersionsOK
<1> QED
  BY <1>3, <1>4 DEF MaintenanceInv, NoRun, MaintenanceInit

(* Whatever is decided, applied, reviewed and saved in whatever order, the    *)
(* checkpoint, the change row and the rows of the plan, the approval, the     *)
(* cycle and the open gate belong together, and every version written for a   *)
(* plan has its approval.                                                   *)
THEOREM MaintenanceInvariant == MaintenanceSpec => []MaintenanceInv
BY MaintenanceStart, MaintenanceStep, PTL DEF MaintenanceSpec

-----------------------------------------------------------------------------
(* What follows of the invariant.                                           *)

LEMMA ShownInInvariant == MaintenanceInv => RunIsShown
<1> SUFFICES ASSUME MaintenanceInv, st # None, ~planSaved,
                    \A p \in DOMAIN plans : p \in planFiles /\ DOMAIN plans[p].ops \subseteq Own
             PROVE  Shown
  BY DEF RunIsShown
<1>1. /\ RowsOK /\ VersionsOK /\ CheckpointOK /\ PlanOK /\ AppliedOK /\ GateOK
      /\ Len(plans) \in Nat /\ DOMAIN plans = 1 .. Len(plans)
  BY Lengths DEF MaintenanceInv, NoRun, RunOK
<1>2. row.status = st.status /\ (st.status \notin Ended => project = run) /\ ValidMaintenance(st) /\ st \in Checkpoint
  BY <1>1 DEF CheckpointOK
<1>3. PlanShown
  <2> SUFFICES ASSUME st.plan # None
               PROVE  /\ row.meta.plan = st.plan /\ row.plan = run /\ PlanReadable(st.plan)
                      /\ st.kind = "revision_confirmation" => plans[st.plan].outcome = st.outcome
                      /\ DOMAIN plans[st.plan].ops \subseteq Own
                      /\ ItemsOf(plans[st.plan].ops) = DOMAIN affected
    BY DEF PlanShown, ItemsOf
  <2>1. /\ st.plan = Len(plans) /\ row.plan = run /\ row.meta.plan = Len(plans)
        /\ ItemsOf(plans[st.plan].ops) = DOMAIN affected /\ st.plan \in DOMAIN plans
    BY <1>1 DEF PlanOK
  <2>2. PlanReadable(st.plan)
    BY <2>1 DEF PlanReadable, PlanCurrent
  <2>3. ASSUME st.kind = "revision_confirmation" PROVE plans[st.plan].outcome = st.outcome
    <3>1. Asks(st)
      BY <1>2, <2>3, NoneIsNoValue DEF ValidMaintenance, GateBound, Kinds
    <3> QED
      BY <1>1, <2>1, <2>3, <3>1 DEF GateOK
  <2> QED
    BY <2>1, <2>2, <2>3
<1>4. AppliedShown
  <2> SUFFICES ASSUME NEW v \in st.applied
               PROVE  v[1] \in Own /\ v[2] <= Current(v[1]) /\ ver[v[1]][v[2]] # None
    BY DEF AppliedShown
  <2>1. v[1] \in Docs /\ v[2] \in 1 .. Len(ver[v[1]]) /\ ver[v[1]][v[2]] # None
    BY <1>1, <1>2 DEF AppliedOK, Checkpoint, DocVersion
  <2>2. PICK by : by = ver[v[1]][v[2]]
    OBVIOUS
  <2>3. Approved(actions, plans, by) /\ v[1] \in Edits(plans[by.plan].ops)
    <3>1. WrittenAsApproved(actions, plans, ver, v[1], v[2])
      BY <1>1, <2>1 DEF VersionsOK
    <3> QED
      BY <2>2, <3>1 DEF WrittenAsApproved
  <2>4. v[1] \in Own
    BY <1>1, <2>3 DEF Approved, Edits
  <2> QED
    BY <1>1, <2>1, <2>4, Lengths DEF Current
<1>5. ReviewShown
  BY <1>1 DEF AppliedOK, ReviewShown
<1>6. ActionShown
  BY <1>1 DEF GateOK, ActionShown
<1> QED
  BY <1>2, <1>3, <1>4, <1>5, <1>6 DEF Shown

(* RunIsShown for every number of runs, plans and requests.                  *)
THEOREM RunStaysVisible == MaintenanceSpec => []RunIsShown
BY MaintenanceInvariant, ShownInInvariant, PTL

LEMMA AppliedInInvariant == MaintenanceInv => AppliedAsApproved
<1> SUFFICES ASSUME MaintenanceInv, NEW d \in Docs, NEW n \in DOMAIN ver[d], ver[d][n] # None
             PROVE  LET by == ver[d][n]
                        ops == plans[by.plan].ops
                    IN  /\ actions[by.approval].kind = "revision_confirmation"
                        /\ actions[by.approval].decision = "APPROVE" /\ actions[by.approval].plan = by.plan
                        /\ \E e \in Edits(ops) : e = d /\ ops[d].version = n - 1
                        /\ \A e \in Edits(ops) :
                              ops[e].version < Current(e) /\ ver[e][ops[e].version + 1] = by
  BY DEF AppliedAsApproved
<1>1. RowsOK /\ VersionsOK /\ n \in 1 .. Len(ver[d])
  BY Lengths DEF MaintenanceInv
<1>2. PICK by : by = ver[d][n]
  OBVIOUS
<1>3. PICK ops : ops = plans[by.plan].ops
  OBVIOUS
<1>4. /\ Approved(actions, plans, by) /\ d \in Edits(ops) /\ ops[d].version = n - 1
      /\ \A e \in Edits(ops) : ops[e].version + 1 \in 1 .. Len(ver[e]) /\ ver[e][ops[e].version + 1] = by
  <2>1. WrittenAsApproved(actions, plans, ver, d, n)
    BY <1>1 DEF VersionsOK
  <2> QED
    BY <1>2, <1>3, <2>1 DEF WrittenAsApproved
<1>5. ASSUME NEW e \in Edits(ops)
      PROVE  ops[e].version < Current(e) /\ ver[e][ops[e].version + 1] = by
  <2>1. by.plan \in 1 .. Len(plans)
    BY <1>4 DEF Approved
  <2>2. e \in Docs /\ ops[e].version \in Nat
    BY <1>1, <1>3, <2>1, PlanTypes DEF Operation
  <2>3. Len(ver[e]) \in Nat
    BY <1>1, <2>2, Lengths
  <2> QED
    BY <1>4, <2>2, <2>3 DEF Current
<1> QED
  BY <1>2, <1>3, <1>4, <1>5 DEF Approved

(* AppliedAsApproved for every number of documents, plans and saves.         *)
THEOREM AppliedAsTheAuthorApproved == MaintenanceSpec => []AppliedAsApproved
BY MaintenanceInvariant, AppliedInInvariant, PTL

LEMMA ResumableInInvariant == MaintenanceInv => PhasesResumable
<1> SUFFICES ASSUME MaintenanceInv, project # None
             PROVE  /\ st.status = "APPLY_CHANGE" /\ PlanReadable(st.plan) /\ TargetsCurrent(st.plan) => CanLoadApply
                    /\ st.status = "CONSISTENCY_REVIEW" /\ CycleCurrent => CanLoadReview
                    /\ st.status = "REVISION_PLAN" /\ ~planSaved => CanLoadRevision
  BY DEF PhasesResumable
<1>1. /\ RowsOK /\ CheckpointOK /\ PlanOK /\ ApprovalOK /\ CycleOK
      /\ Len(plans) \in Nat /\ None \notin Nat
  BY Lengths, NoneIsNoValue DEF MaintenanceInv, NoRun, RunOK
<1>2. row.status = st.status /\ project = run /\ ValidMaintenance(st) /\ st \in Checkpoint
  BY <1>1 DEF CheckpointOK
<1>3. st.status \in {"APPLY_CHANGE", "CONSISTENCY_REVIEW"} =>
         /\ st.plan = Len(plans) /\ row.plan = run /\ row.meta.plan = st.plan
         /\ row.meta.previous = st.plan /\ row.meta.approval # None
         /\ actions[row.meta.approval].kind = "revision_confirmation"
         /\ actions[row.meta.approval].decision = "APPROVE"
  BY <1>1, <1>2 DEF ValidMaintenance, PhaseBound, PlanOK, ApprovalOK, Approved
<1>4. ASSUME st.status = "APPLY_CHANGE", PlanReadable(st.plan), TargetsCurrent(st.plan)
      PROVE  CanLoadApply
  BY <1>2, <1>3, <1>4 DEF CanLoadApply, Locked
<1>5. ASSUME st.status = "CONSISTENCY_REVIEW", CycleCurrent
      PROVE  CanLoadReview
  BY <1>1, <1>2, <1>3, <1>5 DEF CanLoadReview, CanLoadCycle, CycleLineage, CycleOK, Locked
<1>6. ASSUME st.status = "REVISION_PLAN", ~planSaved
      PROVE  CanLoadRevision
  BY <1>1, <1>2, <1>6 DEF CanLoadRevision, PlanCurrent, PlanOK, Locked
<1> QED
  BY <1>4, <1>5, <1>6

(* PhasesResumable after every order of decisions, deaths and late answers.  *)
THEOREM LeftPhasesCanBeResumed == MaintenanceSpec => []PhasesResumable
BY MaintenanceInvariant, ResumableInInvariant, PTL

LEMMA UpdateStep ==
    ASSUME MaintenanceInv, [MaintenanceNext]_maintenanceVars,
           st # None, st.status # "PROJECT_UPDATED", st'.status = "PROJECT_UPDATED"
    PROVE  /\ report'.cycle = row.meta.cycle
           /\ \/ report'.outcome = "PASSED"
              \/ report'.outcome = "WARNING" /\ actions[st.action].kind = "consistency_warning"
           /\ CycleCurrent
<1>1. PICK w \in Workers :
         \/ PersistStart(w) \/ PersistApply(w) \/ PersistRevision(w)
         \/ \E decision \in Decisions : Decide(w, decision)
         \/ \E outcome \in ReviewOutcomes : PersistReview(w, outcome)
  BY DEF MaintenanceNext, maintenanceVars, database, rows, data, LoadStart, StartRefused, WritePlan, Resume,
     LoadApply, PersistApplyRefused, WriteVersion, WriteFails, WriteNext, LoadReview, PersistReviewRefused,
     LoadRevision, PersistRevisionRefused, Crash, EditDocument, EditPlan
<1>2. ~PersistStart(w)
  BY DEF PersistStart, ConfirmationRequested, PlanRecorded, Analysed, NewMaintenance
<1>3. ASSUME MaintenanceInv, NEW status, Locked(status) PROVE st \in Checkpoint
  BY <1>3, LockedRun DEF CheckpointOK
<1>4. ~PersistApply(w)
  <2> SUFFICES ASSUME PersistApply(w) PROVE FALSE
    OBVIOUS
  <2>1. st \in Checkpoint
    BY <1>3 DEF PersistApply, CanPersistApply, CanLoadApply
  <2>2. PICK written : st' = ReviewRecorded(st, written)
    BY DEF PersistApply, Move
  <2> QED
    BY <2>1, <2>2 DEF ReviewRecorded, Checkpoint
<1>5. ~PersistRevision(w)
  <2> SUFFICES ASSUME PersistRevision(w) PROVE FALSE
    OBVIOUS
  <2>1. st \in Checkpoint
    BY <1>3 DEF PersistRevision, CanPersistRevision, CanLoadRevision
  <2>2. PICK outcome : st' = ConfirmationRequested(PlanRecorded(st, Len(plans) + 1), Len(actions) + 1, outcome)
    BY DEF PersistRevision, Move
  <2> QED
    BY <2>1, <2>2 DEF ConfirmationRequested, PlanRecorded, Checkpoint
<1>6. ASSUME NEW decision \in Decisions, Decide(w, decision)
      PROVE  /\ report'.cycle = row.meta.cycle /\ report'.outcome = "WARNING"
             /\ actions[st.action].kind = "consistency_warning" /\ CycleCurrent
  <2>1. st \in Checkpoint /\ GateOK /\ st.status = "USER_CONFIRMATION"
    BY <1>6, LockedRun DEF Decide, CheckpointOK
  <2>2. st' = Resolved(st, decision) /\ DecisionOk(st, decision) /\ DecisionStands(decision) /\ report' = report
    BY <1>6 DEF Decide, Move
  <2>3. TargetOf(decision) = "PROJECT_UPDATED"
    BY <2>1, <2>2 DEF Resolved, Checkpoint
  <2>4. decision = "ACCEPT_WARNING"
    BY <2>3 DEF TargetOf, Decisions
  <2>5. st.kind = "consistency_warning" /\ CycleCurrent
    BY <2>2, <2>4 DEF DecisionOk, DecisionStands, CanLoadCycle
  <2> QED
    BY <2>1, <2>2, <2>5 DEF GateOK, Asks
<1>7. ASSUME NEW outcome \in ReviewOutcomes, PersistReview(w, outcome)
      PROVE  report'.cycle = row.meta.cycle /\ report'.outcome = "PASSED" /\ CycleCurrent
  <2>1. st \in Checkpoint
    BY <1>3, <1>7 DEF PersistReview, CanPersistReview, CanLoadReview
  <2>2. /\ st' = ReviewRouted(st, outcome, st.plan, Len(actions) + 1)
        /\ report' = [cycle |-> row.meta.cycle, outcome |-> outcome]
        /\ CycleCurrent
    BY <1>7 DEF PersistReview, CanPersistReview, CanLoadReview, CanLoadCycle, ReviewRequest, Move
  <2>3. outcome = "PASSED"
    BY <2>1, <2>2 DEF ReviewRouted, ReviewOutcomes, Checkpoint
  <2> QED
    BY <2>2, <2>3
<1> QED
  BY <1>1, <1>2, <1>4, <1>5, <1>6, <1>7

(* A run ends as updated on the verdict about its newest cycle alone, and     *)
(* while the versions of that cycle are current (UpdatedIsReviewed), for      *)
(* every number of requests that hold stale answers.                        *)
THEOREM UpdatesAreReviewed == MaintenanceSpec => UpdatedIsReviewed
<1>1. MaintenanceInv /\ [MaintenanceNext]_maintenanceVars =>
         [(st # None /\ st.status # "PROJECT_UPDATED" /\ st'.status = "PROJECT_UPDATED") =>
            /\ report'.cycle = row.meta.cycle
            /\ \/ report'.outcome = "PASSED"
               \/ report'.outcome = "WARNING" /\ actions[st.action].kind = "consistency_warning"
            /\ CycleCurrent]_maintenanceVars
  BY UpdateStep
<1> QED
  BY <1>1, MaintenanceInvariant, PTL DEF MaintenanceSpec, UpdatedIsReviewed
=============================================================================
