------------------------------ MODULE Maintenance ------------------------------
(***************************************************************************)
(* Project maintenance: an author's change request becomes a revision plan,  *)
(* the author's approval lets an agent write new versions of several         *)
(* documents, and a consistency review of them ends the run or asks for a    *)
(* corrective plan (ProjectMaintenanceService).                              *)
(*                                                                          *)
(* Every phase loads its rows in one transaction, calls an agent without any *)
(* lock, and persists the answer in a second transaction that loads the rows *)
(* again; files are written after the commit.  A request dies, or its agent  *)
(* fails, anywhere (Crash); a phase that is left behind is continued by the  *)
(* service's resume methods.  Meanwhile the author edits documents.          *)
(*                                                                          *)
(* A plan and its document version have one number, which is fresh across    *)
(* runs; a run has one plan document, of the run's number, that is current   *)
(* at the newest plan unless the author has saved it.                        *)
(***************************************************************************)
EXTENDS MaintenancePlan, Sequences, FiniteSets

CONSTANTS
    Own,           \* the project's documents, which exist from the start
    Shared,        \* documents the author adds to its setting collection
    Workers,       \* concurrent requests
    MaxRuns,       \* bound on the runs started
    MaxPlans,      \* bound on the plans of all runs
    MaxEdits,      \* bound on the documents' saves by the author
    MaxLost        \* bound on crashes and failures
ASSUME MaintenanceBounds ==
    {MaxRuns, MaxPlans, MaxEdits, MaxLost} \subseteq Nat /\ Own \cap Shared = {}

Docs == Own \cup Shared
ASSUME NoneIsNoRecord ==
    /\ None \notin [plan : Nat, approval : Nat]
    /\ None \notin [cycle : SUBSET (Docs \X Nat), outcome : ReviewOutcomes]

VARIABLES
    project,   \* Project.current_workflow_id: a run's number, or None
    run,       \* runs started so far
    st,        \* the newest run's last checkpoint, or None
    row,       \* its change row
    affected,  \* its affected items
    actions,   \* the action rows of all runs
    plans,     \* the plans of all runs
    planFiles, \* the plans whose files are written
    planSaved, \* the author has saved the newest run's plan document
    ver,       \* each document's versions: the approved plan behind each, or None
    missing,   \* the versions whose snapshot is not written
    report,    \* the newest consistency report
    worker,    \* what each request in flight holds outside the database
    edits,     \* saves of documents by the author so far
    lost       \* crashes and failures so far

rows == <<run, st, row, affected, actions, plans, report>>
files == <<planFiles, missing>>
data == <<planSaved, files, ver, edits, lost>>
database == <<project, rows, data>>
maintenanceVars == <<database, worker>>

Idle == [step |-> "idle"]
NoMeta == [plan |-> None, previous |-> None, approval |-> None, cycle |-> {}]

MaintenanceInit ==
    /\ project = None
    /\ run = 0
    /\ st = None
    /\ row = None
    /\ affected = <<>>
    /\ actions = <<>>
    /\ plans = <<>>
    /\ planFiles = {}
    /\ planSaved = FALSE
    /\ ver = [d \in Docs |-> IF d \in Own THEN <<None>> ELSE <<>>]
    /\ missing = {}
    /\ report = None
    /\ worker = [w \in Workers |-> Idle]
    /\ edits = 0
    /\ lost = 0

-----------------------------------------------------------------------------
At(w, step) == worker[w].step = step
Go(w, next) == worker' = [worker EXCEPT ![w] = next]
Return(w) == Go(w, Idle)

Current(d) == Len(ver[d])
Refs(S) == [d \in {e \in S : ver[e] # <<>>} |-> Current(d)]

(* Mutant of NewAction: every gate offers what the first one does.           *)
NewActionOfStart(kind, s) ==
    [kind |-> kind, outcome |-> s.outcome, options |-> Options([s EXCEPT !.applied = {}]),
     decision |-> None, plan |-> s.plan]

NewAction(kind, s) ==
    [kind |-> kind, outcome |-> s.outcome, options |-> Options(s), decision |-> None,
     plan |-> s.plan]
NewRow(document, plan) ==
    [status |-> "USER_CONFIRMATION", plan |-> document, applied |-> FALSE,
     meta |-> [NoMeta EXCEPT !.plan = plan]]

(* _locked_context: the project's active run, its checkpoint and its row.    *)
Locked(status) ==
    /\ project # None /\ project = run
    /\ st.status = status /\ row.status = status

(* stage_update_change and _persist_transition: the row and the checkpoint   *)
(* move together, and a terminal state frees the project.                    *)
MayMove(next, plan, applied, corrective) ==
    RowAllows(row, next.status, plan, applied, corrective) /\ ValidMaintenance(next)
Move(next, plan, applied, meta) ==
    /\ st' = next
    /\ row' = [status |-> next.status, plan |-> plan, applied |-> applied, meta |-> meta]
    /\ project' = IF next.status \in Ended THEN None ELSE project

(* _load_persisted_plan_locked: the plan document is at that version and its *)
(* file is readable.                                                         *)
PlanCurrent(p) == p = Len(plans) /\ ~planSaved
PlanReadable(p) == PlanCurrent(p) /\ p \in planFiles

(* Mutant of TargetsCurrent: the targets' versions are not compared.         *)
TargetsExist(p) == \A d \in DOMAIN plans[p].ops : ver[d] # <<>>

(* _validate_plan_targets_locked *)
TargetsCurrent(p) ==
    \A d \in DOMAIN plans[p].ops : plans[p].ops[d].version = Current(d)

-----------------------------------------------------------------------------
(* start: every document the project may read is shown to the agents.        *)
LoadStart(w) ==
    /\ At(w, "idle") /\ project = None
    /\ run < MaxRuns   \* bound
    /\ \A d \in DOMAIN Refs(Docs) : <<d, Current(d)>> \notin missing
    /\ Go(w, [step |-> "planning", refs |-> Refs(Docs)])
    /\ UNCHANGED database

(* _persist_start up to _revalidate_document_snapshot, which reads the        *)
(* documents of the project alone.                                           *)
CanStart(w) ==
    /\ project = None
    /\ row # None => row.status \in Ended
    /\ worker[w].refs = Refs(Own)

PersistStart(w) ==
    /\ At(w, "planning") /\ CanStart(w)
    /\ Len(plans) < MaxPlans /\ run < MaxRuns   \* bounds
    /\ \E items \in Impacts(worker[w].refs), outcome \in Outcomes :
       \E ops \in PreparedPlans(worker[w].refs, items) :
          LET plan == Len(plans) + 1
              gate == ConfirmationRequested(PlanRecorded(Analysed(NewMaintenance), plan),
                                            Len(actions) + 1, outcome)
          IN  /\ affected' = items
              /\ plans' = Append(plans, [ops |-> ops, outcome |-> outcome])
              /\ st' = gate
              /\ actions' = Append(actions, NewAction("revision_confirmation", gate))
              /\ row' = NewRow(run + 1, plan)
              /\ Go(w, [step |-> "plan file", plan |-> plan])
    /\ run' = run + 1
    /\ project' = run + 1
    /\ planSaved' = FALSE
    /\ report' = None
    /\ UNCHANGED <<files, ver, edits, lost>>

StartRefused(w) ==
    /\ At(w, "planning") /\ ~CanStart(w)
    /\ Return(w)
    /\ UNCHANGED database

(* write_staged_files for a plan; the request returns to the author.         *)
WritePlan(w) ==
    /\ At(w, "plan file")
    /\ planFiles' = planFiles \cup {worker[w].plan}
    /\ Return(w)
    /\ UNCHANGED <<project, rows, planSaved, missing, ver, edits, lost>>

-----------------------------------------------------------------------------
(* _load_consistency_cycle_from_locked: the newest cycle's versions are the  *)
(* current ones of documents of the project, and their files are readable.   *)
CycleLineage ==
    /\ row.meta.cycle # {} /\ row.meta.cycle \subseteq st.applied
    /\ st.plan = row.meta.previous
    /\ row.meta.approval # None /\ actions[row.meta.approval].decision = "APPROVE"
    /\ \A v \in row.meta.cycle : ver[v[1]][v[2]] = [plan |-> st.plan, approval |-> row.meta.approval]
CycleCurrent ==
    \A v \in row.meta.cycle : v[1] \in Own /\ v[2] = Current(v[1]) /\ v \notin missing
CanLoadCycle == CycleLineage /\ CycleCurrent

(* What _persist_action_decision loads again before a decision counts.       *)
DecisionStands(decision) ==
    /\ decision = "APPROVE" =>
          /\ row.plan = run /\ row.meta.plan = st.plan
          /\ PlanReadable(st.plan) /\ TargetsCurrent(st.plan)
    /\ decision = "ACCEPT_WARNING" => CanLoadCycle

(* resolve_action: the request that resolves the gate goes on with the phase *)
(* the decision leads to.                                                    *)
PhaseAfter(decision) ==
    CASE decision = "APPROVE" -> [step |-> "apply"]
      [] decision = "REVISE" -> [step |-> "revise"]
      [] OTHER -> Idle

Corrective(decision) ==
    decision = "APPROVE" /\ st.applied # {} /\ st.kind = "revision_confirmation"

MetaAfterDecision ==
    [row.meta EXCEPT !.previous = st.plan, !.approval = st.action]

Decide(w, decision) ==
    /\ At(w, "idle") /\ Locked("USER_CONFIRMATION")
    /\ decision \in actions[st.action].options
    /\ DecisionOk(st, decision) /\ DecisionStands(decision)
    /\ LET next == Resolved(st, decision)
           plan == IF next.status = "REVISION_PLAN" THEN None ELSE row.plan
       IN  /\ MayMove(next, plan, row.applied, Corrective(decision))
           /\ Move(next, plan, row.applied, MetaAfterDecision)
    /\ actions' = [actions EXCEPT ![st.action].decision = decision]
    /\ Go(w, PhaseAfter(decision))
    /\ UNCHANGED <<run, affected, plans, report, data>>

(* resume_apply, resume_consistency and resume_revision, by an operator      *)
Resume(w) ==
    /\ At(w, "idle") /\ project # None
    /\ \/ st.status = "APPLY_CHANGE" /\ Go(w, [step |-> "apply"])
       \/ st.status = "CONSISTENCY_REVIEW" /\ Go(w, [step |-> "review"])
       \/ st.status = "REVISION_PLAN" /\ Go(w, [step |-> "revise"])
    /\ UNCHANGED database

-----------------------------------------------------------------------------
(* _load_apply_cycle_locked *)
CanLoadApply ==
    /\ Locked("APPLY_CHANGE")
    /\ st.plan = row.meta.previous /\ row.plan = run /\ row.meta.plan = st.plan
    /\ row.meta.approval # None
    /\ actions[row.meta.approval].kind = "revision_confirmation"
    /\ actions[row.meta.approval].decision = "APPROVE"
    /\ PlanReadable(st.plan) /\ TargetsCurrent(st.plan)

ApplyRequest == [plan |-> st.plan, approval |-> row.meta.approval]

(* A phase that cannot load its rows ends the request; otherwise the agent    *)
(* is called with no transaction open.                                       *)
LoadApply(w) ==
    /\ At(w, "apply")
    /\ IF CanLoadApply THEN Go(w, [step |-> "archivist", request |-> ApplyRequest]) ELSE Return(w)
    /\ UNCHANGED database

(* _persist_applied_versions: one version of every document the approved      *)
(* plan revises, in one transaction; their files come afterwards.            *)
CanPersistApply(w) == CanLoadApply /\ worker[w].request = ApplyRequest

PersistApply(w) ==
    /\ At(w, "archivist") /\ CanPersistApply(w)
    /\ LET revised == Edits(plans[st.plan].ops)
           written == {<<d, Current(d) + 1>> : d \in revised}
           next == ReviewRecorded(st, written)
       IN  /\ MayMove(next, row.plan, TRUE, FALSE)
           /\ Move(next, row.plan, TRUE, [row.meta EXCEPT !.cycle = written])
           /\ ver' = [d \in Docs |-> IF d \in revised THEN Append(ver[d], ApplyRequest) ELSE ver[d]]
           /\ missing' = missing \cup written
           /\ Go(w, [step |-> "write", todo |-> written, failed |-> FALSE])
    /\ UNCHANGED <<run, affected, actions, plans, report, planSaved, planFiles, edits, lost>>

PersistApplyRefused(w) ==
    /\ At(w, "archivist") /\ ~CanPersistApply(w)
    /\ Return(w)
    /\ UNCHANGED database

(* write_staged_files, one document after the other; a failure is noticed     *)
(* after the last and ends the request.                                      *)
WriteNext(w, v, ok) ==
    /\ At(w, "write") /\ v \in worker[w].todo
    /\ missing' = IF ok THEN missing \ {v} ELSE missing
    /\ LET failed == worker[w].failed \/ ~ok
           todo == worker[w].todo \ {v}
       IN  Go(w, IF todo # {} THEN [step |-> "write", todo |-> todo, failed |-> failed]
                 ELSE IF failed THEN Idle ELSE [step |-> "review"])
    /\ UNCHANGED <<project, rows, planSaved, planFiles, ver, edits>>

WriteVersion(w) ==
    \E v \in IF At(w, "write") THEN worker[w].todo ELSE {} : WriteNext(w, v, TRUE) /\ UNCHANGED lost
WriteFails(w) ==
    /\ lost < MaxLost   \* bound
    /\ lost' = lost + 1
    /\ \E v \in IF At(w, "write") THEN worker[w].todo ELSE {} : WriteNext(w, v, FALSE)

-----------------------------------------------------------------------------
(* _load_consistency_cycle_locked *)
CanLoadReview == Locked("CONSISTENCY_REVIEW") /\ CanLoadCycle
ReviewRequest == [plan |-> st.plan, approval |-> row.meta.approval, cycle |-> row.meta.cycle]

LoadReview(w) ==
    /\ At(w, "review")
    /\ IF CanLoadReview THEN Go(w, [step |-> "lore", request |-> ReviewRequest]) ELSE Return(w)
    /\ UNCHANGED database

(* Mutant of CanPersistReview: the cycle may be another than the reviewed.   *)
CanPersistAnyReview(w) == CanLoadReview

(* _persist_consistency_review *)
CanPersistReview(w) == CanLoadReview /\ worker[w].request = ReviewRequest

PersistReview(w, outcome) ==
    /\ At(w, "lore") /\ CanPersistReview(w)
    /\ LET next == ReviewRouted(st, outcome, st.plan, Len(actions) + 1)
           plan == IF outcome = "BLOCKING" THEN None ELSE row.plan
       IN  /\ MayMove(next, plan, row.applied, FALSE)
           /\ Move(next, plan, row.applied,
                   IF outcome = "BLOCKING" THEN [row.meta EXCEPT !.previous = st.plan] ELSE row.meta)
           /\ actions' = IF outcome = "WARNING"
                         THEN Append(actions, NewAction("consistency_warning", next)) ELSE actions
    /\ report' = [cycle |-> worker[w].request.cycle, outcome |-> outcome]
    /\ Go(w, IF outcome = "BLOCKING" THEN [step |-> "revise"] ELSE Idle)
    /\ UNCHANGED <<run, affected, plans, data>>

PersistReviewRefused(w) ==
    /\ At(w, "lore") /\ ~CanPersistReview(w)
    /\ Return(w)
    /\ UNCHANGED database

-----------------------------------------------------------------------------
(* _load_revision_cycle_locked *)
CanLoadRevision ==
    /\ Locked("REVISION_PLAN")
    /\ row.meta.previous # None /\ PlanCurrent(row.meta.previous)
    /\ row.plan = None /\ st.plan = None

RevisionRequest == [previous |-> row.meta.previous, refs |-> Refs(Docs)]

LoadRevision(w) ==
    /\ At(w, "revise")
    /\ IF CanLoadRevision THEN Go(w, [step |-> "planners", request |-> RevisionRequest]) ELSE Return(w)
    /\ UNCHANGED database

(* _persist_revision_cycle *)
CanPersistRevision(w) == CanLoadRevision /\ worker[w].request = RevisionRequest

PersistRevision(w) ==
    /\ At(w, "planners") /\ CanPersistRevision(w)
    /\ Len(plans) < MaxPlans   \* bound
    /\ \E outcome \in Outcomes, ops \in PreparedPlans(worker[w].request.refs, affected) :
          LET plan == Len(plans) + 1
              planned == PlanRecorded(st, plan)
              gate == ConfirmationRequested(planned, Len(actions) + 1, outcome)
          IN  /\ MayMove(planned, run, row.applied, FALSE)
              /\ RowAllows([row EXCEPT !.plan = run], "USER_CONFIRMATION", run, row.applied, FALSE)
              /\ ValidMaintenance(gate)
              /\ Move(gate, run, row.applied, [NoMeta EXCEPT !.plan = plan])
              /\ plans' = Append(plans, [ops |-> ops, outcome |-> outcome])
              /\ actions' = Append(actions, NewAction("revision_confirmation", gate))
              /\ Go(w, [step |-> "plan file", plan |-> plan])
    /\ UNCHANGED <<run, affected, report, data>>

PersistRevisionRefused(w) ==
    /\ At(w, "planners") /\ ~CanPersistRevision(w)
    /\ Return(w)
    /\ UNCHANGED database

-----------------------------------------------------------------------------
(* The process dies, an agent fails or answers what no contract admits, a     *)
(* commit's outcome is unknown, a plan's files cannot be written.            *)
Crash(w) ==
    /\ ~At(w, "idle")
    /\ lost < MaxLost   \* bound
    /\ lost' = lost + 1
    /\ Return(w)
    /\ UNCHANGED <<project, rows, planSaved, files, ver, edits>>

(* The document endpoints know nothing of the run.                          *)
EditDocument(d) ==
    /\ edits < MaxEdits   \* bound
    /\ edits' = edits + 1
    /\ ver' = [ver EXCEPT ![d] = Append(@, None)]
    /\ UNCHANGED <<project, rows, planSaved, files, worker, lost>>

EditPlan ==
    /\ project # None /\ ~planSaved
    /\ planSaved' = TRUE
    /\ UNCHANGED <<project, rows, files, ver, edits, worker, lost>>

MaintenanceNext ==
    \/ \E w \in Workers :
          \/ LoadStart(w) \/ PersistStart(w) \/ StartRefused(w) \/ WritePlan(w)
          \/ \E decision \in Decisions : Decide(w, decision)
          \/ Resume(w)
          \/ LoadApply(w) \/ PersistApply(w) \/ PersistApplyRefused(w)
          \/ WriteVersion(w) \/ WriteFails(w)
          \/ LoadReview(w) \/ PersistReviewRefused(w)
          \/ \E outcome \in ReviewOutcomes : PersistReview(w, outcome)
          \/ LoadRevision(w) \/ PersistRevision(w) \/ PersistRevisionRefused(w)
          \/ Crash(w)
    \/ \E d \in Docs : EditDocument(d)
    \/ EditPlan

MaintenanceSpec == MaintenanceInit /\ [][MaintenanceNext]_maintenanceVars

-----------------------------------------------------------------------------
(* get_run: what the author is shown of a run, each part read with its own   *)
(* checks.  A run that fails one of them cannot be shown, nor can the list    *)
(* of the project's runs.                                                    *)
PlanShown ==
    st.plan # None =>
        /\ row.meta.plan = st.plan /\ row.plan = run
        /\ PlanReadable(st.plan)
        /\ st.kind = "revision_confirmation" => plans[st.plan].outcome = st.outcome
        /\ DOMAIN plans[st.plan].ops \subseteq Own
        /\ UNION {plans[st.plan].ops[d].items : d \in DOMAIN plans[st.plan].ops} = DOMAIN affected
AppliedShown ==
    \A v \in st.applied : v[1] \in Own /\ v[2] <= Current(v[1]) /\ ver[v[1]][v[2]] # None
ReviewShown ==
    st.report # None => report # None /\ report.cycle \subseteq st.applied
ActionShown ==
    Asks(st) =>
        /\ actions[st.action].kind = st.kind /\ actions[st.action].outcome = st.outcome
        /\ actions[st.action].decision = None /\ actions[st.action].options = Options(st)
Shown ==
    /\ row.status = st.status
    /\ st.status \notin Ended => project = run
    /\ PlanShown /\ AppliedShown /\ ReviewShown /\ ActionShown

(* Through every order of decisions, reviews, corrective plans and deaths     *)
(* the author can look at the run.  The three ways to lose it lie outside     *)
(* the run: its plan's file was never written, the author has saved over the  *)
(* plan, or a plan names a document of the setting collection.               *)
RunIsShown ==
    st # None /\ ~planSaved /\ (\A p \in DOMAIN plans : p \in planFiles /\ DOMAIN plans[p].ops \subseteq Own)
        => Shown

(* Nothing is applied but what was approved: a version the archivist wrote    *)
(* belongs to a plan the author approved, replaces exactly the version that   *)
(* plan names, so no save of the author and no earlier cycle is lost, and     *)
(* comes with all the other versions of the plan.                            *)
AppliedAsApproved ==
    \A d \in Docs : \A n \in DOMAIN ver[d] : ver[d][n] # None =>
        LET by == ver[d][n]
            ops == plans[by.plan].ops
        IN  /\ actions[by.approval].kind = "revision_confirmation"
            /\ actions[by.approval].decision = "APPROVE" /\ actions[by.approval].plan = by.plan
            /\ \E e \in Edits(ops) : e = d /\ ops[d].version = n - 1
            /\ \A e \in Edits(ops) :
                  ops[e].version < Current(e) /\ ver[e][ops[e].version + 1] = by

(* A run ends as PROJECT_UPDATED only on the verdict about its newest cycle,  *)
(* passed or accepted by the author, and while the versions of that cycle are *)
(* still the current ones and can be read.                                   *)
UpdatedIsReviewed ==
    [][(st # None /\ st.status # "PROJECT_UPDATED" /\ st'.status = "PROJECT_UPDATED") =>
          /\ report'.cycle = row.meta.cycle
          /\ \/ report'.outcome = "PASSED"
             \/ report'.outcome = "WARNING" /\ actions[st.action].kind = "consistency_warning"
          /\ CycleCurrent]_maintenanceVars

(* A phase that a dead request has left can be resumed by another, whatever  *)
(* the decisions, cycles and late answers before it, unless something outside *)
(* the run has taken away what the phase needs: its plan, a version it is to  *)
(* replace or a version it is to review.                                     *)
PhasesResumable ==
    project # None =>
        /\ st.status = "APPLY_CHANGE" /\ PlanReadable(st.plan) /\ TargetsCurrent(st.plan) => CanLoadApply
        /\ st.status = "CONSISTENCY_REVIEW" /\ CycleCurrent => CanLoadReview
        /\ st.status = "REVISION_PLAN" /\ ~planSaved => CanLoadRevision

(* "The project document snapshot changed." (:2868): a start that is refused  *)
(* with these words has met another run or a document that has changed.      *)
RefusedStartMetAChange ==
    [][\A w \in Workers :
          (At(w, "planning") /\ project = None /\ worker[w].refs = Refs(Docs))
              => ~StartRefused(w)]_maintenanceVars
=============================================================================
