----------------------- MODULE ChapterProductionProofs -----------------------
(***************************************************************************)
(* The safety of a chapter's production, in four parts.                     *)
(*                                                                         *)
(* The run, for any set of rows and any number of versions.  The inductive *)
(* invariant joins the checked invariants with two facts they do not state: *)
(* versions only grow, so rows of a new candidate cannot exist before it   *)
(* does (VersionsBehind), and a version with a blocking report is being    *)
(* revised or the run is over (BlockedIsReworked).  First comes            *)
(* ChapterState: every edge of ChapterProductionState is closed -- from a  *)
(* value the constructor accepts, an edge whose guard holds builds a value *)
(* the constructor accepts.  One lemma per edge, cited by name below.      *)
(*                                                                         *)
(* The verdicts, for any number of coordinators, claims, versions and rows. *)
(* They rest on what a verdict is written under: the claim is still the one *)
(* the coordinator holds, and no row of the stage exists for the candidate. *)
(*                                                                         *)
(* The panels, for any number of versions, rows, requests and keys.  They   *)
(* and the finalization restrict the run, so every theorem about the run    *)
(* holds of them.  What is new is that the last approval is never refused.  *)
(* That needs to know that the rows of the candidate are exactly the bound  *)
(* ones (RowsAreBound), that earlier READY pairs keep their rows            *)
(* (PairsValid), and that a text that was ready is never reviewed again     *)
(* (ReadyIsBehind).                                                        *)
(*                                                                         *)
(* The end, for any number of requests, documents and versions.  A chapter  *)
(* is finalized once, and what is published is the reviewed text: every     *)
(* request holds the bound version, because nothing binds another one from  *)
(* the moment the run begins to archive, and before that moment there is no *)
(* request and no document of the run.                                      *)
(***************************************************************************)
EXTENDS ReviewClaim, PanelStart, FinalizationSaga, FiniteSetTheorems,
        SequenceTheorems, TLAPS

(* Values without reports: what the constructor asks of the three statuses  *)
(* that a new text can put the run in.                                      *)
LEMMA ReportFreeValid ==
    ASSUME NEW t \in State, t.report = NoReports, t.failedFrom = None, t.failure = None,
           t.status \in {"DRAFTING", "AUTHOR_REVISION", "EDITOR_REVIEW"},
           t.status # "DRAFTING" => t.version # NoVersion,
           IF t.status = "AUTHOR_REVISION"
           THEN t.action \in ActionIds /\ t.kind = "author_revision"
           ELSE t.action = None /\ t.kind = None
    PROVE  ValidState(t)
<1>1. /\ Phase(t) = t.status
      /\ \A g \in Stage : ~HasReport(t, g)
      /\ ~HasAnyReport(t)
  BY DEF Phase, HasReport, HasAnyReport, NoReports
<1>2. ActionBound(t)
  BY NoneAssumption DEF ActionBound, ActionKind
<1>3. FailureBound(t)
  BY DEF FailureBound
<1>4. ReportOrder(t)
  BY <1>1 DEF ReportOrder, Stage
<1>5. PhaseBound(t)
  BY <1>1 DEF PhaseBound, Finalized, Awaiting, Stage, WarningBound
<1> QED
  BY <1>2, <1>3, <1>4, <1>5 DEF ValidState

(* initial() builds a valid value.                                          *)
LEMMA InitialValid ==
    ASSUME NEW chief \in BOOLEAN
    PROVE  InitialState(chief) \in State /\ ValidState(InitialState(chief))
<1> DEFINE t == InitialState(chief)
<1>1. t \in State
  BY DEF InitialState, State, NoReports, Status, Working, NoVersion
<1>2. ValidState(t)
  BY <1>1, ReportFreeValid DEF InitialState
<1> QED
  BY <1>1, <1>2

(* submit_draft and the drafting branch of reconcile_failure build a valid  *)
(* author gate, whatever value they start from.                             *)
LEMMA AuthorGateValid ==
    ASSUME NEW s \in State, NEW v \in Nat \ {0}, NEW a \in ActionIds
    PROVE  AuthorGate(s, v, a) \in State /\ ValidState(AuthorGate(s, v, a))
<1> DEFINE t == AuthorGate(s, v, a)
<1>1. t \in State
  BY DEF AuthorGate, State, NoReports, Status, Working, ActionKind
<1>2. ValidState(t)
  BY <1>1, ReportFreeValid DEF AuthorGate, State, NoVersion
<1> QED
  BY <1>1, <1>2

(* _new_version_for_review builds a valid value from any value.             *)
LEMMA NewVersionValid ==
    ASSUME NEW s \in State, NEW v \in Nat \ {0}
    PROVE  NewVersionForReview(s, v) \in State /\ ValidState(NewVersionForReview(s, v))
<1> DEFINE t == NewVersionForReview(s, v)
<1>1. t \in State
  BY DEF NewVersionForReview, State, NoReports, Status, Working, ReviewStatus
<1>2. ValidState(t)
  BY <1>1, ReportFreeValid DEF NewVersionForReview, State, NoVersion
<1> QED
  BY <1>1, <1>2

(* The author accepts the draft or sends it back to drafting.               *)
LEMMA WithoutGateValid ==
    ASSUME NEW s \in State, ValidState(s), s.status = "AUTHOR_REVISION",
           NEW target \in {"DRAFTING", "EDITOR_REVIEW"}
    PROVE  WithoutAction(s, target) \in State /\ ValidState(WithoutAction(s, target))
<1> DEFINE t == WithoutAction(s, target)
<1>1. t \in State
  BY DEF WithoutAction, State, Status, Working, ReviewStatus
<1>2. /\ s.version # NoVersion /\ s.failedFrom = None /\ s.failure = None
      /\ \A g \in Stage : s.report[g] = None
  BY DEF ValidState, FailureBound, PhaseBound, Phase, HasAnyReport, HasReport
<1>3. s.report = NoReports
  BY <1>2 DEF State, NoReports
<1>4. ValidState(t)
  BY <1>1, <1>2, <1>3, ReportFreeValid DEF WithoutAction, State
<1> QED
  BY <1>1, <1>4

(* The status an action of each kind can be bound in.                       *)
LEMMA KindPlace ==
    ASSUME NEW s \in State, ValidState(s)
    PROVE  /\ s.kind = "author_revision" <=> s.status = "AUTHOR_REVISION"
           /\ s.kind = "review_warning" => s.status \in ReviewStatus /\ HasReport(s, ExpectedStage(s))
           /\ s.kind = "review_revision" => s.status = "REVIEW_REVISION"
           /\ s.kind \in ActionKind => s.version # NoVersion /\ s.action \in ActionIds
<1>1. s.status # "FAILED" => Phase(s) = s.status
  BY DEF Phase
<1>2. s.status = "FAILED" => s.kind = None
  BY DEF ValidState, FailureBound, ActionBound, Awaiting
<1>3. s.kind \in ActionKind => s.action # None /\ Awaiting(s) /\ s.status # "FAILED"
  BY <1>2, NoneAssumption DEF ValidState, ActionBound, Awaiting
<1>4. s.status \in Status /\ s.action \in ActionIds \cup {None}
  BY DEF State
<1>5. PhaseBound(s)
  BY DEF ValidState
<1>6. s.kind = "author_revision" <=> s.status = "AUTHOR_REVISION"
  BY <1>1, <1>2, <1>3, <1>4, <1>5, NoneAssumption
  DEF PhaseBound, WarningBound, ActionKind, Status, Working, Terminal, ReviewStatus, Finalized
<1>7. s.kind = "review_warning" => s.status \in ReviewStatus /\ HasReport(s, ExpectedStage(s))
  BY <1>1, <1>3, <1>4, <1>5
  DEF PhaseBound, WarningBound, ActionKind, Status, Working, Terminal, ReviewStatus, Finalized, ExpectedStage
<1>8. s.kind = "review_revision" => s.status = "REVIEW_REVISION"
  BY <1>1, <1>3, <1>4, <1>5
  DEF PhaseBound, WarningBound, ActionKind, Status, Working, Terminal, ReviewStatus, Finalized
<1>9. s.kind \in ActionKind => s.version # NoVersion /\ s.action \in ActionIds
  BY <1>1, <1>3, <1>4, <1>5, NoneAssumption DEF PhaseBound, Status, Working, Terminal, ReviewStatus, Finalized
<1> QED
  BY <1>6, <1>7, <1>8, <1>9

(* A report of the expected stage can be bound: it keeps the earlier ones.  *)
LEMMA RecordPassedValid ==
    ASSUME NEW s \in State, ValidState(s), NEW r \in ReportIds,
           NEW g, CanRecordReview(s, g)
    PROVE  RecordPassed(s, g, r) \in State /\ ValidState(RecordPassed(s, g, r))
<1> DEFINE t == RecordPassed(s, g, r)
<1>1. /\ s.status \in ReviewStatus /\ g = ExpectedStage(s) /\ g \in Stage
      /\ Phase(s) = s.status /\ ~Awaiting(s)
  BY DEF CanRecordReview, ExpectedStage, ReviewStatus, Stage, Phase
<1>2. t \in State
  BY <1>1 DEF RecordPassed, State, Status, Working, ReviewStatus, NextReviewStatus
<1>3. /\ t.status = NextReviewStatus(s) /\ t.chief = s.chief /\ t.version = s.version
      /\ t.action = s.action /\ t.kind = s.kind
      /\ t.failedFrom = s.failedFrom /\ t.failure = s.failure
      /\ \A h \in Stage : HasReport(t, h) <=> h = g \/ HasReport(s, h)
  BY <1>1, NoneAssumption DEF RecordPassed, State, HasReport
<1>4. t.status \in ReviewStatus /\ Phase(t) = t.status /\ ~Awaiting(t)
  BY <1>1, <1>3 DEF NextReviewStatus, ReviewStatus, Phase, Awaiting
<1> HIDE DEF t
<1>5. ActionBound(t) /\ FailureBound(t)
  BY <1>1, <1>3, <1>4 DEF ValidState, ActionBound, FailureBound, ReviewStatus
<1>6. ReportOrder(t) /\ PhaseBound(t)
  BY <1>1, <1>3, <1>4
  DEF ValidState, ReportOrder, PhaseBound, HasAnyReport, Stage, ReviewStatus, NextReviewStatus,
      ExpectedStage, RequiredStages, Finalized, WarningBound
<1> QED
  BY <1>2, <1>5, <1>6 DEF ValidState, t
(* A warning keeps the stage and waits for the author; a blocking report    *)
(* moves to the revision: both bind the report and the new action.          *)
LEMMA RecordFindingsValid ==
    ASSUME NEW s \in State, ValidState(s), NEW r \in ReportIds, NEW a \in ActionIds,
           NEW g, CanRecordReview(s, g),
           NEW t \in {RecordWarning(s, g, r, a), RecordBlocking(s, g, r, a)}
    PROVE  t \in State /\ ValidState(t)
<1>1. /\ s.status \in ReviewStatus /\ g = ExpectedStage(s) /\ g \in Stage
      /\ Phase(s) = s.status /\ ~Awaiting(s)
  BY DEF CanRecordReview, ExpectedStage, ReviewStatus, Stage, Phase
<1>2. t \in State
  <2>1. CASE t = RecordWarning(s, g, r, a)
    BY <1>1, <2>1 DEF RecordWarning, State, ActionKind
  <2>2. CASE t = RecordBlocking(s, g, r, a)
    BY <1>1, <2>2 DEF RecordBlocking, State, Status, Working, ActionKind
  <2> QED
    BY <2>1, <2>2
<1>3. /\ \/ t.status = s.status /\ t.kind = "review_warning"
         \/ t.status = "REVIEW_REVISION" /\ t.kind = "review_revision"
      /\ t.chief = s.chief /\ t.version = s.version /\ t.action = a
      /\ t.failedFrom = s.failedFrom /\ t.failure = s.failure
      /\ \A h \in Stage : HasReport(t, h) <=> h = g \/ HasReport(s, h)
  <2>1. CASE t = RecordWarning(s, g, r, a)
    BY <1>1, <2>1, NoneAssumption DEF RecordWarning, State, HasReport
  <2>2. CASE t = RecordBlocking(s, g, r, a)
    BY <1>1, <2>2, NoneAssumption DEF RecordBlocking, State, HasReport
  <2> QED
    BY <2>1, <2>2
<1>4. t.status \in ReviewStatus \cup {"REVIEW_REVISION"} /\ Phase(t) = t.status /\ Awaiting(t)
  BY <1>1, <1>3, NoneAssumption DEF ReviewStatus, Phase, Awaiting
<1>5. ActionBound(t) /\ FailureBound(t)
  BY <1>1, <1>3, <1>4, NoneAssumption
  DEF ValidState, ActionBound, FailureBound, ReviewStatus, ActionKind, Awaiting
<1>6. ReportOrder(t) /\ PhaseBound(t)
  BY <1>1, <1>3, <1>4
  DEF ValidState, ReportOrder, PhaseBound, HasAnyReport, Stage, ReviewStatus,
      ExpectedStage, RequiredStages, Finalized, WarningBound
<1> QED
  BY <1>2, <1>5, <1>6 DEF ValidState

(* Edges that resolve an action of a review or select a revision: they drop *)
(* the action, keep candidate and reports, and move the status.             *)
LEMMA WithoutActionValid ==
    ASSUME NEW s \in State, ValidState(s), s.status # "FAILED", NEW target \in Status,
           \/ target = "CANCELLED"
           \/ target = "REVIEW_REVISION" /\ HasAnyReport(s)
           \/ s.kind = "review_warning" /\ target = NextReviewStatus(s)
    PROVE  WithoutAction(s, target) \in State /\ ValidState(WithoutAction(s, target))
<1> DEFINE t == WithoutAction(s, target)
<1>1. t \in State
  BY DEF WithoutAction, State
<1>2. /\ t.status = target /\ t.chief = s.chief /\ t.version = s.version
      /\ t.action = None /\ t.kind = None /\ t.report = s.report
      /\ t.failedFrom = s.failedFrom /\ t.failure = s.failure
  BY DEF WithoutAction, State
<1> HIDE DEF t
<1>3. /\ \A g \in Stage : HasReport(t, g) <=> HasReport(s, g)
      /\ HasAnyReport(t) <=> HasAnyReport(s)
      /\ ~Awaiting(t)
  BY <1>2 DEF HasReport, HasAnyReport, Awaiting
<1>4. t.status # "FAILED" /\ Phase(t) = t.status /\ Phase(s) = s.status
  BY <1>2 DEF Phase, NextReviewStatus
<1>5. ActionBound(t) /\ FailureBound(t) /\ ReportOrder(t)
  BY <1>2, <1>3, <1>4 DEF ValidState, ActionBound, FailureBound, ReportOrder, Stage
<1>6. PhaseBound(t)
  <2>1. CASE target = "CANCELLED"
    BY <1>2, <1>3, <1>4, <2>1 DEF PhaseBound, Finalized
  <2>2. CASE target = "REVIEW_REVISION" /\ HasAnyReport(s)
    BY <1>2, <1>3, <1>4, <2>2 DEF PhaseBound, Finalized, ValidState, ReportOrder
  <2>3. CASE s.kind = "review_warning" /\ target = NextReviewStatus(s)
    <3>1. /\ s.status \in ReviewStatus /\ HasReport(s, ExpectedStage(s))
          /\ s.version # NoVersion
      BY <2>3, KindPlace DEF ActionKind
    <3> QED
      BY <1>2, <1>3, <1>4, <2>3, <3>1
      DEF ValidState, PhaseBound, ReviewStatus, NextReviewStatus, ExpectedStage,
          RequiredStages, Stage, Finalized, WarningBound, Awaiting
  <2> QED
    BY <2>1, <2>2, <2>3
<1> QED
  BY <1>1, <1>5, <1>6 DEF ValidState, t

(* The last three moves of a run change only its status.                    *)
LEMMA FinalizingValid ==
    ASSUME NEW s \in State, ValidState(s), ~Awaiting(s), HasReport(s, "lore"),
           s.status \in {"LORE_FINAL_REVIEW", "REVISION_READY", "ARCHIVE_UPDATE"},
           NEW target \in Finalized
    PROVE  [s EXCEPT !.status = target] \in State /\ ValidState([s EXCEPT !.status = target])
<1> DEFINE t == [s EXCEPT !.status = target]
<1>1. t \in State
  BY DEF State, Status, Working, Terminal, Finalized
<1>2. /\ t.status = target /\ t.chief = s.chief /\ t.version = s.version
      /\ t.action = s.action /\ t.kind = s.kind /\ t.report = s.report
      /\ t.failedFrom = s.failedFrom /\ t.failure = s.failure
  BY DEF State
<1> HIDE DEF t
<1>3. /\ \A g \in Stage : HasReport(t, g) <=> HasReport(s, g)
      /\ HasAnyReport(t) <=> HasAnyReport(s)
      /\ ~Awaiting(t)
  BY <1>2 DEF HasReport, HasAnyReport, Awaiting
<1>4. Phase(t) = target /\ Phase(s) = s.status
  BY <1>2 DEF Phase, Finalized
<1>5. ActionBound(t) /\ FailureBound(t) /\ ReportOrder(t) /\ PhaseBound(t)
  BY <1>2, <1>3, <1>4
  DEF ValidState, ActionBound, FailureBound, ReportOrder, PhaseBound, Finalized, Stage, RequiredStages
<1> QED
  BY <1>1, <1>5 DEF ValidState, t

(* A failure remembers the phase it hides.                                  *)
LEMMA FailValid ==
    ASSUME NEW s \in State, ValidState(s), CanFail(s), NEW class \in FailureClass
    PROVE  Fail(s, class) \in State /\ ValidState(Fail(s, class))
<1> DEFINE t == Fail(s, class)
<1>1. t \in State
  BY DEF Fail, CanFail, State, Status
<1>2. /\ t.status = "FAILED" /\ t.chief = s.chief /\ t.version = s.version
      /\ t.action = s.action /\ t.kind = s.kind /\ t.report = s.report
      /\ t.failedFrom = s.status /\ t.failure = class
  BY DEF Fail, State
<1> HIDE DEF t
<1>3. /\ \A g \in Stage : HasReport(t, g) <=> HasReport(s, g)
      /\ HasAnyReport(t) <=> HasAnyReport(s)
      /\ ~Awaiting(t) /\ s.status \in Working
  BY <1>2 DEF HasReport, HasAnyReport, Awaiting, CanFail
<1>4. Phase(t) = s.status /\ Phase(s) = s.status
  BY <1>2, <1>3 DEF Phase, Working, ReviewStatus
<1>5. ActionBound(t) /\ FailureBound(t) /\ ReportOrder(t)
  BY <1>2, <1>3, <1>4
  DEF ValidState, ActionBound, FailureBound, ReportOrder, Finalized, Stage
<1>6. PhaseBound(t)
  BY <1>2, <1>3, <1>4
  DEF ValidState, PhaseBound, WarningBound, Awaiting, Finalized, Stage, RequiredStages
<1> QED
  BY <1>1, <1>5, <1>6 DEF ValidState, t

(* recover, recover_finalized and the no-write reconciliation give the      *)
(* hidden phase back.                                                       *)
LEMMA ResumeValid ==
    ASSUME NEW s \in State, ValidState(s), s.status = "FAILED"
    PROVE  Resume(s) \in State /\ ValidState(Resume(s))
<1> DEFINE t == Resume(s)
<1>1. s.failedFrom \in Working /\ ~Awaiting(s) /\ Phase(s) = s.failedFrom
  BY DEF ValidState, FailureBound, Phase
<1>2. t \in State
  BY <1>1 DEF Resume, State, Status
<1>3. /\ t.status = s.failedFrom /\ t.chief = s.chief /\ t.version = s.version
      /\ t.action = s.action /\ t.kind = s.kind /\ t.report = s.report
      /\ t.failedFrom = None /\ t.failure = None
  BY DEF Resume, State
<1> HIDE DEF t
<1>4. /\ \A g \in Stage : HasReport(t, g) <=> HasReport(s, g)
      /\ HasAnyReport(t) <=> HasAnyReport(s)
      /\ ~Awaiting(t) /\ Phase(t) = s.failedFrom
  BY <1>1, <1>3 DEF HasReport, HasAnyReport, Awaiting, Phase, Working, ReviewStatus
<1>5. ActionBound(t) /\ FailureBound(t) /\ ReportOrder(t)
  BY <1>1, <1>3, <1>4
  DEF ValidState, ActionBound, FailureBound, ReportOrder, Stage, Working, ReviewStatus
<1>6. PhaseBound(t)
  BY <1>1, <1>3, <1>4
  DEF ValidState, PhaseBound, WarningBound, Awaiting, Finalized, Stage, RequiredStages
<1> QED
  BY <1>2, <1>5, <1>6 DEF ValidState, t
-----------------------------------------------------------------------------
(* What the edges do to the candidate and its reports.                      *)

SameCandidate(s, t) == t.version = s.version /\ t.report = s.report /\ t.chief = s.chief
FreshCandidate(s, t, v) == t.version = v /\ t.report = NoReports /\ t.chief = s.chief
OneMoreReport(s, t, g, r) ==
    t.version = s.version /\ t.chief = s.chief /\ t.report = [s.report EXCEPT ![g] = r]

(* Edges that only move the status keep the candidate and its reports.      *)
LEMMA KeepsCandidate ==
    ASSUME NEW s \in State
    PROVE  /\ SameCandidate(s, Cancel(s)) /\ SameCandidate(s, Resume(s))
           /\ SameCandidate(s, FinalizeReady(s)) /\ SameCandidate(s, BeginArchive(s))
           /\ SameCandidate(s, Complete(s))
           /\ \A x : SameCandidate(s, WithoutAction(s, x)) /\ SameCandidate(s, Fail(s, x))
BY DEF SameCandidate, Cancel, Resume, FinalizeReady, BeginArchive, Complete, WithoutAction, Fail, State

(* A new text starts without reports.                                       *)
LEMMA DropsReports ==
    ASSUME NEW s \in State, NEW v
    PROVE  /\ FreshCandidate(s, NewVersionForReview(s, v), v)
           /\ \A a : FreshCandidate(s, AuthorGate(s, v, a), v)
BY DEF FreshCandidate, NewVersionForReview, AuthorGate, State

(* A review binds one report, of the stage the run waits for.               *)
LEMMA BindsReport ==
    ASSUME NEW s \in State, NEW g, NEW r
    PROVE  /\ OneMoreReport(s, RecordPassed(s, g, r), g, r)
           /\ \A a : /\ OneMoreReport(s, RecordWarning(s, g, r, a), g, r)
                     /\ OneMoreReport(s, RecordBlocking(s, g, r, a), g, r)
BY DEF OneMoreReport, RecordPassed, RecordWarning, RecordBlocking, State

-----------------------------------------------------------------------------
VersionsBehind ==
    /\ st.version <= canon
    /\ \A r \in ReportIds : reports[r] # None => reports[r].version <= st.version

BlockedIsReworked ==
    \A r \in ReportIds :
        reports[r] # None /\ reports[r].version = st.version
          /\ reports[r].outcome = "blocking" =>
        Phase(st) \in {"REVIEW_REVISION", "CANCELLED"}

IInv ==
    /\ TypeOK
    /\ CheckpointsReadable
    /\ GateMatchesRows
    /\ ReportsMatchCandidate
    /\ VersionsBehind
    /\ BlockedIsReworked

-----------------------------------------------------------------------------
(* Every step keeps the types of the rows.                                  *)
LEMMA RowsTyped ==
    ASSUME TypeOK, CheckpointsReadable, Next
    PROVE  /\ canon' \in 0 .. MaxVersion
           /\ reports' \in [ReportIds -> ReportRow \cup {None}]
           /\ actions' \in [ActionIds -> ActionRow \cup {None}]
<1> USE DEF TypeOK
<1>0. /\ st.version \in Nat /\ canon \in Nat /\ MaxVersion \in Nat
      /\ st.status \in ReviewStatus => ExpectedStage(st) \in Stage
  BY VersionBound DEF State, ExpectedStage, ReviewStatus, Stage
<1>1. ASSUME NEW status \in {"approved", "revised", "cancelled"}, ResolveRow(status),
             st.action \in ActionIds, actions[st.action] # None
      PROVE  actions' \in [ActionIds -> ActionRow \cup {None}]
  <2>1. [actions[st.action] EXCEPT !.status = status] \in ActionRow
    BY <1>1 DEF ActionRow
  <2> QED
    BY <1>1, <2>1 DEF ResolveRow
<1>2. ASSUME NEW a \in ActionIds, NEW kind \in ActionKind, NEW v \in Nat, NewAction(a, kind, v)
      PROVE  actions' \in [ActionIds -> ActionRow \cup {None}]
  BY <1>2 DEF NewAction, ActionRow
<1>3. ASSUME NEW r \in ReportIds, NEW g, NEW outcome \in Outcome, 
             CanRecordReview(st, g), NewReport(r, g, outcome)
      PROVE  reports' \in [ReportIds -> ReportRow \cup {None}]
  BY <1>0, <1>3 DEF NewReport, ReportRow, CanRecordReview
<1>4. ASSUME NEW kind, Gate(kind)
      PROVE  /\ st.action \in ActionIds /\ actions[st.action] # None
  <2>1. st.action \in ActionIds
    BY <1>4 DEF Gate, State
  <2>2. actions[st.action].status = "pending"
    BY <1>4, <2>1 DEF Gate, Pending
  <2>3. actions[st.action] # None 
    BY <1>4, <2>1 DEF Gate, Pending
  <2> QED
    BY <2>1, <2>3
<1> SUFFICES ASSUME Next
             PROVE  /\ canon' \in 0 .. MaxVersion
                    /\ reports' \in [ReportIds -> ReportRow \cup {None}]
                    /\ actions' \in [ActionIds -> ActionRow \cup {None}]
  OBVIOUS
<1>5. CASE WriteVersion
  BY <1>0, <1>5 DEF WriteVersion
<1>6. ASSUME NEW a \in ActionIds, SubmitDraftFor(a) \/ ReconcileCommittedDraft(a)
      PROVE  canon' = canon /\ reports' = reports /\ actions' \in [ActionIds -> ActionRow \cup {None}]
  BY <1>0, <1>2, <1>6 DEF SubmitDraftFor, ReconcileCommittedDraft, ActionKind
<1>7. CASE AcceptDraft \/ RequestDraftRevision \/ ReconcileStaleAction \/ CancelRun
           \/ AcceptReviewWarning \/ RequestReviewRevision \/ SubmitManualEdit
  <2>1. /\ canon' \in {canon, canon + 1} /\ canon' <= MaxVersion /\ reports' = reports
        /\ \E status \in {"approved", "revised", "cancelled"} : ResolveRow(status)
        /\ \E kind \in ActionKind : Gate(kind)
    BY <1>0, <1>7 DEF AcceptDraft, RequestDraftRevision, ReconcileStaleAction, CancelRun,
       AcceptReviewWarning, RequestReviewRevision, SubmitManualEdit, CurrentGate, ActionKind
  <2> QED
    BY <1>0, <1>1, <1>4, <2>1
<1>8. ASSUME NEW r \in ReportIds, RecordPassedReview(r)
      PROVE  canon' = canon /\ actions' = actions /\ reports' \in [ReportIds -> ReportRow \cup {None}]
  BY <1>3, <1>8 DEF RecordPassedReview, Outcome
<1>9. ASSUME NEW r \in ReportIds, NEW a \in ActionIds,
             RecordWarningReview(r, a) \/ RecordBlockingReview(r, a)
      PROVE  /\ canon' = canon
             /\ reports' \in [ReportIds -> ReportRow \cup {None}]
             /\ actions' \in [ActionIds -> ActionRow \cup {None}]
  BY <1>0, <1>2, <1>3, <1>9
  DEF RecordWarningReview, RecordBlockingReview, RecordFindings, Outcome, ActionKind
<1>10. CASE \/ RequestSelectedReviewRevision \/ SubmitReviewRevision \/ InvalidateForNewVersion
            \/ FinalizeRevisionReady \/ BeginArchiveUpdate \/ CompleteRun
            \/ (\E class \in FailureClass : FailRun(class)) \/ Recover \/ RecoverFinalized
            \/ ReconcileNoWrite \/ ReconcileCommittedVersion
  BY <1>10 DEF Move, RequestSelectedReviewRevision, SubmitReviewRevision, InvalidateForNewVersion,
     FinalizeRevisionReady, BeginArchiveUpdate, CompleteRun, FailRun, Recover, RecoverFinalized,
     ReconcileNoWrite, ReconcileCommittedVersion
<1> QED
  BY <1>5, <1>6, <1>7, <1>8, <1>9, <1>10 DEF Next

(* Every edge the run takes satisfies the guard of its lemma, so the next   *)
(* checkpoint is again a value the constructor accepts.                     *)
LEMMA CheckpointStaysValid ==
    ASSUME TypeOK, CheckpointsReadable, VersionsBehind, Next
    PROVE  st' \in State /\ ValidState(st')
<1> USE DEF TypeOK, CheckpointsReadable
<1>0. st \in State /\ ValidState(st) /\ st.version \in Nat /\ canon \in Nat /\ st.version <= canon
  BY VersionBound DEF State, VersionsBehind
<1>1. ASSUME NEW v \in Nat, st' = NewVersionForReview(st, v), v # 0
      PROVE  st' \in State /\ ValidState(st')
  BY <1>0, <1>1, NewVersionValid
<1>2. ASSUME NEW a \in ActionIds, SubmitDraftFor(a) \/ ReconcileCommittedDraft(a)
      PROVE  st' \in State /\ ValidState(st')
  BY <1>0, <1>2, AuthorGateValid
  DEF SubmitDraftFor, ReconcileCommittedDraft, SubmitDraft, CanSubmitDraft, CanReconcileCommitted, NoVersion
<1>3. CASE AcceptDraft
  <2>1. st.kind = "author_revision" /\ st.status = "AUTHOR_REVISION" /\ st' = Accept(st)
    BY <1>0, <1>3, KindPlace DEF AcceptDraft, CurrentGate, Gate
  <2> QED
    BY <1>0, <2>1, WithoutGateValid DEF Accept
<1>4. CASE RequestDraftRevision
  <2>1. st.kind = "author_revision" /\ st.status = "AUTHOR_REVISION" /\ st' = RequestDraft(st)
    BY <1>0, <1>4, KindPlace DEF RequestDraftRevision, CurrentGate, Gate
  <2> QED
    BY <1>0, <2>1, WithoutGateValid DEF RequestDraft
<1>5. CASE SubmitManualEdit
  BY <1>0, <1>1, <1>5 DEF SubmitManualEdit
<1>6. CASE ReconcileStaleAction
  BY <1>0, <1>1, <1>6 DEF ReconcileStaleAction, CanAdoptStale, CanTakeNewVersion, NoVersion
<1>7. CASE CancelRun
  <2>1. st.status # "FAILED" /\ st' = Cancel(st)
    BY <1>0, <1>7, KindPlace DEF CancelRun, CurrentGate, Gate, ActionKind, ReviewStatus
  <2>2. st.failedFrom = None /\ st.failure = None
    BY <1>0, <2>1 DEF ValidState, FailureBound
  <2>3. Cancel(st) = WithoutAction(st, "CANCELLED")
    BY <1>0, <2>2 DEF Cancel, WithoutAction, State
  <2> QED
    BY <1>0, <2>1, <2>3, WithoutActionValid DEF Status, Terminal
<1>8. ASSUME NEW r \in ReportIds, RecordPassedReview(r)
      PROVE  st' \in State /\ ValidState(st')
  BY <1>0, <1>8, RecordPassedValid DEF RecordPassedReview
<1>9. ASSUME NEW r \in ReportIds, NEW a \in ActionIds,
             RecordWarningReview(r, a) \/ RecordBlockingReview(r, a)
      PROVE  st' \in State /\ ValidState(st')
  BY <1>0, <1>9, RecordFindingsValid DEF RecordWarningReview, RecordBlockingReview, RecordFindings
<1>10. CASE AcceptReviewWarning
  <2>1. st.kind = "review_warning" /\ st.status \in ReviewStatus /\ st' = AcceptWarning(st)
    BY <1>0, <1>10, KindPlace DEF AcceptReviewWarning, CurrentGate, Gate
  <2> QED
    BY <1>0, <2>1, WithoutActionValid
    DEF AcceptWarning, NextReviewStatus, Status, Working, ReviewStatus
<1>11. CASE RequestReviewRevision
  <2>1. /\ st.kind \in {"review_warning", "review_revision"} /\ st' = RequestRevision(st)
        /\ st.status \in ReviewStatus \cup {"REVIEW_REVISION"}
        /\ st.kind = "review_warning" => HasReport(st, ExpectedStage(st))
    BY <1>0, <1>11, KindPlace DEF RequestReviewRevision, CurrentGate, Gate
  <2>2. HasAnyReport(st)
    BY <1>0, <2>1, KindPlace
    DEF HasAnyReport, ExpectedStage, Stage, ReviewStatus, ValidState, PhaseBound, Phase
  <2> QED
    BY <1>0, <2>1, <2>2, WithoutActionValid DEF RequestRevision, Status, Working, ReviewStatus
<1>12. CASE RequestSelectedReviewRevision
  <2>1. /\ st.status = "REVISION_READY" /\ Phase(st) = "REVISION_READY"
        /\ st' = WithoutAction(st, "REVIEW_REVISION")
    BY <1>12 DEF RequestSelectedReviewRevision, CanSelectReviewRevision, SelectReviewRevision, Move, Phase
  <2>2. HasAnyReport(st)
    BY <1>0, <2>1 DEF HasAnyReport, ValidState, PhaseBound, RequiredStages, Finalized, Stage
  <2> QED
    BY <1>0, <2>1, <2>2, WithoutActionValid DEF Status, Working
<1>13. CASE SubmitReviewRevision
  BY <1>0, <1>1, <1>13
  DEF SubmitReviewRevision, CanSubmitReviewRevision, CanTakeNewVersion, Move, NoVersion
<1>14. CASE InvalidateForNewVersion
  BY <1>0, <1>1, <1>14 DEF InvalidateForNewVersion, CanInvalidate, CanTakeNewVersion, Move, NoVersion
<1>15. CASE FinalizeRevisionReady \/ BeginArchiveUpdate \/ CompleteRun
  <2>1. /\ ~Awaiting(st) /\ HasReport(st, "lore")
        /\ st.status \in {"LORE_FINAL_REVIEW", "REVISION_READY", "ARCHIVE_UPDATE"}
        /\ \E target \in Finalized : st' = [st EXCEPT !.status = target]
    BY <1>15 DEF FinalizeRevisionReady, BeginArchiveUpdate, CompleteRun, CanFinalizeReady,
       CanBeginArchive, CanComplete, LiveReady, Move, FinalizeReady, BeginArchive, Complete, Finalized
  <2> QED
    BY <1>0, <2>1, FinalizingValid
<1>16. ASSUME NEW class \in FailureClass, FailRun(class)
       PROVE  st' \in State /\ ValidState(st')
  BY <1>0, <1>16, FailValid DEF FailRun, Move
<1>17. CASE Recover \/ RecoverFinalized \/ ReconcileNoWrite
  BY <1>0, <1>17, ResumeValid DEF Recover, RecoverFinalized, ReconcileNoWrite, CanRecover,
     CanRecoverFinalized, CanReconcileNoWrite, Move
<1>18. CASE ReconcileCommittedVersion
  BY <1>0, <1>1, <1>18 DEF ReconcileCommittedVersion, CanReconcileCommitted, Move, NoVersion
<1>19. CASE WriteVersion
  BY <1>0, <1>19 DEF WriteVersion
<1> QED
  BY <1>2, <1>3, <1>4, <1>5, <1>6, <1>7, <1>8, <1>9, <1>10, <1>11, <1>12, <1>13, <1>14, <1>15,
     <1>16, <1>17, <1>18, <1>19 DEF Next

(* The three shapes of a step, for the invariants about versions and        *)
(* reports: it keeps the candidate with its reports, binds one new report,  *)
(* or replaces the candidate by the newer canonical version.                *)
KeepStep ==
    /\ SameCandidate(st, st')
    /\ reports' = reports /\ canon' >= canon

BindStep(r, outcome) ==
    /\ CanRecordReview(st, ExpectedStage(st))
    /\ NewReport(r, ExpectedStage(st), outcome)
    /\ OneMoreReport(st, st', ExpectedStage(st), r)
    /\ outcome = "blocking" => st'.status = "REVIEW_REVISION"
    /\ canon' = canon

ReplaceStep ==
    /\ FreshCandidate(st, st', canon')
    /\ canon' > st.version
    /\ reports' = reports

Replacing ==
    \/ \E a \in ActionIds : SubmitDraftFor(a) \/ ReconcileCommittedDraft(a)
    \/ SubmitManualEdit \/ ReconcileStaleAction \/ SubmitReviewRevision
    \/ InvalidateForNewVersion \/ ReconcileCommittedVersion

Binding ==
    \E r \in ReportIds : \/ RecordPassedReview(r)
                         \/ \E a \in ActionIds : RecordWarningReview(r, a) \/ RecordBlockingReview(r, a)

Keeping ==
    \/ WriteVersion
    \/ AcceptDraft \/ RequestDraftRevision \/ CancelRun \/ AcceptReviewWarning
    \/ RequestReviewRevision \/ RequestSelectedReviewRevision
    \/ FinalizeRevisionReady \/ BeginArchiveUpdate \/ CompleteRun
    \/ \E class \in FailureClass : FailRun(class)
    \/ Recover \/ RecoverFinalized \/ ReconcileNoWrite

(* The edges that adopt another text adopt the canonical one, which is newer. *)
LEMMA ReplacingSteps ==
    ASSUME TypeOK, VersionsBehind, Replacing
    PROVE  ReplaceStep
<1> USE DEF TypeOK
<1>0. st \in State /\ st.version \in Nat /\ canon \in Nat /\ st.version <= canon
  BY VersionBound DEF State, VersionsBehind
<1>1. ASSUME NEW a \in ActionIds, SubmitDraftFor(a) \/ ReconcileCommittedDraft(a)
      PROVE  ReplaceStep
  BY <1>0, <1>1, DropsReports DEF SubmitDraftFor, ReconcileCommittedDraft, SubmitDraft,
     CanSubmitDraft, CanReconcileCommitted, ReplaceStep
<1>2. CASE SubmitManualEdit \/ ReconcileStaleAction \/ SubmitReviewRevision
           \/ InvalidateForNewVersion \/ ReconcileCommittedVersion
  <2>1. /\ st' = NewVersionForReview(st, canon') /\ canon' # st.version
        /\ reports' = reports /\ canon' \in {canon, canon + 1}
    BY <1>0, <1>2 DEF SubmitManualEdit, CanManualEdit, ReconcileStaleAction, CanAdoptStale,
       SubmitReviewRevision, CanSubmitReviewRevision, InvalidateForNewVersion, CanInvalidate,
       ReconcileCommittedVersion, CanReconcileCommitted, CanTakeNewVersion, Move
  <2> QED
    BY <1>0, <2>1, DropsReports DEF ReplaceStep
<1> QED
  BY <1>1, <1>2 DEF Replacing

(* The edges that move only the status leave candidate and reports alone.   *)
LEMMA KeepingSteps ==
    ASSUME TypeOK, Keeping
    PROVE  KeepStep
<1> USE DEF TypeOK
<1>0. st \in State /\ canon \in Nat
  BY VersionBound
<1>1. CASE AcceptDraft \/ RequestDraftRevision \/ CancelRun \/ AcceptReviewWarning
           \/ RequestReviewRevision \/ RequestSelectedReviewRevision
  <2>1. /\ st' = Cancel(st) \/ \E x : st' = WithoutAction(st, x)
        /\ reports' = reports /\ canon' = canon
    BY <1>1 DEF AcceptDraft, Accept, RequestDraftRevision, RequestDraft, CancelRun,
       AcceptReviewWarning, AcceptWarning, RequestReviewRevision, RequestRevision,
       RequestSelectedReviewRevision, SelectReviewRevision, Move
  <2> QED
    BY <1>0, <2>1, KeepsCandidate DEF KeepStep
<1>2. CASE \/ FinalizeRevisionReady \/ BeginArchiveUpdate \/ CompleteRun
           \/ (\E class \in FailureClass : FailRun(class)) \/ Recover \/ RecoverFinalized
           \/ ReconcileNoWrite
  <2>1. /\ st' = Resume(st) \/ (\E class : st' = Fail(st, class))
             \/ st' \in {FinalizeReady(st), BeginArchive(st), Complete(st)}
        /\ reports' = reports /\ canon' = canon
    BY <1>2 DEF FinalizeRevisionReady, BeginArchiveUpdate, CompleteRun, FailRun, Recover,
       RecoverFinalized, ReconcileNoWrite, Move
  <2> QED
    BY <1>0, <2>1, KeepsCandidate DEF KeepStep
<1>3. CASE WriteVersion
  BY <1>0, <1>3 DEF WriteVersion, KeepStep, SameCandidate
<1> QED
  BY <1>1, <1>2, <1>3 DEF Keeping

(* A recorded review binds its new row for the stage the run waits for.     *)
LEMMA BindingSteps ==
    ASSUME TypeOK, Binding
    PROVE  \E r \in ReportIds, outcome \in Outcome : BindStep(r, outcome)
<1>0. st \in State
  BY DEF TypeOK
<1>1. ASSUME NEW r \in ReportIds, RecordPassedReview(r)
      PROVE  BindStep(r, "passed")
  BY <1>0, <1>1, BindsReport DEF RecordPassedReview, BindStep
<1>2. ASSUME NEW r \in ReportIds, NEW a \in ActionIds, RecordWarningReview(r, a)
      PROVE  BindStep(r, "warning")
  BY <1>0, <1>2, BindsReport DEF RecordWarningReview, RecordFindings, BindStep
<1>3. ASSUME NEW r \in ReportIds, NEW a \in ActionIds, RecordBlockingReview(r, a)
      PROVE  BindStep(r, "blocking")
  <2>1. st' = RecordBlocking(st, ExpectedStage(st), r, a)
    BY <1>3 DEF RecordBlockingReview, RecordFindings
  <2>2. st'.status = "REVIEW_REVISION"
    BY <1>0, <2>1 DEF RecordBlocking, State
  <2>3. OneMoreReport(st, st', ExpectedStage(st), r)
    BY <1>0, <2>1, BindsReport
  <2> QED
    BY <1>3, <2>2, <2>3 DEF RecordBlockingReview, RecordFindings, BindStep
<1> QED
  BY <1>1, <1>2, <1>3 DEF Binding, Outcome

Shaped == KeepStep \/ ReplaceStep \/ \E r \in ReportIds, outcome \in Outcome : BindStep(r, outcome)

(* Every step has one of the shapes.                                        *)
LEMMA StepShape ==
    ASSUME TypeOK, VersionsBehind, Next
    PROVE  Shaped
<1>1. Keeping \/ Replacing \/ Binding
  BY DEF Next, Keeping, Replacing, Binding
<1> QED
  BY <1>1, KeepingSteps, ReplacingSteps, BindingSteps DEF Shaped

(* The candidate never runs ahead of the canonical version, and no report   *)
(* row was written for a later version than the candidate.                  *)
LEMMA VersionsStayBehind ==
    ASSUME TypeOK, VersionsBehind, canon' \in Nat, Shaped
    PROVE  VersionsBehind'
<1>0. st.version \in Nat /\ canon \in Nat
      /\ \A r \in ReportIds : reports[r] # None => reports[r].version \in Nat
  BY VersionBound DEF TypeOK, State, ReportRow
<1>1. CASE KeepStep
  BY <1>0, <1>1 DEF VersionsBehind, KeepStep, SameCandidate
<1>2. CASE ReplaceStep
  BY <1>0, <1>2 DEF VersionsBehind, ReplaceStep, FreshCandidate
<1>3. ASSUME NEW r \in ReportIds, NEW outcome \in Outcome, BindStep(r, outcome)
      PROVE  VersionsBehind'
  BY <1>0, <1>3 DEF VersionsBehind, BindStep, OneMoreReport, NewReport, TypeOK
<1> QED
  BY <1>1, <1>2, <1>3 DEF Shaped

(* A bound report stays a row of its own stage for the candidate.           *)
LEMMA ReportsStayMatched ==
    ASSUME TypeOK, ReportsMatchCandidate, Shaped
    PROVE  ReportsMatchCandidate'
<1>1. CASE KeepStep
  BY <1>1 DEF ReportsMatchCandidate, KeepStep, SameCandidate, HasReport
<1>2. CASE ReplaceStep
  BY <1>2 DEF ReportsMatchCandidate, ReplaceStep, FreshCandidate, NoReports, HasReport
<1>3. ASSUME NEW r \in ReportIds, NEW outcome \in Outcome, BindStep(r, outcome)
      PROVE  ReportsMatchCandidate'
  <2> DEFINE g == ExpectedStage(st)
  <2>1. /\ g \in Stage /\ st.report \in [Stage -> ReportIds \cup {None}] /\ reports[r] = None
        /\ reports \in [ReportIds -> ReportRow \cup {None}]
        /\ reports' = [reports EXCEPT ![r] = [stage |-> g, version |-> st.version, outcome |-> outcome]]
        /\ st'.report = [st.report EXCEPT ![g] = r] /\ st'.version = st.version
    BY <1>3 DEF BindStep, OneMoreReport, NewReport, TypeOK, State, CanRecordReview, ExpectedStage,
       ReviewStatus, Stage
  <2> SUFFICES ASSUME NEW h \in Stage, HasReport(st, h)'
               PROVE  /\ reports'[st'.report[h]] # None
                      /\ reports'[st'.report[h]].stage = h
                      /\ reports'[st'.report[h]].version = st'.version
    BY DEF ReportsMatchCandidate
  <2>2. CASE h = g
    <3>1. [stage |-> g, version |-> st.version, outcome |-> outcome] \in ReportRow
      BY <2>1 DEF ReportRow, TypeOK, State
    <3>2. st'.report[h] = r
      BY <2>1, <2>2
    <3> QED
      BY <2>1, <2>2, <3>1, <3>2, RowAssumption
  <2>3. CASE h # g
    <3>1. st'.report[h] = st.report[h] /\ st.report[h] \in ReportIds
      BY <2>1, <2>3 DEF HasReport
    <3>2. reports[st.report[h]] # None
      BY <3>1 DEF ReportsMatchCandidate, HasReport
    <3> QED
      BY <2>1, <3>1, <3>2 DEF ReportsMatchCandidate, HasReport
  <2> QED
    BY <2>2, <2>3
<1> QED
  BY <1>1, <1>2, <1>3 DEF Shaped

(* A new text or a new report leaves no blocked candidate out of revision.  *)
LEMMA BlockedByShape ==
    ASSUME TypeOK, VersionsBehind, BlockedIsReworked, canon' \in Nat,
           ReplaceStep \/ \E r \in ReportIds, outcome \in Outcome : BindStep(r, outcome)
    PROVE  BlockedIsReworked'
<1> USE DEF TypeOK
<1>1. CASE ReplaceStep
  <2>1. /\ st.version \in Nat /\ st'.version \in Nat /\ st'.version > st.version
        /\ \A r \in ReportIds : reports[r] # None => reports[r].version \in Nat
    BY <1>1 DEF ReplaceStep, FreshCandidate, State, ReportRow
  <2>2. \A r \in ReportIds : reports'[r] # None => reports'[r].version # st'.version
    BY <1>1, <2>1 DEF VersionsBehind, ReplaceStep
  <2> QED
    BY <2>2 DEF BlockedIsReworked
<1>2. ASSUME NEW r \in ReportIds, NEW outcome \in Outcome, BindStep(r, outcome)
      PROVE  BlockedIsReworked'
  <2>1. /\ Phase(st) \notin {"REVIEW_REVISION", "CANCELLED"}
        /\ st'.version = st.version
        /\ reports' = [reports EXCEPT
             ![r] = [stage |-> ExpectedStage(st), version |-> st.version, outcome |-> outcome]]
        /\ outcome = "blocking" => Phase(st') = "REVIEW_REVISION"
    BY <1>2 DEF BindStep, OneMoreReport, NewReport, CanRecordReview, Phase, ReviewStatus
  <2> QED
    BY <2>1 DEF BlockedIsReworked
<1> QED
  BY <1>1, <1>2

(* A blocked candidate stays in revision until another text replaces it.    *)
LEMMA BlockedStaysReworked ==
    ASSUME TypeOK, CheckpointsReadable, VersionsBehind, BlockedIsReworked, canon' \in Nat, Next
    PROVE  BlockedIsReworked'
<1> USE DEF TypeOK
<1>1. CASE KeepStep
  <2>1. SUFFICES ASSUME Phase(st) \in {"REVIEW_REVISION", "CANCELLED"}
                 PROVE  ReplaceStep \/ Phase(st') \in {"REVIEW_REVISION", "CANCELLED"}
    BY <1>1, BlockedByShape DEF BlockedIsReworked, KeepStep, SameCandidate
  <2>2. /\ st \in State /\ ValidState(st) /\ st'.version = st.version
        /\ st.status \in {"REVIEW_REVISION", "CANCELLED", "FAILED"}
        /\ st.status # "FAILED" => Phase(st) = st.status
    BY <1>1, <2>1 DEF KeepStep, SameCandidate, CheckpointsReadable, Phase
  <2>3. ~\E v : v # st.version /\
           (st' = NewVersionForReview(st, v) \/ \E a : st' = AuthorGate(st, v, a))
    BY <2>2, DropsReports DEF FreshCandidate
  <2>4. ASSUME NEW a \in ActionIds PROVE ~(SubmitDraftFor(a) \/ ReconcileCommittedDraft(a))
    BY <2>3 DEF SubmitDraftFor, SubmitDraft, CanSubmitDraft, ReconcileCommittedDraft,
       CanReconcileCommitted
  <2>5. ~(SubmitManualEdit \/ ReconcileStaleAction \/ SubmitReviewRevision
          \/ InvalidateForNewVersion \/ ReconcileCommittedVersion)
    BY <2>3 DEF SubmitManualEdit, CanManualEdit, ReconcileStaleAction, CanAdoptStale,
       SubmitReviewRevision, CanSubmitReviewRevision, InvalidateForNewVersion, CanInvalidate,
       ReconcileCommittedVersion, CanReconcileCommitted, CanTakeNewVersion, Move
  <2>6. ~(AcceptDraft \/ RequestDraftRevision \/ AcceptReviewWarning)
    BY <2>2, KindPlace DEF AcceptDraft, RequestDraftRevision, AcceptReviewWarning, CurrentGate,
       Gate, ReviewStatus
  <2>7. ASSUME NEW r \in ReportIds, NEW a \in ActionIds
        PROVE  ~(RecordWarningReview(r, a) \/ RecordBlockingReview(r, a))
    BY <2>2 DEF RecordWarningReview, RecordBlockingReview, RecordFindings,
       CanRecordReview, ReviewStatus
  <2>8. ASSUME NEW r \in ReportIds PROVE ~RecordPassedReview(r)
    BY <2>2 DEF RecordPassedReview, CanRecordReview, ReviewStatus
  <2>9. ~(RequestSelectedReviewRevision \/ FinalizeRevisionReady \/ BeginArchiveUpdate \/ CompleteRun)
    BY <2>2 DEF RequestSelectedReviewRevision, CanSelectReviewRevision, FinalizeRevisionReady,
       CanFinalizeReady, BeginArchiveUpdate, CanBeginArchive, CompleteRun, CanComplete
  <2>10. CASE RequestReviewRevision \/ CancelRun
    <3>1. st' = WithoutAction(st, "REVIEW_REVISION") \/ st' = Cancel(st)
      BY <2>10 DEF RequestReviewRevision, RequestRevision, CancelRun
    <3> QED
      BY <2>2, <3>1 DEF WithoutAction, Cancel, Phase, State
  <2>11. CASE (\E class \in FailureClass : FailRun(class)) \/ Recover \/ RecoverFinalized
              \/ ReconcileNoWrite \/ WriteVersion
    <3>1. PICK class : \/ st' = Fail(st, class) /\ st.status \in Working
                       \/ st' = Resume(st) /\ st.status = "FAILED"
                       \/ st' = st
      BY <2>11 DEF FailRun, CanFail, Recover, CanRecover, RecoverFinalized, CanRecoverFinalized,
         ReconcileNoWrite, CanReconcileNoWrite, WriteVersion, Move
    <3> QED
      BY <2>1, <2>2, <3>1 DEF Fail, Resume, Phase, State, Working, ReviewStatus
  <2> QED
    BY <2>4, <2>5, <2>6, <2>7, <2>8, <2>9, <2>10, <2>11 DEF Next
<1> QED
  BY <1>1, StepShape, BlockedByShape DEF Shaped

-----------------------------------------------------------------------------
(* A resolved row is no longer pending, and the checkpoint awaits nothing.  *)
LEMMA GateResolved ==
    ASSUME TypeOK, NEW status \in {"approved", "revised", "cancelled"}, ResolveRow(status),
           NEW kind, Gate(kind), st'.action = None
    PROVE  GateMatchesRows'
<1>1. /\ st.action \in ActionIds /\ Pending = {st.action}
      /\ actions' = [actions EXCEPT ![st.action].status = status]
      /\ actions \in [ActionIds -> ActionRow \cup {None}]
  BY DEF Gate, ResolveRow, TypeOK, State
<1>2. actions[st.action] \in ActionRow
  BY <1>1 DEF Pending
<1>3. actions'[st.action].status = status
  BY <1>1, <1>2 DEF ActionRow
<1>4. Pending' = {}
  BY <1>1, <1>3 DEF Pending
<1> QED
  BY <1>4 DEF GateMatchesRows, Awaiting

(* An edge that touches neither the rows nor the binding keeps the match.   *)
LEMMA GateUntouched ==
    ASSUME GateMatchesRows, actions' = actions, st'.action = st.action,
           st.action # None => st'.kind = st.kind /\ st'.version = st.version
    PROVE  GateMatchesRows'
BY DEF GateMatchesRows, Awaiting, Pending

(* The pending row is the one the checkpoint binds.                         *)
LEMMA GateStaysMatched ==
    ASSUME TypeOK, CheckpointsReadable, VersionsBehind, GateMatchesRows, Next
    PROVE  GateMatchesRows'
<1> USE DEF TypeOK
<1>0. /\ st \in State /\ ValidState(st)
      /\ st.version \in Nat /\ canon \in Nat
      /\ st.action # None => st.action \in ActionIds
  BY VersionBound DEF State, CheckpointsReadable
<1>1. ASSUME NEW a \in ActionIds, NEW kind, NEW v, NewAction(a, kind, v),
             st'.action = a, st'.kind = kind, st'.version = v, kind \in ActionKind, v \in Nat
      PROVE  GateMatchesRows'
  <2>1. /\ actions' = [actions EXCEPT ![a] = [kind |-> kind, version |-> v, status |-> "pending"]]
        /\ [kind |-> kind, version |-> v, status |-> "pending"] # None
    BY <1>1, RowAssumption DEF NewAction, ActionRow
  <2>2. Pending' = {a}
    BY <1>1, <2>1 DEF NewAction, Pending
  <2> QED
    BY <1>1, <2>1, <2>2, NoneAssumption DEF GateMatchesRows, Awaiting
<1>2. ASSUME NEW status \in {"approved", "revised", "cancelled"}, ResolveRow(status),
             NEW kind, Gate(kind), st'.action = None
      PROVE  GateMatchesRows'
  BY <1>2, GateResolved
<1>3. ASSUME actions' = actions, st'.action = st.action,
             st.action # None => st'.kind = st.kind /\ st'.version = st.version
      PROVE  GateMatchesRows'
  BY <1>3, GateUntouched
<1>4. ASSUME NEW a \in ActionIds, SubmitDraftFor(a) \/ ReconcileCommittedDraft(a)
      PROVE  GateMatchesRows'
  <2>1. NewAction(a, "author_revision", canon) /\ st' = AuthorGate(st, canon, a)
    BY <1>4 DEF SubmitDraftFor, SubmitDraft, ReconcileCommittedDraft
  <2>2. st'.action = a /\ st'.kind = "author_revision" /\ st'.version = canon
    BY <1>0, <2>1 DEF AuthorGate, State
  <2> QED
    BY <1>0, <1>1, <2>1, <2>2 DEF ActionKind
<1>5. ASSUME NEW r \in ReportIds, NEW a \in ActionIds,
             RecordWarningReview(r, a) \/ RecordBlockingReview(r, a)
      PROVE  GateMatchesRows'
  <2>1. PICK kind \in {"review_warning", "review_revision"} :
          /\ NewAction(a, kind, st.version)
          /\ \/ kind = "review_warning" /\ st' = RecordWarning(st, ExpectedStage(st), r, a)
             \/ kind = "review_revision" /\ st' = RecordBlocking(st, ExpectedStage(st), r, a)
    BY <1>5 DEF RecordWarningReview, RecordBlockingReview, RecordFindings
  <2>2. st'.action = a /\ st'.kind = kind /\ st'.version = st.version
    BY <1>0, <2>1 DEF RecordWarning, RecordBlocking, State
  <2> QED
    BY <1>0, <1>1, <2>1, <2>2 DEF ActionKind
<1>6. CASE AcceptDraft \/ RequestDraftRevision \/ ReconcileStaleAction \/ CancelRun
           \/ AcceptReviewWarning \/ RequestReviewRevision \/ SubmitManualEdit
  <2>1. /\ \E status \in {"approved", "revised", "cancelled"} : ResolveRow(status)
        /\ \E kind \in ActionKind : Gate(kind)
        /\ \/ \E x : st' = WithoutAction(st, x)
           \/ st' = Cancel(st)
           \/ \E v : st' = NewVersionForReview(st, v)
    BY <1>6 DEF AcceptDraft, Accept, RequestDraftRevision, RequestDraft, ReconcileStaleAction, CancelRun,
       AcceptReviewWarning, AcceptWarning, RequestReviewRevision, RequestRevision, SubmitManualEdit,
       CurrentGate, ActionKind
  <2>2. st'.action = None
    BY <1>0, <2>1 DEF WithoutAction, Cancel, NewVersionForReview, State
  <2> QED
    BY <1>2, <2>1, <2>2
<1>7. CASE \/ RequestSelectedReviewRevision \/ SubmitReviewRevision \/ InvalidateForNewVersion
           \/ ReconcileCommittedVersion
  <2>1. st.action = None
    BY <1>0, <1>7 DEF RequestSelectedReviewRevision, CanSelectReviewRevision, SubmitReviewRevision,
       CanSubmitReviewRevision, InvalidateForNewVersion, CanInvalidate, ReconcileCommittedVersion,
       CanReconcileCommitted, ValidState, PhaseBound, FailureBound, Phase, Finalized, Awaiting
  <2>2. /\ st' = WithoutAction(st, "REVIEW_REVISION") \/ \E v : st' = NewVersionForReview(st, v)
        /\ actions' = actions
    BY <1>7 DEF RequestSelectedReviewRevision, SelectReviewRevision, SubmitReviewRevision,
       InvalidateForNewVersion, ReconcileCommittedVersion, Move
  <2>3. st'.action = None
    BY <1>0, <2>2 DEF WithoutAction, NewVersionForReview, State
  <2> QED
    BY <1>3, <2>1, <2>2, <2>3
<1>8. CASE \/ FinalizeRevisionReady \/ BeginArchiveUpdate \/ CompleteRun
           \/ (\E class \in FailureClass : FailRun(class)) \/ Recover \/ RecoverFinalized
           \/ ReconcileNoWrite
  <2>1. /\ actions' = actions
        /\ \/ st' \in {FinalizeReady(st), BeginArchive(st), Complete(st), Resume(st)}
           \/ \E class : st' = Fail(st, class)
    BY <1>8 DEF FinalizeRevisionReady, BeginArchiveUpdate, CompleteRun, FailRun, Recover,
       RecoverFinalized, ReconcileNoWrite, Move
  <2>2. st'.action = st.action /\ st'.kind = st.kind /\ st'.version = st.version
    BY <1>0, <2>1 DEF FinalizeReady, BeginArchive, Complete, Resume, Fail, State
  <2> QED
    BY <1>3, <2>1, <2>2
<1>9. ASSUME NEW r \in ReportIds, RecordPassedReview(r)
      PROVE  GateMatchesRows'
  <2>1. st'.action = st.action /\ st'.kind = st.kind /\ st'.version = st.version
    BY <1>0, <1>9 DEF RecordPassedReview, RecordPassed, State
  <2> QED
    BY <1>3, <1>9, <2>1 DEF RecordPassedReview
<1>10. CASE WriteVersion
  BY <1>3, <1>10 DEF WriteVersion
<1> QED
  BY <1>4, <1>5, <1>6, <1>7, <1>8, <1>9, <1>10 DEF Next

-----------------------------------------------------------------------------
(* The inductive invariant.                                                 *)
LEMMA InitialIInv == Init => IInv
<1> SUFFICES ASSUME Init PROVE IInv
  OBVIOUS
<1>1. PICK chief \in BOOLEAN : st = InitialState(chief)
  BY DEF Init
<1>2. st \in State /\ ValidState(st)
  BY <1>1, InitialValid
<1>3. st.report = NoReports /\ st.version = 0 /\ st.action = None
  BY <1>1 DEF InitialState, NoVersion
<1>4. TypeOK /\ CheckpointsReadable
  BY <1>2, VersionBound DEF TypeOK, CheckpointsReadable, Init, NoVersion
<1>5. GateMatchesRows /\ ReportsMatchCandidate /\ VersionsBehind /\ BlockedIsReworked
  BY <1>3 DEF GateMatchesRows, Pending, Awaiting, ReportsMatchCandidate, HasReport, NoReports,
     VersionsBehind, BlockedIsReworked, Init, NoVersion
<1> QED
  BY <1>4, <1>5 DEF IInv

LEMMA IInvStep == IInv /\ [Next]_vars => IInv'
<1>1. ASSUME IInv, Next PROVE IInv'
  <2>1. TypeOK /\ CheckpointsReadable /\ VersionsBehind /\ BlockedIsReworked
        /\ GateMatchesRows /\ ReportsMatchCandidate
    BY <1>1 DEF IInv
  <2>2. TypeOK' /\ CheckpointsReadable' /\ canon' \in Nat
    BY <1>1, <2>1, RowsTyped, CheckpointStaysValid, VersionBound DEF TypeOK, CheckpointsReadable
  <2> QED
    BY <1>1, <2>1, <2>2, StepShape, GateStaysMatched, VersionsStayBehind,
       ReportsStayMatched, BlockedStaysReworked DEF IInv
<1>2. ASSUME IInv, UNCHANGED vars PROVE IInv'
  BY <1>2 DEF IInv, vars, TypeOK, CheckpointsReadable, GateMatchesRows, Pending,
     ReportsMatchCandidate, VersionsBehind, BlockedIsReworked
<1> QED
  BY <1>1, <1>2

(* IInv holds in every reachable state of a run, for any sets of rows and   *)
(* any bound on the versions (the edges of ChapterProductionState).         *)
THEOREM InductiveInvariant == Spec => []IInv
<1> QED
  BY InitialIInv, IInvStep, PTL DEF Spec

-----------------------------------------------------------------------------
(* Type correctness of the run.                                             *)
THEOREM TypeCorrect == Spec => []TypeOK
<1>1. IInv => TypeOK
  BY DEF IInv
<1> QED
  BY <1>1, InductiveInvariant, PTL

(* Every checkpoint a run writes passes every check of __post_init__ when   *)
(* it is read back, also after failures and reconciliations.                *)
THEOREM CheckpointsAreReadable == Spec => []CheckpointsReadable
<1>1. IInv => CheckpointsReadable
  BY DEF IInv
<1> QED
  BY <1>1, InductiveInvariant, PTL

(* The run waits for the author exactly while one row is pending, and that  *)
(* row is the gate the checkpoint binds.                                    *)
THEOREM OneGate == Spec => []GateMatchesRows
<1>1. IInv => GateMatchesRows
  BY DEF IInv
<1> QED
  BY <1>1, InductiveInvariant, PTL

(* No review is carried over to another text.                               *)
THEOREM ReviewsAreForTheCandidate == Spec => []ReportsMatchCandidate
<1>1. IInv => ReportsMatchCandidate
  BY DEF IInv
<1> QED
  BY <1>1, InductiveInvariant, PTL

(* A version with a blocking report is never ready, archived or completed.  *)
THEOREM BlockedIsNeverReleased == Spec => []NoBlockedVersionReleased
<1>1. IInv => NoBlockedVersionReleased
  BY DEF IInv, BlockedIsReworked, NoBlockedVersionReleased, Finalized
<1> QED
  BY <1>1, InductiveInvariant, PTL

-----------------------------------------------------------------------------
(* The run implements the release gate.                                     *)

NoneBlocks(s, rows) ==
    \A g \in Stage : HasReport(s, g) =>
        \/ Phase(s) \in {"REVIEW_REVISION", "CANCELLED"}
        \/ rows[s.report[g]].outcome # "blocking"

(* A report that blocks is bound only in a revision or a cancelled run.     *)
LEMMA NoBoundReportBlocks ==
    /\ IInv => NoneBlocks(st, reports)
    /\ IInv' => NoneBlocks(st', reports')
<1>1. ASSUME IInv, NEW g \in Stage, HasReport(st, g),
             Phase(st) \notin {"REVIEW_REVISION", "CANCELLED"}
      PROVE  reports[st.report[g]].outcome # "blocking"
  <2>1. st.report[g] \in ReportIds
    BY <1>1 DEF IInv, TypeOK, State, HasReport
  <2> QED
    BY <1>1, <2>1 DEF IInv, ReportsMatchCandidate, BlockedIsReworked
<1>2. ASSUME IInv', NEW g \in Stage, HasReport(st', g),
             Phase(st') \notin {"REVIEW_REVISION", "CANCELLED"}
      PROVE  reports'[st'.report[g]].outcome # "blocking"
  <2>1. st'.report[g] \in ReportIds
    BY <1>2 DEF IInv, TypeOK, State, HasReport
  <2> QED
    BY <1>2, <2>1 DEF IInv, ReportsMatchCandidate, BlockedIsReworked
<1> QED
  BY <1>1, <1>2 DEF NoneBlocks

(* So the bound reports approve, except one whose warning waits.            *)
LEMMA ApprovedStages ==
    ASSUME NEW s, NEW rows, NoneBlocks(s, rows)
    PROVE  /\ Phase(s) \in ReviewStatus \cup Finalized =>
                Approved(s, rows) =
                  {g \in Stage : HasReport(s, g) /\ ~(Awaiting(s) /\ g = ExpectedStage(s))}
           /\ Phase(s) \notin ReviewStatus \cup Finalized => Approved(s, rows) = {}
BY DEF NoneBlocks, Approved, ReviewStatus, Finalized

(* Initial states map to initial states.                                    *)
LEMMA GateInitial == Init => Abstract!Init
<1> SUFFICES ASSUME Init PROVE Abstract!Init
  OBVIOUS
<1>1. PICK chief \in BOOLEAN : st = InitialState(chief)
  BY DEF Init
<1>2. Phase(st) = "DRAFTING" /\ st.version = 0 /\ st.chief \in BOOLEAN
  BY <1>1 DEF InitialState, Phase, NoVersion
<1>3. GatePhase(st) = "writing" /\ Approved(st, reports) = {}
  BY <1>2 DEF GatePhase, Approved, ReviewStatus, Finalized
<1>4. RequiredStages(st) \in {{"editor", "lore"}, {"editor", "chief_editor", "lore"}}
  BY <1>2 DEF RequiredStages, Stage
<1> QED
  BY <1>2, <1>3, <1>4 DEF Abstract!Init

(* The phase of the gate, by the phase of the run.                          *)
LEMMA GatePhases ==
    ASSUME NEW s
    PROVE  /\ Phase(s) \in {"DRAFTING", "AUTHOR_REVISION"} => GatePhase(s) = "writing"
           /\ Phase(s) \in {"EDITOR_REVIEW", "CHIEF_FINAL_REVIEW", "LORE_FINAL_REVIEW"} =>
                 GatePhase(s) = "review"
           /\ Phase(s) = "REVIEW_REVISION" => GatePhase(s) = "rework"
           /\ Phase(s) \in {"REVISION_READY", "ARCHIVE_UPDATE"} => GatePhase(s) = "released"
           /\ Phase(s) = "COMPLETED" => GatePhase(s) = "completed"
           /\ Phase(s) = "CANCELLED" => GatePhase(s) = "cancelled"
<1> DEFINE p == Phase(s)
<1>1. GatePhase(s) =
        CASE p \in {"DRAFTING", "AUTHOR_REVISION"} -> "writing"
          [] p \in {"EDITOR_REVIEW", "CHIEF_FINAL_REVIEW", "LORE_FINAL_REVIEW"} -> "review"
          [] p = "REVIEW_REVISION" -> "rework"
          [] p \in {"REVISION_READY", "ARCHIVE_UPDATE"} -> "released"
          [] p = "COMPLETED" -> "completed"
          [] OTHER -> "cancelled"
  BY DEF GatePhase, ReviewStatus
<1> HIDE DEF p
<1> QED
  BY <1>1 DEF p

(* A step that replaces the candidate offers a draft or reopens the review. *)
LEMMA ReplacingIsAbstract ==
    ASSUME IInv, IInv', Replacing
    PROVE  Abstract!Next
<1> DEFINE Redraft == /\ Phase(st) = "DRAFTING" /\ st'.status = "AUTHOR_REVISION"
           Reopen == /\ Phase(st) \notin Terminal /\ st.version # 0
                     /\ st'.status = "EDITOR_REVIEW"
<1>0. /\ st \in State /\ ValidState(st) /\ st.version \in Nat /\ st'.version \in Nat
      /\ Phase(st) \in Working \cup Terminal
  BY VersionBound DEF IInv, TypeOK, State, CheckpointsReadable, Phase, Status, ValidState, FailureBound
<1>1. /\ st'.version > st.version /\ Approved(st', reports') = {}
      /\ RequiredStages(st') = RequiredStages(st)
  BY <1>0, ReplacingSteps
  DEF IInv, ReplaceStep, FreshCandidate, NoReports, Approved, HasReport, RequiredStages
<1>2. ASSUME Redraft PROVE Abstract!OfferDraft
  <2>1. /\ GatePhase(st) = "writing" /\ GatePhase(st') = "writing" /\ Approved(st, reports) = {}
    BY <1>2 DEF GatePhase, Approved, Phase, ReviewStatus, Finalized
  <2> QED
    BY <1>0, <1>1, <2>1 DEF Abstract!OfferDraft, Abstract!NewCandidate
<1>3. ASSUME Reopen PROVE Abstract!ReplaceCandidate
  <2>1. /\ GatePhase(st) \in {"writing", "review", "rework", "released"}
        /\ GatePhase(st') = "review"
    <3>1. Phase(st') = "EDITOR_REVIEW" /\ Phase(st) \in Working
      BY <1>0, <1>3 DEF Phase
    <3> QED
      BY <3>1, GatePhases DEF Working, ReviewStatus
  <2> QED
    BY <1>0, <1>1, <1>3, <2>1 DEF Abstract!ReplaceCandidate, Abstract!NewCandidate
<1>4. ASSUME NEW a \in ActionIds, SubmitDraftFor(a) \/ ReconcileCommittedDraft(a)
      PROVE  Redraft
  BY <1>0, <1>4 DEF SubmitDraftFor, SubmitDraft, CanSubmitDraft, ReconcileCommittedDraft,
     CanReconcileCommitted, AuthorGate, Phase, State
<1>5. ASSUME NEW v, st' = NewVersionForReview(st, v)
      PROVE  st'.status = "EDITOR_REVIEW"
  BY <1>0, <1>5 DEF NewVersionForReview, State
<1>6. CASE SubmitManualEdit \/ ReconcileStaleAction
  <2>1. st.kind \in ActionKind /\ st.version # 0 /\ \E v : st' = NewVersionForReview(st, v)
    BY <1>6 DEF SubmitManualEdit, CanManualEdit, ReconcileStaleAction, CanAdoptStale, CurrentGate,
       Gate, CanTakeNewVersion, NoVersion
  <2>2. st.status \in ReviewStatus \cup {"AUTHOR_REVISION", "REVIEW_REVISION"}
    BY <1>0, <2>1, KindPlace DEF ActionKind
  <2>3. Reopen
    BY <1>5, <2>1, <2>2 DEF Phase, ReviewStatus, Terminal
  <2> QED
    BY <1>3, <2>3 DEF Abstract!Next
<1>7. CASE SubmitReviewRevision \/ InvalidateForNewVersion
  <2>1. Reopen
    BY <1>5, <1>7 DEF SubmitReviewRevision, CanSubmitReviewRevision, InvalidateForNewVersion,
       CanInvalidate, CanTakeNewVersion, Move, Phase, ReviewStatus, Terminal, NoVersion
  <2> QED
    BY <1>3, <2>1 DEF Abstract!Next
<1>8. CASE ReconcileCommittedVersion
  <2>1. /\ st.status = "FAILED" /\ st.failedFrom \in Working /\ st.failedFrom # "DRAFTING"
        /\ st.version # 0 /\ \E v : st' = NewVersionForReview(st, v)
    BY <1>0, <1>8 DEF ReconcileCommittedVersion, CanReconcileCommitted, ValidState, FailureBound,
       Move, NoVersion
  <2>2. Reopen
    BY <1>5, <2>1 DEF Phase, Working, ReviewStatus, Terminal
  <2> QED
    BY <1>3, <2>2 DEF Abstract!Next
<1> QED
  BY <1>2, <1>4, <1>6, <1>7, <1>8 DEF Replacing, Abstract!Next

(* A recorded review approves its stage, asks it again, or sends the text   *)
(* back.                                                                    *)
LEMMA BindingIsAbstract ==
    ASSUME IInv, IInv', Binding
    PROVE  Abstract!Next \/ UNCHANGED Abstract!vars
<1> DEFINE g == ExpectedStage(st)
<1>0. /\ st \in State /\ ValidState(st) /\ st' \in State /\ ValidState(st')
      /\ NoneBlocks(st, reports) /\ NoneBlocks(st', reports')
  BY NoBoundReportBlocks DEF IInv, TypeOK, CheckpointsReadable
<1>1. /\ st.status \in ReviewStatus /\ Phase(st) = st.status /\ ~Awaiting(st)
      /\ g \in Stage /\ g \in RequiredStages(st)
      /\ RequiredStages(st') = RequiredStages(st) /\ st'.version = st.version
      /\ \A h \in Stage : HasReport(st', h) <=> h = g \/ HasReport(st, h)
  <2>1. PICK r \in ReportIds, outcome \in Outcome : BindStep(r, outcome)
    BY BindingSteps DEF IInv
  <2>2. st.status \in ReviewStatus /\ Phase(st) = st.status /\ ~Awaiting(st) /\ g \in Stage
    BY <2>1 DEF BindStep, CanRecordReview, ExpectedStage, ReviewStatus, Stage, Phase
  <2>3. g \in RequiredStages(st)
    BY <1>0, <2>2 DEF ExpectedStage, ReviewStatus, RequiredStages, Stage, ValidState, PhaseBound
  <2>4. \A h \in Stage : HasReport(st', h) <=> h = g \/ HasReport(st, h)
    BY <1>0, <2>1, <2>2, NoneAssumption DEF BindStep, OneMoreReport, HasReport, State
  <2> QED
    BY <2>1, <2>2, <2>3, <2>4 DEF BindStep, OneMoreReport, RequiredStages
<1>2. /\ GatePhase(st) = "review"
      /\ Approved(st, reports) = {h \in Stage : HasReport(st, h)}
  BY <1>0, <1>1, GatePhases, ApprovedStages DEF ReviewStatus
<1>3. Abstract!Before(g) \cap RequiredStages(st) \subseteq Approved(st, reports)
  BY <1>0, <1>1, <1>2
  DEF Abstract!Before, ExpectedStage, ReviewStatus, RequiredStages, Stage, ValidState, PhaseBound
<1>4. ASSUME NEW r \in ReportIds, RecordPassedReview(r)
      PROVE  Abstract!Next \/ UNCHANGED Abstract!vars
  <2>1. st'.status \in ReviewStatus /\ Phase(st') = st'.status /\ ~Awaiting(st')
    BY <1>0, <1>1, <1>4
    DEF RecordPassedReview, RecordPassed, NextReviewStatus, ReviewStatus, Phase, Awaiting, State
  <2>2. /\ GatePhase(st') = "review"
        /\ Approved(st', reports') = Approved(st, reports) \cup {g}
    BY <1>0, <1>1, <1>2, <2>1, GatePhases, ApprovedStages DEF ReviewStatus
  <2>3. CASE g \in Approved(st, reports)
    BY <1>1, <1>2, <2>2, <2>3 DEF Abstract!vars
  <2>4. CASE g \notin Approved(st, reports)
    <3>1. Abstract!Approve(g)
      BY <1>1, <1>2, <1>3, <2>2, <2>4 DEF Abstract!Approve
    <3> QED
      BY <1>1, <3>1 DEF Abstract!Next
  <2> QED
    BY <2>3, <2>4
<1>5. ASSUME NEW r \in ReportIds, NEW a \in ActionIds, RecordWarningReview(r, a)
      PROVE  Abstract!Next \/ UNCHANGED Abstract!vars
  <2>1. st'.status = st.status /\ st'.action = a
    BY <1>0, <1>5 DEF RecordWarningReview, RecordFindings, RecordWarning, State
  <2>2. Phase(st') = st.status /\ Awaiting(st') /\ ExpectedStage(st') = g
    BY <1>1, <2>1, NoneAssumption DEF Phase, ReviewStatus, Awaiting, ExpectedStage
  <2>3. /\ GatePhase(st') = "review"
        /\ Approved(st', reports') = Approved(st, reports) \ {g}
    BY <1>0, <1>1, <1>2, <2>2, GatePhases, ApprovedStages DEF ReviewStatus
  <2>4. CASE g = "lore"
    <3>1. Abstract!Reconsider
      BY <1>1, <1>2, <2>3, <2>4 DEF Abstract!Reconsider
    <3> QED
      BY <3>1 DEF Abstract!Next
  <2>5. CASE g # "lore"
    <3>1. ~HasReport(st, g)
      BY <1>0, <1>1, <2>5 DEF ValidState, PhaseBound, ReviewStatus, ExpectedStage
    <3>2. Approved(st', reports') = Approved(st, reports)
      BY <1>2, <2>3, <3>1
    <3> QED
      BY <1>1, <1>2, <2>3, <3>2 DEF Abstract!vars
  <2> QED
    BY <2>4, <2>5
<1>6. ASSUME NEW r \in ReportIds, NEW a \in ActionIds, RecordBlockingReview(r, a)
      PROVE  Abstract!Next
  <2>1. st'.status = "REVIEW_REVISION"
    BY <1>0, <1>6 DEF RecordBlockingReview, RecordFindings, RecordBlocking, State
  <2>2. GatePhase(st') = "rework" /\ Approved(st', reports') = {}
    BY <1>0, <2>1, GatePhases, ApprovedStages DEF Phase, ReviewStatus, Finalized
  <2>3. Abstract!SendBack
    BY <1>1, <1>2, <2>2 DEF Abstract!SendBack
  <2> QED
    BY <2>3 DEF Abstract!Next
<1> QED
  BY <1>4, <1>5, <1>6 DEF Binding

(* An edge that keeps the candidate opens the review, approves a warned      *)
(* stage, sends the text back, releases, completes, cancels, or is hidden.  *)
LEMMA KeepingIsAbstract ==
    ASSUME IInv, IInv', Keeping
    PROVE  Abstract!Next \/ UNCHANGED Abstract!vars
<1> DEFINE g == ExpectedStage(st)
<1>0. /\ st \in State /\ ValidState(st) /\ st' \in State /\ ValidState(st')
      /\ NoneBlocks(st, reports) /\ NoneBlocks(st', reports')
  BY NoBoundReportBlocks DEF IInv, TypeOK, CheckpointsReadable
<1>1. /\ RequiredStages(st') = RequiredStages(st) /\ st'.version = st.version
      /\ reports' = reports
      /\ \A h \in Stage : HasReport(st', h) <=> HasReport(st, h)
  BY KeepingSteps DEF IInv, KeepStep, SameCandidate, RequiredStages, HasReport
<1>2. ASSUME Phase(st') = Phase(st), Awaiting(st') = Awaiting(st),
             Awaiting(st) => st'.status = st.status
      PROVE  UNCHANGED Abstract!vars
  <2>1. GatePhase(st') = GatePhase(st)
    BY <1>2 DEF GatePhase
  <2>2. Awaiting(st) => ExpectedStage(st') = ExpectedStage(st)
    BY <1>2 DEF ExpectedStage
  <2>3. Approved(st', reports') = Approved(st, reports)
    BY <1>0, <1>1, <1>2, <2>2, ApprovedStages
  <2> QED
    BY <1>1, <2>1, <2>3 DEF Abstract!vars
<1>3. CASE AcceptDraft \/ RequestDraftRevision
  <2>1. /\ st.status = "AUTHOR_REVISION" /\ Phase(st) = "AUTHOR_REVISION"
        /\ Accept(st).status = "EDITOR_REVIEW" /\ RequestDraft(st).status = "DRAFTING"
    BY <1>0, <1>3, KindPlace DEF AcceptDraft, RequestDraftRevision, CurrentGate, Gate, Phase,
       Accept, RequestDraft, WithoutAction, State
  <2>2. /\ GatePhase(st) = "writing" /\ Approved(st, reports) = {} /\ st.version # 0
        /\ \A h \in Stage : ~HasReport(st, h)
    BY <1>0, <2>1, GatePhases, ApprovedStages
    DEF ReviewStatus, Finalized, ValidState, PhaseBound, HasAnyReport, NoVersion
  <2>3. Approved(st', reports') = {}
    BY <1>1, <2>2 DEF Approved
  <2>4. CASE AcceptDraft
    <3>1. Phase(st') = "EDITOR_REVIEW"
      BY <2>1, <2>4 DEF AcceptDraft, Phase
    <3>2. Abstract!OpenReview
      BY <1>1, <2>2, <2>3, <3>1, GatePhases DEF Abstract!OpenReview
    <3> QED
      BY <3>2 DEF Abstract!Next
  <2>5. CASE RequestDraftRevision
    <3>1. Phase(st') = "DRAFTING"
      BY <2>1, <2>5 DEF RequestDraftRevision, Phase
    <3> QED
      BY <1>1, <2>2, <2>3, <3>1, GatePhases DEF Abstract!vars
  <2> QED
    BY <1>3, <2>4, <2>5
<1>4. CASE CancelRun
  <2>1. /\ st.status \in ReviewStatus \cup {"AUTHOR_REVISION", "REVIEW_REVISION"}
        /\ Phase(st) = st.status /\ Phase(st') = "CANCELLED"
    BY <1>0, <1>4, KindPlace DEF CancelRun, CurrentGate, Gate, ActionKind, Cancel, WithoutAction,
       Phase, State, ReviewStatus
  <2>2. Abstract!Cancel
    BY <1>0, <1>1, <2>1, GatePhases, ApprovedStages DEF Abstract!Cancel, ReviewStatus, Finalized
  <2> QED
    BY <2>2 DEF Abstract!Next
<1>5. CASE AcceptReviewWarning
  <2>1. /\ st.kind = "review_warning" /\ st.status \in ReviewStatus /\ HasReport(st, g)
        /\ st.action # None /\ st' = AcceptWarning(st)
    BY <1>0, <1>5, KindPlace DEF AcceptReviewWarning, CurrentGate, Gate
  <2>2. /\ Phase(st) = st.status /\ Awaiting(st)
        /\ st'.status \in ReviewStatus /\ Phase(st') = st'.status /\ ~Awaiting(st')
    BY <1>0, <2>1 DEF AcceptWarning, WithoutAction, NextReviewStatus, ReviewStatus, Phase, Awaiting, State
  <2>3. /\ GatePhase(st) = "review" /\ GatePhase(st') = "review"
        /\ Approved(st, reports) = {h \in Stage : HasReport(st, h) /\ h # g}
        /\ Approved(st', reports') = {h \in Stage : HasReport(st, h)}
    BY <1>0, <1>1, <2>1, <2>2, GatePhases, ApprovedStages DEF ReviewStatus
  <2>4. /\ g \in RequiredStages(st) \ Approved(st, reports)
        /\ Abstract!Before(g) \cap RequiredStages(st) \subseteq Approved(st, reports)
        /\ Approved(st', reports') = Approved(st, reports) \cup {g}
    BY <1>0, <2>1, <2>2, <2>3
    DEF Abstract!Before, ExpectedStage, ReviewStatus, RequiredStages, Stage, ValidState, PhaseBound
  <2>5. Abstract!Approve(g)
    BY <1>1, <2>3, <2>4 DEF Abstract!Approve
  <2> QED
    BY <2>4, <2>5 DEF Abstract!Next
<1>6. CASE RequestReviewRevision \/ RequestSelectedReviewRevision
  <2>1. /\ st.status \in ReviewStatus \cup {"REVIEW_REVISION", "REVISION_READY"}
        /\ Phase(st) = st.status
        /\ st' = WithoutAction(st, "REVIEW_REVISION")
    BY <1>0, <1>6, KindPlace DEF RequestReviewRevision, RequestRevision, RequestSelectedReviewRevision,
       CanSelectReviewRevision, SelectReviewRevision, Move, CurrentGate, Gate, ReviewStatus, Phase
  <2>2. Phase(st') = "REVIEW_REVISION"
    BY <1>0, <2>1 DEF WithoutAction, Phase, State
  <2>3. GatePhase(st') = "rework" /\ Approved(st', reports') = {}
    BY <1>0, <2>2, GatePhases, ApprovedStages DEF ReviewStatus, Finalized
  <2>4. CASE st.status = "REVIEW_REVISION"
    BY <1>0, <1>1, <2>1, <2>3, <2>4, GatePhases, ApprovedStages
    DEF ReviewStatus, Finalized, Abstract!vars
  <2>5. CASE st.status # "REVIEW_REVISION"
    <3>1. Abstract!SendBack
      BY <1>1, <2>1, <2>3, <2>5, GatePhases DEF Abstract!SendBack, ReviewStatus
    <3> QED
      BY <3>1 DEF Abstract!Next
  <2> QED
    BY <2>4, <2>5
<1>7. ASSUME Phase(st) \in {"LORE_FINAL_REVIEW", "REVISION_READY", "ARCHIVE_UPDATE"},
             ~Awaiting(st), HasReport(st, "lore"),
             Phase(st') \in Finalized, ~Awaiting(st')
      PROVE  /\ Approved(st, reports) = RequiredStages(st)
             /\ Approved(st', reports') = RequiredStages(st)
  <2>1. \A h \in Stage : HasReport(st, h) <=> h \in RequiredStages(st)
    BY <1>0, <1>7 DEF ValidState, ReportOrder, RequiredStages, Stage
  <2>2. Approved(st, reports) = {h \in Stage : HasReport(st, h)}
    BY <1>0, <1>7, ApprovedStages DEF ReviewStatus, Finalized
  <2>3. Approved(st', reports') = {h \in Stage : HasReport(st, h)}
    BY <1>0, <1>1, <1>7, ApprovedStages
  <2> QED
    BY <2>1, <2>2, <2>3 DEF RequiredStages
<1>8. CASE FinalizeRevisionReady \/ BeginArchiveUpdate \/ CompleteRun
  <2>1. /\ ~Awaiting(st) /\ HasReport(st, "lore") /\ Phase(st) = st.status
        /\ \/ st.status = "LORE_FINAL_REVIEW" /\ st' = [st EXCEPT !.status = "REVISION_READY"]
           \/ st.status = "REVISION_READY" /\ st' = [st EXCEPT !.status = "ARCHIVE_UPDATE"]
           \/ st.status = "ARCHIVE_UPDATE" /\ st' = [st EXCEPT !.status = "COMPLETED"]
    BY <1>8 DEF FinalizeRevisionReady, BeginArchiveUpdate, CompleteRun, CanFinalizeReady,
       CanBeginArchive, CanComplete, LiveReady, Move, FinalizeReady, BeginArchive, Complete, Phase
  <2>2. /\ ~Awaiting(st')
        /\ \/ Phase(st) = "LORE_FINAL_REVIEW" /\ Phase(st') = "REVISION_READY"
           \/ Phase(st) = "REVISION_READY" /\ Phase(st') = "ARCHIVE_UPDATE"
           \/ Phase(st) = "ARCHIVE_UPDATE" /\ Phase(st') = "COMPLETED"
    BY <1>0, <2>1 DEF Phase, Awaiting, State
  <2>3. /\ Approved(st, reports) = RequiredStages(st)
        /\ Approved(st', reports') = RequiredStages(st)
    BY <1>7, <2>1, <2>2 DEF Finalized
  <2>4. Abstract!Release \/ Abstract!Complete \/ UNCHANGED Abstract!vars
    BY <1>1, <2>2, <2>3, GatePhases DEF Abstract!Release, Abstract!Complete, Abstract!vars
  <2> QED
    BY <2>4 DEF Abstract!Next
<1>9. CASE (\E class \in FailureClass : FailRun(class)) \/ Recover \/ RecoverFinalized
           \/ ReconcileNoWrite
  <2>1. PICK class : \/ st' = Fail(st, class) /\ st.status \in Working /\ ~Awaiting(st)
                     \/ st' = Resume(st) /\ st.status = "FAILED"
    BY <1>9 DEF FailRun, CanFail, Recover, CanRecover, RecoverFinalized, CanRecoverFinalized,
       ReconcileNoWrite, CanReconcileNoWrite, Move
  <2>2. /\ ~Awaiting(st)
        /\ st.status = "FAILED" => st.failedFrom \in Working
    BY <1>0, <2>1 DEF ValidState, FailureBound
  <2>3. Phase(st') = Phase(st) /\ st'.action = st.action
    BY <1>0, <2>1, <2>2 DEF Fail, Resume, Phase, State, Working, ReviewStatus, ValidState, FailureBound
  <2> QED
    BY <1>2, <2>2, <2>3 DEF Awaiting
<1>10. CASE WriteVersion
  BY <1>2, <1>10 DEF WriteVersion
<1> QED
  BY <1>3, <1>4, <1>5, <1>6, <1>8, <1>9, <1>10 DEF Keeping

(* Every behaviour of the run, its failures and recoveries included, is a   *)
(* behaviour of the release gate.                                           *)
THEOREM RunImplementsReleaseGate == Spec => ImplementsReleaseGate
<1>1. IInv /\ IInv' /\ [Next]_vars => [Abstract!Next]_(Abstract!vars)
  <2>1. ASSUME IInv, IInv', Next PROVE Abstract!Next \/ UNCHANGED Abstract!vars
    <3>1. Keeping \/ Replacing \/ Binding
      BY <2>1 DEF Next, Keeping, Replacing, Binding
    <3> QED
      BY <2>1, <3>1, KeepingIsAbstract, ReplacingIsAbstract, BindingIsAbstract
  <2>2. ASSUME UNCHANGED vars PROVE UNCHANGED Abstract!vars
    BY <2>2 DEF vars, Abstract!vars
  <2> QED
    BY <2>1, <2>2
<1> QED
  BY <1>1, GateInitial, InductiveInvariant, PTL DEF Spec, ImplementsReleaseGate, Abstract!Spec

(* A text is released only with the approval of every stage of the policy.  *)
THEOREM ReleasedTextsAreApproved == Spec => []ReleasedIsApproved
<1>1. IInv => ReleasedIsApproved
  <2> SUFFICES ASSUME IInv, GatePhase(st) \in {"released", "completed"}
               PROVE  Approved(st, reports) = RequiredStages(st)
    BY DEF ReleasedIsApproved, Abstract!ReleasedIsApproved
  <2>1. ValidState(st) /\ NoneBlocks(st, reports)
    BY NoBoundReportBlocks DEF IInv, CheckpointsReadable
  <2>2. Phase(st) \in Finalized
    BY GatePhases DEF GatePhase, Finalized, ReviewStatus
  <2>3. Approved(st, reports) = {g \in Stage : HasReport(st, g)}
    BY <2>1, <2>2, ApprovedStages DEF ValidState, PhaseBound
  <2>4. \A g \in Stage : HasReport(st, g) <=> g \in RequiredStages(st)
    BY <2>1, <2>2 DEF ValidState, PhaseBound, ReportOrder, RequiredStages, Stage
  <2> QED
    BY <2>3, <2>4 DEF RequiredStages
<1> QED
  BY <1>1, InductiveInvariant, PTL

-----------------------------------------------------------------------------
(* The verdicts of the reviewers.                                           *)

RowsAreFunctions ==
    /\ reports = [r \in ReportIds |-> reports[r]]
    /\ evidence = [r \in ReportIds |-> evidence[r]]

(* A lore request is out only after the run has pinned its settings.        *)
LorePinned ==
    claim # None => "stage" \in DOMAIN claim /\ (claim.stage = "lore" => pinned # {})

Verdicts == RowsAreFunctions /\ OneVerdict /\ LorePinned

(* One verdict is written by this step, by a coordinator who may.           *)
Writing(c, r) == \E outcome \in Outcome : Persisting(c, r, outcome)

-----------------------------------------------------------------------------
(* Verdicts are written by a coordinator that persists, and by nobody else. *)
LEMMA WhoWrites ==
    [ReviewNext]_reviewVars =>
        UNCHANGED <<reports, evidence>> \/ \E c \in Coordinators, r \in ReportIds : Writing(c, r)
<1> SUFFICES ASSUME [ReviewNext]_reviewVars
             PROVE  UNCHANGED <<reports, evidence>> \/ \E c \in Coordinators, r \in ReportIds : Writing(c, r)
  OBVIOUS
<1>1. ASSUME NEW c \in Coordinators, NEW r \in ReportIds,
             PersistPassed(c, r) \/ \E a \in ActionIds : PersistWarning(c, r, a) \/ PersistBlocking(c, r, a)
      PROVE  Writing(c, r)
  BY <1>1 DEF PersistPassed, PersistWarning, PersistBlocking, Writing, Outcome
<1>2. ASSUME NEW c \in Coordinators,
             \/ ClaimReview(c) \/ Crash(c) \/ ReleaseClaim(c) \/ FailReview(c) \/ Refuse(c)
             \/ \E answer \in Answer : ProviderReturns(c, answer)
      PROVE  UNCHANGED <<reports, evidence>>
  BY <1>2 DEF ClaimReview, Crash, ReleaseClaim, FailReview, Refuse, ProviderReturns
<1>3. CASE RecoverFailedClaim \/ AcknowledgeNoWrite \/ AcceptReview \/ RequestRevisionOfReview \/ SelectRevision
  BY <1>3 DEF RecoverFailedClaim, AcknowledgeNoWrite, AcceptReview, RequestRevisionOfReview, SelectRevision
<1>4. CASE AuthorStep \/ ReviseCandidate \/ EditDraft \/ EditContext \/ EditSettings
      \/ UNCHANGED reviewVars
  BY <1>4 DEF AuthorStep, AcceptDraft, SubmitDraftFor, ReviseCandidate, EditDraft, WriteVersion,
     EditContext, EditSettings, reviewVars
<1> QED
  BY <1>1, <1>2, <1>3, <1>4 DEF ReviewNext, CoordinatorStep

(* What is written, and under which conditions.                             *)
LEMMA WhatIsWritten ==
    ASSUME RowsAreFunctions, NEW c \in Coordinators, NEW r \in ReportIds, Writing(c, r)
    PROVE  /\ \A q \in ReportIds : q # r => reports'[q] = reports[q] /\ evidence'[q] = evidence[q]
           /\ reports'[r].version = st.version /\ reports'[r].stage = ExpectedStage(st)
           /\ evidence'[r] = [claim |-> coord[c].held.id, context |-> coord[c].held.context,
                              settings |-> coord[c].held.settings]
           /\ ReportsFor(ExpectedStage(st)) = {} /\ canon = st.version
           /\ HoldsClaim(c) /\ Key(coord[c].held) = CurrentKey
           /\ RowsAreFunctions'
<1>1. PICK outcome \in Outcome : Persisting(c, r, outcome)
  BY DEF Writing
<1>2. /\ reports' = [reports EXCEPT ![r] = [stage |-> ExpectedStage(st), version |-> st.version,
                                            outcome |-> outcome]]
      /\ evidence' = [evidence EXCEPT ![r] = [claim |-> coord[c].held.id,
                                              context |-> coord[c].held.context,
                                              settings |-> coord[c].held.settings]]
      /\ CanPersist(c)
  BY <1>1 DEF Persisting, NewReport
<1>3. DOMAIN reports = ReportIds /\ DOMAIN evidence = ReportIds
  BY DEF RowsAreFunctions
<1>4. RowsAreFunctions'
  BY <1>2, <1>3 DEF RowsAreFunctions
<1> QED
  BY <1>2, <1>3, <1>4 DEF CanPersist, ReviewOpen

(* The pin is set by the run's first lore claim and by nothing else.        *)
LEMMA PinStays ==
    LorePinned /\ [ReviewNext]_reviewVars => LorePinned' /\ (pinned # {} => pinned' = pinned)
<1> SUFFICES ASSUME LorePinned, [ReviewNext]_reviewVars
             PROVE  LorePinned' /\ (pinned # {} => pinned' = pinned)
  OBVIOUS
<1>1. ASSUME NEW c \in Coordinators, ClaimReview(c)
      PROVE  LorePinned' /\ (pinned # {} => pinned' = pinned)
  BY <1>1 DEF ClaimReview, SettingsRead, LorePinned
<1>2. ASSUME pinned' = pinned,
             \/ claim' \in {claim, None}
             \/ claim # None /\ claim' = [claim EXCEPT !.status = "FAILED"]
      PROVE  LorePinned' /\ (pinned # {} => pinned' = pinned)
  BY <1>2 DEF LorePinned
<1>3. ASSUME NEW c \in Coordinators,
             \/ FailReview(c) \/ Crash(c) \/ ReleaseClaim(c) \/ Refuse(c)
             \/ \E answer \in Answer : ProviderReturns(c, answer)
      PROVE  LorePinned' /\ (pinned # {} => pinned' = pinned)
  BY <1>2, <1>3 DEF FailReview, CanFailReview, HoldsClaim, Claimed, Crash, ReleaseClaim, Refuse,
     ProviderReturns, libraryVars
<1>4. ASSUME NEW c \in Coordinators, NEW r \in ReportIds,
             PersistPassed(c, r) \/ \E a \in ActionIds : PersistWarning(c, r, a) \/ PersistBlocking(c, r, a)
      PROVE  LorePinned' /\ (pinned # {} => pinned' = pinned)
  BY <1>2, <1>4 DEF PersistPassed, PersistWarning, PersistBlocking, Persisting, libraryVars
<1>5. CASE RecoverFailedClaim \/ AcknowledgeNoWrite \/ AcceptReview \/ RequestRevisionOfReview \/ SelectRevision
  BY <1>2, <1>5 DEF RecoverFailedClaim, AcknowledgeNoWrite, AcceptReview, RequestRevisionOfReview,
     SelectRevision, libraryVars
<1>6. CASE AuthorStep \/ ReviseCandidate \/ EditDraft \/ EditContext \/ EditSettings
      \/ UNCHANGED reviewVars
  BY <1>2, <1>6 DEF AuthorStep, ReviseCandidate, EditDraft, EditContext, EditSettings, libraryVars,
     reviewVars
<1> QED
  BY <1>1, <1>3, <1>4, <1>5, <1>6 DEF ReviewNext, CoordinatorStep

LEMMA VerdictsStay == Verdicts /\ [ReviewNext]_reviewVars => Verdicts'
<1> SUFFICES ASSUME Verdicts, [ReviewNext]_reviewVars PROVE Verdicts'
  OBVIOUS
<1>0. LorePinned'
  BY PinStays DEF Verdicts
<1>1. CASE UNCHANGED <<reports, evidence>>
  BY <1>0, <1>1 DEF Verdicts, RowsAreFunctions, OneVerdict
<1>2. ASSUME NEW c \in Coordinators, NEW r \in ReportIds, Writing(c, r) PROVE Verdicts'
  <2>1. RowsAreFunctions'
    BY <1>2, WhatIsWritten DEF Verdicts
  <2>2. /\ \A q \in ReportIds : q # r => reports'[q] = reports[q]
        /\ reports'[r].version = st.version /\ reports'[r].stage = ExpectedStage(st)
    BY <1>2, WhatIsWritten DEF Verdicts
  <2>3. \A q \in ReportIds : reports[q] # None =>
           reports[q].version # st.version \/ reports[q].stage # ExpectedStage(st)
    BY <1>2, WhatIsWritten DEF Verdicts, ReportsFor
  <2>4. OneVerdict'
    BY <2>2, <2>3 DEF Verdicts, OneVerdict
  <2> QED
    BY <1>0, <2>1, <2>4 DEF Verdicts
<1> QED
  BY <1>1, <1>2, WhoWrites

LEMMA VerdictsStart == ReviewInit => Verdicts
BY DEF ReviewInit, Init, Verdicts, RowsAreFunctions, OneVerdict, LorePinned

(* The verdicts' invariant.                                                 *)
THEOREM VerdictInvariant == ReviewSpec => []Verdicts
BY VerdictsStart, VerdictsStay, PTL DEF ReviewSpec

(* However often a review is retried, acknowledged or answered late, a text *)
(* gets one verdict of a stage (chapter_review_persistence.py).             *)
THEOREM VerdictsAreUnique == ReviewSpec => []OneVerdict
BY VerdictInvariant, PTL DEF Verdicts

(* A verdict is written only under the claim the run waits for, on the text *)
(* and the other documents as they are; a lore verdict is on the settings   *)
(* the run pinned with its first lore claim, which never change, whatever   *)
(* is edited since (_resolve_review_setting_bundle).                        *)
THEOREM VerdictsAreCurrent == ReviewSpec => VerdictIsCurrent
<1> DEFINE Current(r) ==
          /\ reports'[r].version = canon
          /\ evidence'[r].context = context
          /\ claim # None /\ evidence'[r].claim = claim.id
          /\ LoreReport(r)' => pinned # {} /\ evidence'[r].settings = pinned
          /\ ~LoreReport(r)' => evidence'[r].settings = {}
<1>1. ASSUME Verdicts, [ReviewNext]_reviewVars,
             NEW r \in ReportIds, reports[r] = None, reports'[r] # None
      PROVE  Current(r)
  <2>1. RowsAreFunctions /\ LorePinned
    BY <1>1 DEF Verdicts
  <2>2. PICK c \in Coordinators, q \in ReportIds : Writing(c, q)
    BY <1>1, WhoWrites
  <2>3. q = r
    BY <1>1, <2>1, <2>2, WhatIsWritten
  <2>4. /\ reports'[r].version = st.version /\ canon = st.version
        /\ reports'[r].stage = ExpectedStage(st)
        /\ evidence'[r] = [claim |-> coord[c].held.id, context |-> coord[c].held.context,
                           settings |-> coord[c].held.settings]
        /\ HoldsClaim(c) /\ Key(coord[c].held) = CurrentKey
    BY <2>1, <2>2, <2>3, WhatIsWritten
  <2>5. /\ claim # None /\ claim.id = coord[c].held.id /\ claim.stage = ExpectedStage(st)
        /\ coord[c].held.context = context
        /\ coord[c].held.settings = SettingsRead(ExpectedStage(st))
    BY <2>4 DEF HoldsClaim, Claimed, Key, CurrentKey
  <2>6. LoreReport(r)' <=> ExpectedStage(st) = "lore"
    BY <1>1, <2>4 DEF LoreReport
  <2>7. IF LoreReport(r)' THEN pinned # {} /\ evidence'[r].settings = pinned
                          ELSE evidence'[r].settings = {}
    BY <2>1, <2>4, <2>5, <2>6 DEF LorePinned, SettingsRead
  <2> QED
    BY <2>4, <2>5, <2>7
<1>2. ASSUME Verdicts, [ReviewNext]_reviewVars PROVE pinned # {} => pinned' = pinned
  BY <1>2, PinStays DEF Verdicts
<1>3. Verdicts /\ [ReviewNext]_reviewVars =>
        /\ pinned # {} => pinned' = pinned
        /\ \A r \in ReportIds : reports[r] = None /\ reports'[r] # None => Current(r)
  BY <1>1, <1>2
<1> QED
  BY <1>3, VerdictInvariant, PTL DEF ReviewSpec, VerdictIsCurrent

-----------------------------------------------------------------------------
(* The panels.                                                              *)

PanelRow ==
    [binding : PairRow \cup {None}, version : Nat, goal : Goals \cup {None},
     key : Keys \cup {None}, status : {"running", "completed", "lost"}]

PanelTypeOK == pairs \in Seq(PairRow) /\ panels \in Seq(PanelRow)

DueIsCurrent == Due => canon = st.version

RowsAreBound ==
    \A r \in ReportIds : reports[r] # None /\ reports[r].version = st.version =>
        st.report[reports[r].stage] = r

(* Where a run may stand whose text has been ready.                         *)
AfterReady == Finalized \cup {"REVIEW_REVISION", "CANCELLED"}

ReadyIsBehind ==
    /\ \A i \in DOMAIN pairs :
          /\ pairs[i].version <= st.version
          /\ pairs[i].version = st.version => Phase(st) \in AfterReady
    /\ \A i, j \in DOMAIN pairs : pairs[i].version = pairs[j].version => i = j

BoundToPairs ==
    \A i \in DOMAIN panels : panels[i].binding # None =>
        \E n \in DOMAIN pairs : panels[i].binding = pairs[n] /\ panels[i].version = pairs[n].version

StandsOnLast == Phase(st) \in Finalized => pairs # <<>> /\ pairs[Len(pairs)] = PairOf(st)

PairHasPanel ==
    Mode = "on" => \A n \in DOMAIN pairs :
        \E i \in DOMAIN panels : \A j \in DOMAIN panels :
            /\ i = j <=> (panels[j].binding = pairs[n])
            /\ i = j => panels[j].version = pairs[n].version

StartInv ==
    /\ IInv
    /\ PanelTypeOK
    /\ DueIsCurrent
    /\ RowsAreBound
    /\ ReadyIsBehind
    /\ PairsValid
    /\ BoundToPairs
    /\ StandsOnLast
    /\ PairHasPanel
    /\ NoTwins

-----------------------------------------------------------------------------
(* The reviews as the services execute them.  Most of their transactions    *)
(* are edges of the run or leave it alone; three join two edges in one.     *)

(* A passed last stage, or its accepted warning, releases at once; and the  *)
(* author's revision writes the version that it binds.                      *)
PassedIsReleased(r) ==
    /\ CanRecordReview(st, "lore")
    /\ NewReport(r, "lore", "passed")
    /\ st' = FinalizeReady(RecordPassed(st, "lore", r))
    /\ UNCHANGED <<canon, actions>>

AcceptedIsReleased ==
    /\ st.status = "LORE_FINAL_REVIEW"
    /\ CurrentGate("review_warning")
    /\ ResolveRow("approved")
    /\ st' = FinalizeReady(AcceptWarning(st))
    /\ UNCHANGED <<canon, reports>>

RevisedAtOnce ==
    /\ canon < MaxVersion
    /\ canon' = canon + 1
    /\ CanSubmitReviewRevision(st, canon + 1)
    /\ st' = NewVersionForReview(st, canon + 1)
    /\ UNCHANGED <<reports, actions>>

Joined == (\E r \in ReportIds : PassedIsReleased(r)) \/ AcceptedIsReleased \/ RevisedAtOnce

(* Only the last stage ends the review: before it no report of it is bound. *)
LEMMA OnlyLoreEnds ==
    ASSUME NEW s \in State, ValidState(s)
    PROVE  /\ \A r \in ReportIds :
                CanRecordReview(s, ExpectedStage(s)) /\ ReviewEnds(RecordPassed(s, ExpectedStage(s), r))
                  => ExpectedStage(s) = "lore"
           /\ s.kind = "review_warning" /\ ReviewEnds(AcceptWarning(s)) => s.status = "LORE_FINAL_REVIEW"
<1>1. ASSUME NEW r \in ReportIds, CanRecordReview(s, ExpectedStage(s)),
             ReviewEnds(RecordPassed(s, ExpectedStage(s), r))
      PROVE  ExpectedStage(s) = "lore"
  <2>1. /\ s.status \in ReviewStatus /\ Phase(s) = s.status
        /\ ExpectedStage(s) \in Stage
    BY <1>1 DEF CanRecordReview, ReviewStatus, Phase, ExpectedStage, Stage
  <2>2. HasReport(RecordPassed(s, ExpectedStage(s), r), "lore")
    BY <1>1 DEF ReviewEnds
  <2>3. HasReport(s, "lore") \/ ExpectedStage(s) = "lore"
    BY <2>1, <2>2 DEF HasReport, RecordPassed, State
  <2> QED
    BY <2>1, <2>3 DEF ValidState, PhaseBound, ReviewStatus, ExpectedStage
<1>2. ASSUME s.kind = "review_warning", ReviewEnds(AcceptWarning(s))
      PROVE  s.status = "LORE_FINAL_REVIEW"
  <2>1. s.status \in ReviewStatus /\ Phase(s) = s.status
    BY <1>2, KindPlace DEF Phase, ReviewStatus
  <2>2. HasReport(s, "lore")
    BY <1>2 DEF ReviewEnds, AcceptWarning, WithoutAction, HasReport, State
  <2> QED
    BY <2>1, <2>2 DEF ValidState, PhaseBound, ReviewStatus
<1> QED
  BY <1>1, <1>2

(* A verdict is written by an edge of the run, alone or with the release.   *)
LEMMA PersistingSteps ==
    ASSUME IInv, NEW c \in Coordinators, NEW r \in ReportIds
    PROVE  /\ PersistPassed(c, r) => Next \/ Joined
           /\ \A a \in ActionIds : PersistWarning(c, r, a) \/ PersistBlocking(c, r, a) => Next
<1> DEFINE g == ExpectedStage(st)
           s == RecordPassed(st, g, r)
<1>0. st \in State /\ ValidState(st)
  BY DEF IInv, TypeOK, CheckpointsReadable
<1>1. ASSUME PersistPassed(c, r) PROVE Next \/ Joined
  <2>1. /\ CanRecordReview(st, g) /\ NewReport(r, g, "passed")
        /\ canon' = canon /\ actions' = actions
        /\ st' = IF ReviewEnds(s) THEN FinalizeReady(s) ELSE s
    BY <1>1 DEF PersistPassed, Persisting, AfterReview, Checkpoint
  <2>2. CASE ReviewEnds(s)
    <3>1. g = "lore"
      BY <1>0, <2>1, <2>2, OnlyLoreEnds
    <3>2. PassedIsReleased(r)
      BY <2>1, <2>2, <3>1 DEF PassedIsReleased
    <3> QED
      BY <3>2 DEF Joined
  <2>3. CASE ~ReviewEnds(s)
    <3>1. RecordPassedReview(r)
      BY <2>1, <2>3 DEF RecordPassedReview
    <3> QED
      BY <3>1 DEF Next
  <2> QED
    BY <2>2, <2>3
<1>2. ASSUME NEW a \in ActionIds, PersistWarning(c, r, a) PROVE Next
  <2>1. RecordWarningReview(r, a)
    BY <1>2 DEF PersistWarning, Persisting, CanPersist, ReviewOpen, Checkpoint, RecordWarningReview,
       RecordFindings
  <2> QED
    BY <2>1 DEF Next
<1>3. ASSUME NEW a \in ActionIds, PersistBlocking(c, r, a) PROVE Next
  <2>1. RecordBlockingReview(r, a)
    BY <1>3 DEF PersistBlocking, Persisting, CanPersist, ReviewOpen, Checkpoint, RecordBlockingReview,
       RecordFindings
  <2> QED
    BY <2>1 DEF Next
<1> QED
  BY <1>1, <1>2, <1>3

(* Every transaction of the review is one of these, or none of the run's.   *)
LEMMA ReviewSteps ==
    ASSUME IInv, [ReviewNext]_reviewVars
    PROVE  Next \/ Joined \/ UNCHANGED vars
<1>0. st \in State /\ ValidState(st)
  BY DEF IInv, TypeOK, CheckpointsReadable
<1>1. ASSUME NEW c \in Coordinators, NEW r \in ReportIds,
             PersistPassed(c, r) \/ \E a \in ActionIds : PersistWarning(c, r, a) \/ PersistBlocking(c, r, a)
      PROVE  Next \/ Joined
  BY <1>1, PersistingSteps
<1>2. ASSUME NEW c \in Coordinators, FailReview(c) PROVE Next
  <2>1. FailRun("provider")
    BY <1>2 DEF FailReview, CanFailReview, Checkpoint, FailRun, Move
  <2> QED
    BY <2>1 DEF Next, FailureClass
<1>3. ASSUME NEW c \in Coordinators,
             \/ ClaimReview(c) \/ Crash(c) \/ ReleaseClaim(c) \/ Refuse(c)
             \/ \E answer \in Answer : ProviderReturns(c, answer)
      PROVE  UNCHANGED vars
  BY <1>3 DEF ClaimReview, Crash, ReleaseClaim, Refuse, ProviderReturns, vars
<1>4. CASE RecoverFailedClaim
  <2>1. Recover
    BY <1>4 DEF RecoverFailedClaim, Recover, CanRecover, Checkpoint, Move, ReviewStatus, Finalized
  <2> QED
    BY <2>1 DEF Next
<1>5. CASE AcceptReview
  <2>1. /\ CurrentGate("review_warning") /\ st.kind = "review_warning"
        /\ ResolveRow("approved") /\ canon' = canon /\ reports' = reports
        /\ st' = IF ReviewEnds(AcceptWarning(st)) THEN FinalizeReady(AcceptWarning(st))
                                                  ELSE AcceptWarning(st)
    BY <1>5 DEF AcceptReview, AfterReview, Checkpoint, CurrentGate, Gate
  <2>2. CASE ReviewEnds(AcceptWarning(st))
    <3>1. AcceptedIsReleased
      BY <1>0, <2>1, <2>2, OnlyLoreEnds DEF AcceptedIsReleased
    <3> QED
      BY <3>1 DEF Joined
  <2>3. CASE ~ReviewEnds(AcceptWarning(st))
    <3>1. AcceptReviewWarning
      BY <2>1, <2>3 DEF AcceptReviewWarning
    <3> QED
      BY <3>1 DEF Next
  <2> QED
    BY <2>2, <2>3
<1>6. CASE RequestRevisionOfReview
  <2>1. RequestReviewRevision
    BY <1>6 DEF RequestRevisionOfReview, RequestReviewRevision, Checkpoint
  <2> QED
    BY <2>1 DEF Next
<1>7. CASE SelectRevision
  <2>1. RequestSelectedReviewRevision
    BY <1>7 DEF SelectRevision, RequestSelectedReviewRevision, Checkpoint, Move
  <2> QED
    BY <2>1 DEF Next
<1>8. CASE ReviseCandidate
  BY <1>8 DEF ReviseCandidate, Checkpoint, RevisedAtOnce, Joined
<1>9. CASE AuthorStep \/ EditDraft
  BY <1>9 DEF AuthorStep, EditDraft, Next
<1>10. CASE AcknowledgeNoWrite \/ EditContext \/ EditSettings \/ UNCHANGED reviewVars
  BY <1>10 DEF AcknowledgeNoWrite, EditContext, EditSettings, Checkpoint, reviewVars, vars
<1> QED
  BY <1>1, <1>2, <1>3, <1>4, <1>5, <1>6, <1>7, <1>8, <1>9, <1>10 DEF ReviewNext, CoordinatorStep

(* What a joined step leaves in the checkpoint.                             *)
LEMMA JoinedEdges ==
    ASSUME IInv, Joined
    PROVE  /\ st' \in State /\ ValidState(st')
           /\ st'.action = None
           /\ RevisedAtOnce => ReplaceStep /\ st.status = "REVIEW_REVISION" /\ st'.status = "EDITOR_REVIEW"
           /\ AcceptedIsReleased => KeepStep /\ st'.status = "REVISION_READY"
           /\ \A r \in ReportIds : PassedIsReleased(r) =>
                 BindStep(r, "passed") /\ st'.status = "REVISION_READY"
<1>0. /\ st \in State /\ ValidState(st) /\ st.version \in Nat /\ canon \in Nat /\ st.version <= canon
  BY VersionBound DEF IInv, TypeOK, CheckpointsReadable, State, VersionsBehind
<1>1. ASSUME NEW mid \in State, ValidState(mid), ~Awaiting(mid), HasReport(mid, "lore"),
             mid.status = "LORE_FINAL_REVIEW", st' = FinalizeReady(mid)
      PROVE  /\ st' \in State /\ ValidState(st')
             /\ st'.action = None /\ st'.status = "REVISION_READY"
             /\ SameCandidate(mid, st')
  <2>1. st' \in State /\ ValidState(st')
    BY <1>1, FinalizingValid DEF FinalizeReady, Finalized
  <2>2. st'.action = None /\ st'.status = "REVISION_READY" /\ SameCandidate(mid, st')
    BY <1>1 DEF FinalizeReady, Awaiting, SameCandidate, State
  <2> QED
    BY <2>1, <2>2
<1>2. ASSUME NEW r \in ReportIds, PassedIsReleased(r)
      PROVE  /\ st' \in State /\ ValidState(st')
             /\ st'.action = None /\ st'.status = "REVISION_READY"
             /\ BindStep(r, "passed")
  <2>1. PICK mid : mid = RecordPassed(st, "lore", r)
    OBVIOUS
  <2>2. /\ st.status = "LORE_FINAL_REVIEW" /\ ExpectedStage(st) = "lore" /\ ~Awaiting(st)
        /\ CanRecordReview(st, "lore")
    BY <1>2 DEF PassedIsReleased, CanRecordReview, ExpectedStage, ReviewStatus
  <2>3. mid \in State /\ ValidState(mid)
    BY <1>0, <2>1, <2>2, RecordPassedValid
  <2>4. OneMoreReport(st, mid, "lore", r)
    BY <1>0, <2>1, BindsReport
  <2>5. ~Awaiting(mid) /\ mid.status = "LORE_FINAL_REVIEW"
    BY <1>0, <2>1, <2>2 DEF RecordPassed, NextReviewStatus, Awaiting, State
  <2>6. HasReport(mid, "lore")
    BY <1>0, <2>4, NoneAssumption DEF OneMoreReport, HasReport, State, Stage
  <2>7. st' = FinalizeReady(mid)
    BY <1>2, <2>1 DEF PassedIsReleased
  <2>8. /\ st' \in State /\ ValidState(st')
        /\ st'.action = None /\ st'.status = "REVISION_READY" /\ SameCandidate(mid, st')
    BY <1>1, <2>3, <2>5, <2>6, <2>7
  <2>9. OneMoreReport(st, st', "lore", r)
    BY <2>4, <2>8 DEF OneMoreReport, SameCandidate
  <2> QED
    BY <1>2, <2>2, <2>8, <2>9 DEF PassedIsReleased, BindStep
<1>3. ASSUME AcceptedIsReleased
      PROVE  /\ st' \in State /\ ValidState(st')
             /\ st'.action = None /\ st'.status = "REVISION_READY"
             /\ KeepStep
  <2>1. PICK mid : mid = WithoutAction(st, "LORE_FINAL_REVIEW")
    OBVIOUS
  <2>2. /\ st.kind = "review_warning" /\ st.status = "LORE_FINAL_REVIEW"
        /\ NextReviewStatus(st) = "LORE_FINAL_REVIEW"
    BY <1>3 DEF AcceptedIsReleased, CurrentGate, Gate, NextReviewStatus
  <2>3. mid \in State /\ ValidState(mid)
    BY <1>0, <2>1, <2>2, WithoutActionValid DEF Status, Working, ReviewStatus
  <2>4. SameCandidate(st, mid)
    BY <1>0, <2>1, KeepsCandidate
  <2>5. ~Awaiting(mid) /\ mid.status = "LORE_FINAL_REVIEW"
    BY <1>0, <2>1 DEF WithoutAction, Awaiting, State
  <2>6. HasReport(mid, "lore")
    BY <1>0, <2>2, <2>4, KindPlace DEF SameCandidate, HasReport, ExpectedStage
  <2>7. st' = FinalizeReady(mid)
    BY <1>3, <2>1, <2>2 DEF AcceptedIsReleased, AcceptWarning
  <2>8. /\ st' \in State /\ ValidState(st')
        /\ st'.action = None /\ st'.status = "REVISION_READY" /\ SameCandidate(mid, st')
    BY <1>1, <2>3, <2>5, <2>6, <2>7
  <2>9. KeepStep
    BY <1>0, <1>3, <2>4, <2>8 DEF AcceptedIsReleased, KeepStep, SameCandidate
  <2> QED
    BY <2>2, <2>8, <2>9
<1>4. ASSUME RevisedAtOnce
      PROVE  /\ st' \in State /\ ValidState(st') /\ st'.action = None
             /\ ReplaceStep /\ st.status = "REVIEW_REVISION" /\ st'.status = "EDITOR_REVIEW"
  <2>1. st' = NewVersionForReview(st, canon') /\ canon' = canon + 1 /\ reports' = reports
        /\ st.status = "REVIEW_REVISION"
    BY <1>4 DEF RevisedAtOnce, CanSubmitReviewRevision
  <2>2. st' \in State /\ ValidState(st')
    BY <1>0, <2>1, NewVersionValid
  <2>3. st'.action = None /\ st'.status = "EDITOR_REVIEW" /\ FreshCandidate(st, st', canon')
    BY <1>0, <2>1, DropsReports DEF NewVersionForReview, State
  <2> QED
    BY <1>0, <2>1, <2>2, <2>3 DEF ReplaceStep
<1> QED
  BY <1>2, <1>3, <1>4 DEF Joined

(* A joined step preserves the inductive invariant of the run.              *)
LEMMA JoinedKeepsIInv ==
    ASSUME IInv, Joined
    PROVE  IInv'
<1>0. /\ TypeOK /\ VersionsBehind /\ BlockedIsReworked /\ GateMatchesRows /\ ReportsMatchCandidate
      /\ canon \in Nat /\ MaxVersion \in Nat /\ canon <= MaxVersion
  BY VersionBound DEF IInv, TypeOK
<1>1. st' \in State /\ ValidState(st') /\ st'.action = None
  BY JoinedEdges
<1>2. Shaped
  BY JoinedEdges DEF Joined, Shaped, Outcome
<1>3. canon' \in 0 .. MaxVersion /\ canon' \in Nat
  BY <1>0 DEF Joined, PassedIsReleased, AcceptedIsReleased, RevisedAtOnce
<1>4. reports' \in [ReportIds -> ReportRow \cup {None}]
  <2>1. ASSUME NEW r \in ReportIds, NewReport(r, "lore", "passed") PROVE reports' \in [ReportIds -> ReportRow \cup {None}]
    <3>1. [stage |-> "lore", version |-> st.version, outcome |-> "passed"] \in ReportRow
      BY <1>0 DEF TypeOK, State, ReportRow, Stage, Outcome
    <3> QED
      BY <1>0, <2>1, <3>1 DEF NewReport, TypeOK
  <2> QED
    BY <1>0, <2>1 DEF Joined, PassedIsReleased, AcceptedIsReleased, RevisedAtOnce, TypeOK
<1>5. actions' \in [ActionIds -> ActionRow \cup {None}] /\ GateMatchesRows'
  <2>1. CASE AcceptedIsReleased
    <3>1. /\ Gate("review_warning") /\ ResolveRow("approved")
      BY <2>1 DEF AcceptedIsReleased, CurrentGate
    <3>2. GateMatchesRows'
      BY <1>0, <1>1, <3>1, GateResolved
    <3>3. st.action \in ActionIds /\ actions[st.action] \in ActionRow
      BY <1>0, <3>1 DEF Gate, TypeOK, State, Pending
    <3>4. [actions[st.action] EXCEPT !.status = "approved"] \in ActionRow
      BY <3>3 DEF ActionRow
    <3>5. actions' \in [ActionIds -> ActionRow \cup {None}]
      BY <1>0, <3>1, <3>3, <3>4 DEF ResolveRow, TypeOK
    <3> QED
      BY <3>2, <3>5
  <2>2. CASE ~AcceptedIsReleased
    <3>1. actions' = actions /\ ~Awaiting(st)
      BY <2>2 DEF Joined, PassedIsReleased, RevisedAtOnce, CanRecordReview, CanSubmitReviewRevision
    <3> QED
      BY <1>0, <1>1, <3>1, GateUntouched DEF Awaiting, TypeOK
  <2> QED
    BY <2>1, <2>2
<1>6. BlockedIsReworked'
  <2>1. CASE AcceptedIsReleased
    <3>1. KeepStep /\ Phase(st) \notin {"REVIEW_REVISION", "CANCELLED"}
      BY <2>1, JoinedEdges DEF AcceptedIsReleased, Phase
    <3> QED
      BY <1>0, <3>1 DEF BlockedIsReworked, KeepStep, SameCandidate
  <2>2. CASE ~AcceptedIsReleased
    <3>1. ReplaceStep \/ \E r \in ReportIds, outcome \in Outcome : BindStep(r, outcome)
      BY <2>2, JoinedEdges DEF Joined, Outcome
    <3> QED
      BY <1>0, <1>3, <3>1, BlockedByShape
  <2> QED
    BY <2>1, <2>2
<1>7. VersionsBehind' /\ ReportsMatchCandidate'
  BY <1>0, <1>2, <1>3, VersionsStayBehind, ReportsStayMatched
<1> QED
  BY <1>1, <1>3, <1>4, <1>5, <1>6, <1>7 DEF IInv, TypeOK, CheckpointsReadable

(* A joined step is one step of the release gate: the last approval and the *)
(* release together, or the next candidate.                                 *)
LEMMA JoinedIsAbstract ==
    ASSUME IInv, IInv', Joined
    PROVE  Abstract!Next
<1>0. /\ st \in State /\ ValidState(st) /\ st' \in State /\ ValidState(st')
      /\ st.version \in Nat /\ st'.version \in Nat
      /\ NoneBlocks(st, reports) /\ NoneBlocks(st', reports')
  BY NoBoundReportBlocks DEF IInv, TypeOK, CheckpointsReadable, State
<1>1. CASE RevisedAtOnce
  <2>1. /\ ReplaceStep /\ st.status = "REVIEW_REVISION" /\ st'.status = "EDITOR_REVIEW"
    BY <1>1, JoinedEdges
  <2>2. /\ st'.version > st.version /\ Approved(st', reports') = {}
        /\ RequiredStages(st') = RequiredStages(st)
    BY <2>1, <1>1 DEF RevisedAtOnce, ReplaceStep, FreshCandidate, NoReports, Approved, HasReport,
       RequiredStages
  <2>3. GatePhase(st) = "rework" /\ GatePhase(st') = "review" /\ st.version # 0
    BY <1>0, <2>1, GatePhases DEF Phase, ValidState, PhaseBound, NoVersion
  <2>4. Abstract!ReplaceCandidate
    BY <1>0, <2>2, <2>3 DEF Abstract!ReplaceCandidate, Abstract!NewCandidate
  <2> QED
    BY <2>4 DEF Abstract!Next
<1>2. CASE AcceptedIsReleased \/ \E r \in ReportIds : PassedIsReleased(r)
  <2>1. /\ st.status = "LORE_FINAL_REVIEW" /\ Phase(st) = "LORE_FINAL_REVIEW"
        /\ st'.status = "REVISION_READY" /\ Phase(st') = "REVISION_READY"
    BY <1>2, JoinedEdges
    DEF AcceptedIsReleased, PassedIsReleased, CanRecordReview, ExpectedStage, ReviewStatus, Phase
  <2>2. /\ RequiredStages(st') = RequiredStages(st) /\ st'.version = st.version
    BY <1>2, JoinedEdges DEF KeepStep, BindStep, SameCandidate, OneMoreReport, RequiredStages
  <2>3. \A h \in Stage : HasReport(st', h) <=> h \in RequiredStages(st)
    BY <1>0, <2>1, <2>2 DEF ValidState, PhaseBound, ReportOrder, RequiredStages, Stage, Finalized
  <2>4. /\ ~Awaiting(st') /\ Approved(st', reports') = RequiredStages(st)
    <3>1. ~Awaiting(st')
      BY <1>0, <2>1 DEF ValidState, PhaseBound, Finalized
    <3>2. Approved(st', reports') = {h \in Stage : HasReport(st', h)}
      BY <1>0, <2>1, <3>1, ApprovedStages DEF Finalized
    <3> QED
      BY <2>3, <3>1, <3>2 DEF RequiredStages
  <2>5. /\ RequiredStages(st) \ {"lore"} \subseteq Approved(st, reports)
        /\ Approved(st, reports) \subseteq RequiredStages(st)
        /\ "lore" \in RequiredStages(st)
    <3>1. Approved(st, reports) =
             {h \in Stage : HasReport(st, h) /\ ~(Awaiting(st) /\ h = ExpectedStage(st))}
      BY <1>0, <2>1, ApprovedStages DEF ReviewStatus
    <3>2. \A h \in Stage : HasReport(st, h) \/ h \notin RequiredStages(st) \ {"lore"}
      BY <1>0, <2>1 DEF ValidState, PhaseBound
    <3>3. ExpectedStage(st) = "lore"
      BY <2>1 DEF ExpectedStage
    <3>4. \A h \in Stage : HasReport(st, h) => h \in RequiredStages(st)
      BY <1>0, <2>1 DEF ValidState, ReportOrder, RequiredStages, Stage
    <3> QED
      BY <3>1, <3>2, <3>3, <3>4 DEF RequiredStages, Stage
  <2>6. GatePhase(st) = "review" /\ GatePhase(st') = "released"
    BY <2>1, GatePhases
  <2>7. CASE "lore" \in Approved(st, reports)
    <3>1. Approved(st, reports) = RequiredStages(st)
      BY <2>5, <2>7
    <3>2. Abstract!Release
      BY <2>2, <2>4, <2>6, <3>1 DEF Abstract!Release
    <3> QED
      BY <3>2 DEF Abstract!Next
  <2>8. CASE "lore" \notin Approved(st, reports)
    <3>1. /\ RequiredStages(st) = Approved(st, reports) \cup {"lore"}
          /\ Abstract!Before("lore") \cap RequiredStages(st) \subseteq Approved(st, reports)
      BY <2>5 DEF Abstract!Before
    <3>2. Abstract!Approve("lore")
      BY <2>2, <2>4, <2>5, <2>6, <2>8, <3>1 DEF Abstract!Approve
    <3> QED
      BY <2>5, <3>2 DEF Abstract!Next
  <2> QED
    BY <2>7, <2>8
<1> QED
  BY <1>1, <1>2 DEF Joined

(* Whatever the coordinators, the author and the operator do between the    *)
(* transactions of a review, the run's invariant holds: what is proved of   *)
(* every state of the run is proved of the reviews.                         *)
THEOREM ReviewedRunKeepsItsInvariant == ReviewSpec => []IInv
<1>1. ReviewInit => IInv
  BY InitialIInv DEF ReviewInit
<1>2. IInv /\ [ReviewNext]_reviewVars => IInv'
  <2> SUFFICES ASSUME IInv, [ReviewNext]_reviewVars PROVE IInv'
    OBVIOUS
  <2>1. Next \/ Joined \/ UNCHANGED vars
    BY ReviewSteps
  <2> QED
    BY <2>1, IInvStep, JoinedKeepsIInv
<1> QED
  BY <1>1, <1>2, PTL DEF ReviewSpec

(* The split reviews implement the release gate: claims, late answers,      *)
(* crashes and acknowledgements are no steps of it, and the transaction     *)
(* that binds the last report and releases is one.                          *)
THEOREM SplitReviewsImplementReleaseGate == ReviewSpec => ImplementsReleaseGate
<1>1. ReviewInit => Abstract!Init
  BY GateInitial DEF ReviewInit
<1>2. IInv /\ IInv' /\ [ReviewNext]_reviewVars => [Abstract!Next]_(Abstract!vars)
  <2> SUFFICES ASSUME IInv, IInv', [ReviewNext]_reviewVars
               PROVE  Abstract!Next \/ UNCHANGED Abstract!vars
    OBVIOUS
  <2>1. Next \/ Joined \/ UNCHANGED vars
    BY ReviewSteps
  <2>2. Next => Keeping \/ Replacing \/ Binding
    BY DEF Next, Keeping, Replacing, Binding
  <2>3. UNCHANGED vars => UNCHANGED Abstract!vars
    BY DEF vars, Abstract!vars
  <2> QED
    BY <2>1, <2>2, <2>3, JoinedIsAbstract, KeepingIsAbstract, ReplacingIsAbstract, BindingIsAbstract
<1> QED
  BY <1>1, <1>2, ReviewedRunKeepsItsInvariant, PTL DEF ReviewSpec, ImplementsReleaseGate, Abstract!Spec

-----------------------------------------------------------------------------
(* The composition takes the steps of the run only.                         *)
LEMMA StepOfRun == [StartNext]_panelStartVars => [Next]_vars
BY DEF StartNext, ChapterStep, PanelStep, StartManual, End, panelStartVars, vars

(* A run whose panels are started is a run (the service calls the machine,  *)
(* the panels only add to it), so what is proved of every run is proved of  *)
(* it: its checkpoints can be read, its gate is its row, its reviews are of *)
(* its text, and it implements the release gate.                            *)
THEOREM StartedRunIsARun ==
    StartSpec => Spec /\ []TypeOK /\ []CheckpointsReadable /\ []GateMatchesRows
                      /\ []ReportsMatchCandidate /\ ImplementsReleaseGate
<1>1. StartInit => Init
  BY DEF StartInit
<1>2. StartSpec => Spec
  BY <1>1, StepOfRun, PTL DEF StartSpec, Spec
<1> QED
  BY <1>2, TypeCorrect, CheckpointsAreReadable, OneGate, ReviewsAreForTheCandidate,
     RunImplementsReleaseGate, PTL

-----------------------------------------------------------------------------
(* Where an edge that keeps the candidate leads.                            *)
LEMMA KeepingPhases ==
    ASSUME TypeOK, CheckpointsReadable, Keeping
    PROVE  \/ Phase(st') = Phase(st)
           \/ Phase(st) = "AUTHOR_REVISION" /\ Phase(st') \in {"EDITOR_REVIEW", "DRAFTING", "CANCELLED"}
           \/ Phase(st) \in ReviewStatus /\ Phase(st') \in ReviewStatus \cup {"REVIEW_REVISION", "CANCELLED"}
           \/ Phase(st) \in Finalized /\ Phase(st') \in AfterReady
           \/ Phase(st) = "REVIEW_REVISION" /\ Phase(st') = "CANCELLED"
           \/ Due /\ st' = FinalizeReady(st)
<1>0. st \in State /\ ValidState(st)
  BY DEF TypeOK, CheckpointsReadable
<1>1. CASE AcceptDraft \/ RequestDraftRevision
  <2>1. st.status = "AUTHOR_REVISION" /\ (st' = Accept(st) \/ st' = RequestDraft(st))
    BY <1>0, <1>1, KindPlace DEF AcceptDraft, RequestDraftRevision, CurrentGate, Gate
  <2> QED
    BY <1>0, <2>1 DEF Accept, RequestDraft, WithoutAction, State, Phase
<1>2. CASE AcceptReviewWarning
  <2>1. st.status \in ReviewStatus /\ st' = AcceptWarning(st)
    BY <1>0, <1>2, KindPlace DEF AcceptReviewWarning, CurrentGate, Gate
  <2> QED
    BY <1>0, <2>1 DEF AcceptWarning, WithoutAction, NextReviewStatus, ReviewStatus, State, Phase
<1>3. CASE RequestReviewRevision
  <2>1. st.status \in ReviewStatus \cup {"REVIEW_REVISION"} /\ st' = RequestRevision(st)
    BY <1>0, <1>3, KindPlace DEF RequestReviewRevision, CurrentGate, Gate
  <2> QED
    BY <1>0, <2>1 DEF RequestRevision, WithoutAction, ReviewStatus, State, Phase
<1>4. CASE CancelRun
  <2>1. st.status \in ReviewStatus \cup {"AUTHOR_REVISION", "REVIEW_REVISION"} /\ st' = Cancel(st)
    BY <1>0, <1>4, KindPlace DEF CancelRun, CurrentGate, Gate, ActionKind
  <2> QED
    BY <1>0, <2>1 DEF Cancel, WithoutAction, ReviewStatus, State, Phase
<1>5. CASE RequestSelectedReviewRevision \/ BeginArchiveUpdate \/ CompleteRun
  <2>1. /\ st.status \in {"REVISION_READY", "ARCHIVE_UPDATE"}
        /\ st' \in {SelectReviewRevision(st), BeginArchive(st), Complete(st)}
    BY <1>5 DEF RequestSelectedReviewRevision, BeginArchiveUpdate, CompleteRun,
       CanSelectReviewRevision, CanBeginArchive, CanComplete, Move
  <2> QED
    BY <1>0, <2>1 DEF SelectReviewRevision, BeginArchive, Complete, WithoutAction, State, Phase,
       AfterReady, Finalized
<1>6. CASE FinalizeRevisionReady
  BY <1>6 DEF FinalizeRevisionReady, CanFinalizeReady, LiveReady, Due, Move
<1>7. CASE (\E class \in FailureClass : FailRun(class)) \/ Recover \/ RecoverFinalized
           \/ ReconcileNoWrite
  <2>1. PICK class : \/ st' = Fail(st, class) /\ st.status \in Working
                     \/ st' = Resume(st) /\ st.status = "FAILED"
    BY <1>7 DEF FailRun, CanFail, Recover, CanRecover, RecoverFinalized, CanRecoverFinalized,
       ReconcileNoWrite, CanReconcileNoWrite, Move
  <2>2. st.status = "FAILED" => st.failedFrom \in Working
    BY <1>0 DEF ValidState, FailureBound
  <2> QED
    BY <1>0, <2>1, <2>2 DEF Fail, Resume, State, Phase, Working, ReviewStatus
<1>8. CASE WriteVersion
  BY <1>8 DEF WriteVersion
<1> QED
  BY <1>1, <1>2, <1>3, <1>4, <1>5, <1>6, <1>7, <1>8 DEF Keeping

(* A review leaves the run in a review, or in revision.                     *)
LEMMA BindingPhases ==
    ASSUME TypeOK, Binding
    PROVE  /\ Phase(st) \in ReviewStatus
           /\ Phase(st') \in ReviewStatus \cup {"REVIEW_REVISION"}
           /\ st'.status # "REVISION_READY"
<1>0. st \in State
  BY DEF TypeOK
<1>1. st.status \in ReviewStatus
  BY DEF Binding, RecordPassedReview, RecordWarningReview, RecordBlockingReview, RecordFindings,
     CanRecordReview
<1>2. PICK r \in ReportIds : \E a : st' \in
         {RecordPassed(st, ExpectedStage(st), r), RecordWarning(st, ExpectedStage(st), r, a),
          RecordBlocking(st, ExpectedStage(st), r, a)}
  BY DEF Binding, RecordPassedReview, RecordWarningReview, RecordBlockingReview, RecordFindings
<1>3. st'.status \in ReviewStatus \cup {"REVIEW_REVISION"}
  BY <1>0, <1>1, <1>2 DEF RecordPassed, RecordWarning, RecordBlocking, NextReviewStatus, ReviewStatus, State
<1> QED
  BY <1>1, <1>3 DEF Phase, ReviewStatus

(* A replaced text starts again, at the author's gate or at the editor.     *)
LEMMA ReplacingPhases ==
    ASSUME TypeOK, Replacing
    PROVE  st'.status \in {"AUTHOR_REVISION", "EDITOR_REVIEW"}
<1>0. st \in State
  BY DEF TypeOK
<1>1. \E v, a : st' \in {NewVersionForReview(st, v), AuthorGate(st, v, a)}
  BY DEF Replacing, SubmitDraftFor, SubmitDraft, ReconcileCommittedDraft, SubmitManualEdit,
     ReconcileStaleAction, SubmitReviewRevision, InvalidateForNewVersion, ReconcileCommittedVersion, Move
<1> QED
  BY <1>0, <1>1 DEF NewVersionForReview, AuthorGate, State

(* Report rows are written once; a new one is for the candidate in review.  *)
LEMMA RowsStay ==
    ASSUME TypeOK, CheckpointsReadable, VersionsBehind, Next
    PROVE  /\ \A r \in ReportIds : reports[r] # None => reports'[r] = reports[r]
           /\ \A r \in ReportIds : reports[r] = None /\ reports'[r] # None =>
                reports'[r].version = st.version /\ Phase(st) \in ReviewStatus
           /\ RequiredStages(st') = RequiredStages(st)
<1>1. CASE Keeping \/ Replacing
  BY <1>1, KeepingSteps, ReplacingSteps
  DEF KeepStep, ReplaceStep, SameCandidate, FreshCandidate, RequiredStages
<1>2. CASE Binding
  <2>1. PICK r \in ReportIds, outcome \in Outcome : BindStep(r, outcome)
    BY <1>2, BindingSteps
  <2> QED
    BY <1>2, <2>1, BindingPhases DEF BindStep, NewReport, OneMoreReport, RequiredStages, TypeOK
<1> QED
  BY <1>1, <1>2 DEF Next, Keeping, Replacing, Binding

(* Where a step of the composed system leads: nowhere after a text was      *)
(* ready but on from there, and into readiness only through Due.            *)
LEMMA ReadyPhases ==
    ASSUME TypeOK, CheckpointsReadable, VersionsBehind, Next
    PROVE  /\ st'.version = st.version /\ Phase(st) \in AfterReady => Phase(st') \in AfterReady
           /\ \/ Phase(st') \notin Finalized
              \/ Phase(st) \in Finalized /\ Keeping
              \/ Due /\ st' = FinalizeReady(st)
<1>0. st.version \in Nat /\ st'.version \in Nat
  BY CheckpointStaysValid DEF TypeOK, State
<1>1. CASE Keeping
  <2>1. Due => Phase(st) = "LORE_FINAL_REVIEW"
    BY DEF Due, Phase
  <2> QED
    BY <1>1, <2>1, KeepingPhases DEF AfterReady, Finalized, ReviewStatus
<1>2. CASE Replacing
  <2>1. st'.version # st.version
    BY <1>0, <1>2, ReplacingSteps DEF ReplaceStep, FreshCandidate
  <2> QED
    BY <1>2, <2>1, ReplacingPhases DEF Phase, Finalized
<1>3. CASE Binding
  BY <1>3, BindingPhases DEF AfterReady, Finalized, ReviewStatus
<1> QED
  BY <1>1, <1>2, <1>3 DEF Next, Keeping, Replacing, Binding

(* The step that makes the run ready writes the checkpoint and nothing else.*)
LEMMA ReadyStep ==
    ASSUME TypeOK, CheckpointsReadable, VersionsBehind, Next, Due, st' = FinalizeReady(st)
    PROVE  /\ st' \in State /\ st'.status = "REVISION_READY"
           /\ SameCandidate(st, st') /\ reports' = reports
<1>0. st \in State /\ st' \in State
  BY CheckpointStaysValid DEF TypeOK
<1>1. st'.status = "REVISION_READY" /\ SameCandidate(st, st')
  BY <1>0, KeepsCandidate DEF FinalizeReady, State
<1>2. ~Replacing /\ ~Binding
  BY <1>1, ReplacingPhases, BindingPhases
<1>3. Keeping
  BY <1>2 DEF Next, Keeping, Replacing, Binding
<1> QED
  BY <1>0, <1>1, <1>3, KeepingSteps DEF KeepStep

-----------------------------------------------------------------------------
(* The parts of the invariant that speak of the run and its rows.           *)
LEMMA DueStaysCurrent ==
    ASSUME IInv, DueIsCurrent, ChapterStep
    PROVE  DueIsCurrent'
<1> USE DEF IInv
<1> SUFFICES ASSUME Due' PROVE canon' = st'.version
  BY DEF DueIsCurrent
<1>1. Next /\ canon = st.version
  BY DEF ChapterStep
<1>2. ~Due
  BY <1>1, ReadyStep DEF ChapterStep, Due
<1>3. CASE Keeping
  <2>1. ~WriteVersion
    BY <1>2 DEF WriteVersion, Due
  <2>2. canon' = canon
    BY <1>3, <2>1 DEF Keeping, AcceptDraft, RequestDraftRevision, CancelRun, AcceptReviewWarning,
       RequestReviewRevision, RequestSelectedReviewRevision, FinalizeRevisionReady,
       BeginArchiveUpdate, CompleteRun, FailRun, Recover, RecoverFinalized, ReconcileNoWrite, Move
  <2> QED
    BY <1>1, <1>3, <2>2, KeepingSteps DEF KeepStep, SameCandidate
<1>4. CASE Replacing
  BY <1>4, ReplacingPhases DEF Due
<1>5. CASE Binding
  BY <1>1, <1>5, BindingSteps DEF BindStep, OneMoreReport
<1> QED
  BY <1>1, <1>3, <1>4, <1>5 DEF Next, Keeping, Replacing, Binding

(* While the last approval is not given, the stage the run waits for has no *)
(* report yet, so a review binds its row beside the others.                 *)
LEMMA RowsStayBound ==
    ASSUME IInv, RowsAreBound, Next, Due => st' = FinalizeReady(st)
    PROVE  RowsAreBound'
<1> USE DEF IInv, TypeOK
<1>0. /\ st \in State /\ ValidState(st) /\ st.version \in Nat
      /\ reports \in [ReportIds -> ReportRow \cup {None}]
  BY DEF CheckpointsReadable, State
<1>1. CASE KeepStep
  BY <1>1 DEF RowsAreBound, KeepStep, SameCandidate
<1>2. CASE ReplaceStep
  <2>1. \A r \in ReportIds : reports'[r] # None => reports'[r].version # st'.version
    BY <1>0, <1>2, VersionBound, RowsTyped DEF ReplaceStep, FreshCandidate, VersionsBehind, ReportRow
  <2> QED
    BY <2>1 DEF RowsAreBound
<1>3. CASE Binding
  <2>1. PICK r \in ReportIds, outcome \in Outcome : BindStep(r, outcome)
    BY <1>3, BindingSteps
  <2> DEFINE g == ExpectedStage(st)
  <2>2. /\ g \in Stage /\ ~Awaiting(st) /\ st.status \in ReviewStatus /\ Phase(st) = st.status
        /\ reports[r] = None
        /\ reports' = [reports EXCEPT ![r] = [stage |-> g, version |-> st.version, outcome |-> outcome]]
        /\ st'.report = [st.report EXCEPT ![g] = r] /\ st'.version = st.version
        /\ st.report \in [Stage -> ReportIds \cup {None}]
    BY <1>0, <2>1 DEF BindStep, OneMoreReport, NewReport, CanRecordReview, ExpectedStage, ReviewStatus,
       Stage, Phase, State
  <2>3. ~Due
    BY <1>3, BindingPhases, ReadyStep
  <2>4. ~HasReport(st, g)
    BY <1>0, <2>2, <2>3 DEF Due, ValidState, PhaseBound, ReviewStatus, ExpectedStage
  <2> SUFFICES ASSUME NEW q \in ReportIds, reports'[q] # None, reports'[q].version = st'.version
               PROVE  st'.report[reports'[q].stage] = q
    BY DEF RowsAreBound
  <2>5. CASE q = r
    BY <2>2, <2>5
  <2>6. CASE q # r
    <3>1. reports'[q] = reports[q] /\ st.report[reports[q].stage] = q /\ reports[q].stage \in Stage
      BY <1>0, <2>2, <2>6 DEF RowsAreBound, ReportRow
    <3>2. reports[q].stage # g
      BY <2>4, <3>1, NoneAssumption DEF HasReport
    <3> QED
      BY <2>2, <3>1, <3>2
  <2> QED
    BY <2>5, <2>6
<1> QED
  BY <1>1, <1>2, <1>3, KeepingSteps, ReplacingSteps DEF Next, Keeping, Replacing, Binding

(* A READY pair keeps exactly its rows.                                     *)
LEMMA PairStaysExact ==
    ASSUME IInv, Next, NEW p \in PairRow, Exact(p), p.version <= st.version,
           p.version = st.version => Phase(st) \in AfterReady
    PROVE  Exact(p)'
<1> USE DEF IInv
<1>1. RowsOf(p.version)' = RowsOf(p.version)
  <2>1. ASSUME NEW r \in ReportIds
        PROVE  r \in RowsOf(p.version)' <=> r \in RowsOf(p.version)
    <3>1. CASE reports[r] # None
      BY <3>1, RowsStay DEF RowsOf
    <3>2. CASE reports[r] = None
      BY <3>2, RowsStay DEF RowsOf, AfterReady, ReviewStatus, Finalized
    <3> QED
      BY <3>1, <3>2
  <2> QED
    BY <2>1 DEF RowsOf
<1>2. \A g \in Stage : p.report[g] # None =>
         p.report[g] \in ReportIds /\ reports[p.report[g]] # None
  BY DEF Exact, BoundRows, RowsOf
<1>3. \A g \in Stage : p.report[g] # None => reports'[p.report[g]] = reports[p.report[g]]
  BY <1>2, RowsStay
<1>4. RequiredStages(st)' = RequiredStages(st)
  BY RowsStay DEF RequiredStages
<1> QED
  BY <1>1, <1>3, <1>4 DEF Exact, BoundRows

(* The candidate of a run that waits to become ready is exact.              *)
LEMMA CandidateIsExact ==
    ASSUME IInv, RowsAreBound, Due
    PROVE  PairOf(st) \in PairRow /\ Exact(PairOf(st))
<1> DEFINE p == PairOf(st)
           bound == BoundRows(p)
           f == [g \in RequiredStages(st) |-> st.report[g]]
<1>0. /\ st \in State /\ ValidState(st) /\ st.report \in [Stage -> ReportIds \cup {None}]
      /\ Phase(st) = "LORE_FINAL_REVIEW" /\ HasReport(st, "lore") /\ ~Awaiting(st)
      /\ p = [version |-> st.version, report |-> st.report]
      /\ reports \in [ReportIds -> ReportRow \cup {None}]
  BY DEF IInv, TypeOK, CheckpointsReadable, State, Due, Phase, PairOf
<1>1. p \in PairRow
  BY <1>0 DEF PairRow, State
<1>2. \A g \in Stage : HasReport(st, g) <=> g \in RequiredStages(st)
  BY <1>0 DEF ValidState, ReportOrder, PhaseBound, RequiredStages, Stage
<1>3. \A g \in Stage : HasReport(st, g) =>
         /\ st.report[g] \in ReportIds /\ reports[st.report[g]] # None
         /\ reports[st.report[g]].stage = g /\ reports[st.report[g]].version = st.version
  BY <1>0 DEF IInv, ReportsMatchCandidate, HasReport
<1>4. bound = {st.report[g] : g \in RequiredStages(st)}
  BY <1>0, <1>2 DEF BoundRows, HasReport, RequiredStages
<1>5. RowsOf(st.version) = bound
  <2>1. ASSUME NEW r \in RowsOf(st.version) PROVE r \in bound
    <3>1. r \in ReportIds /\ reports[r].stage \in Stage /\ st.report[reports[r].stage] = r
      BY <1>0, <2>1 DEF RowsOf, RowsAreBound, ReportRow
    <3> QED
      BY <1>0, <3>1, NoneAssumption DEF BoundRows
  <2>2. ASSUME NEW r \in bound PROVE r \in RowsOf(st.version)
    BY <1>0, <1>3, <2>2 DEF BoundRows, RowsOf, HasReport
  <2> QED
    BY <2>1, <2>2
<1>6. f \in Bijection(RequiredStages(st), bound)
  <2>1. f \in [RequiredStages(st) -> bound] /\ \A b \in bound : \E g \in RequiredStages(st) : f[g] = b
    BY <1>4
  <2>2. \A g, h \in RequiredStages(st) : f[g] = f[h] => g = h
    BY <1>2, <1>3 DEF RequiredStages
  <2> QED
    BY <2>1, <2>2 DEF Bijection, Injection, Surjection, IsInjective
<1>7. IsFiniteSet(RequiredStages(st))
  <2>1. IsFiniteSet({"editor"} \cup {"chief_editor"} \cup {"lore"})
    BY FS_Singleton, FS_AddElement
  <2>2. Stage = {"editor"} \cup {"chief_editor"} \cup {"lore"}
    BY DEF Stage
  <2> QED
    BY <2>1, <2>2, FS_Subset DEF RequiredStages
<1>8. Cardinality(bound) = Cardinality(RequiredStages(st))
  BY <1>6, <1>7, FS_Bijection DEF ExistsBijection
<1>9. \A g \in Stage : HasReport(st, g) => reports[st.report[g]].outcome # "blocking"
  BY <1>0, <1>3 DEF IInv, BlockedIsReworked
<1> QED
  BY <1>0, <1>1, <1>3, <1>5, <1>8, <1>9 DEF Exact, HasReport

-----------------------------------------------------------------------------
(* The panels.                                                              *)
LEMMA NewPanelTyped ==
    ASSUME NEW b \in PairRow \cup {None}, NEW v \in Nat, NEW goal \in Goals \cup {None},
           NEW key \in Keys \cup {None}
    PROVE  Panel(b, v, goal, key) \in PanelRow
BY DEF Panel, PanelRow

(* What the transaction that makes the run ready appends.                   *)
LEMMA EnterAppends ==
    ASSUME PanelTypeOK, BoundToPairs, EnterReady, PairOf(st) \in PairRow
    PROVE  /\ pairs' = Append(pairs, PairOf(st))
           /\ \A i \in DOMAIN pairs : pairs[i].version # st.version
           /\ panels' = IF Mode = "off" THEN panels
                        ELSE Append(panels, Panel(PairOf(st), st.version, None, None))
<1> DEFINE p == PairOf(st)
<1>1. /\ pairs' = Append(pairs, p) /\ p.version = st.version
      /\ \A i \in DOMAIN pairs : pairs[i].version # st.version
  BY DEF EnterReady, CanEnter, PairOf
<1>2. Claims(p) = {}
  BY <1>1 DEF Claims, BoundToPairs
<1> QED
  BY <1>1, <1>2 DEF EnterReady, StartReadyPanel

(* The panel of the pair that is entered is its only one, and the others    *)
(* keep theirs.                                                             *)
LEMMA EnteredPairHasPanel ==
    ASSUME PanelTypeOK, BoundToPairs, PairHasPanel, EnterReady, PairOf(st) \in PairRow
    PROVE  PairHasPanel' /\ BoundToPairs' /\ PanelTypeOK'
<1> DEFINE p == PairOf(st)
           new == Panel(p, st.version, None, None)
<1>1. /\ pairs' = Append(pairs, p) /\ \A i \in DOMAIN pairs : pairs[i].version # st.version
      /\ Mode = "on" => panels' = Append(panels, new)
      /\ Mode = "off" => panels' = panels
      /\ p.version = st.version /\ st.version \in Nat /\ p \in PairRow
      /\ pairs \in Seq(PairRow) /\ panels \in Seq(PanelRow)
      /\ Mode \in {"on", "off"}
  BY EnterAppends, PanelBounds DEF PanelTypeOK, PairOf, PairRow
<1>2. new \in PanelRow /\ new.binding = p /\ new.version = st.version
  BY <1>1, NewPanelTyped DEF Panel
<1> HIDE DEF p, new
<1>3. PanelTypeOK'
  <2>1. Append(pairs, p) \in Seq(PairRow) /\ Append(panels, new) \in Seq(PanelRow)
    BY <1>1, <1>2
  <2> QED
    BY <1>1, <2>1 DEF PanelTypeOK
<1>4. /\ DOMAIN pairs = 1 .. Len(pairs) /\ DOMAIN pairs' = 1 .. Len(pairs) + 1
      /\ Len(pairs) \in Nat
      /\ pairs'[Len(pairs) + 1] = p /\ \A n \in DOMAIN pairs : pairs'[n] = pairs[n] /\ pairs[n] # p
  BY <1>1
<1>5. CASE Mode = "on"
  <2>1. /\ DOMAIN panels = 1 .. Len(panels) /\ DOMAIN panels' = 1 .. Len(panels) + 1
        /\ Len(panels) \in Nat
        /\ panels'[Len(panels) + 1] = new /\ \A i \in DOMAIN panels : panels'[i] = panels[i]
    BY <1>1, <1>2, <1>5
  <2>2. \A i \in DOMAIN panels : panels[i].binding # p
    BY <1>1, <1>4, PairAssumption DEF BoundToPairs
  <2>3. BoundToPairs'
    <3> SUFFICES ASSUME NEW i \in DOMAIN panels', panels'[i].binding # None
                 PROVE  \E n \in DOMAIN pairs' :
                           panels'[i].binding = pairs'[n] /\ panels'[i].version = pairs'[n].version
      BY DEF BoundToPairs
    <3>1. CASE i \in DOMAIN panels
      BY <1>4, <2>1, <3>1 DEF BoundToPairs
    <3>2. CASE i = Len(panels) + 1
      BY <1>1, <1>2, <1>4, <2>1, <3>2
    <3> QED
      BY <2>1, <3>1, <3>2
  <2>4. ASSUME NEW n \in DOMAIN pairs'
        PROVE  \E i \in DOMAIN panels' : \A j \in DOMAIN panels' :
                  /\ i = j <=> (panels'[j].binding = pairs'[n])
                  /\ i = j => panels'[j].version = pairs'[n].version
    <3>1. CASE n = Len(pairs) + 1
      <4>1. \A j \in DOMAIN panels' :
               /\ Len(panels) + 1 = j <=> (panels'[j].binding = pairs'[n])
               /\ Len(panels) + 1 = j => panels'[j].version = pairs'[n].version
        BY <1>1, <1>2, <1>4, <2>1, <2>2, <3>1
      <4> QED
        BY <2>1, <4>1
    <3>2. CASE n \in DOMAIN pairs
      <4>1. PICK i \in DOMAIN panels : \A j \in DOMAIN panels :
               /\ i = j <=> (panels[j].binding = pairs[n])
               /\ i = j => panels[j].version = pairs[n].version
        BY <1>5, <3>2 DEF PairHasPanel
      <4>2. i \in DOMAIN panels' /\ \A j \in DOMAIN panels' :
               /\ i = j <=> (panels'[j].binding = pairs'[n])
               /\ i = j => panels'[j].version = pairs'[n].version
        BY <1>2, <1>4, <2>1, <3>2, <4>1
      <4> QED
        BY <4>2
    <3> QED
      BY <1>4, <3>1, <3>2
  <2> QED
    BY <1>3, <2>3, <2>4 DEF PairHasPanel
<1>6. CASE Mode = "off"
  BY <1>1, <1>3, <1>4, <1>6 DEF PairHasPanel, BoundToPairs
<1> QED
  BY <1>1, <1>5, <1>6

(* No two starts of the author's are the same one; the run's own panel does *)
(* not count.                                                               *)
LEMMA TwinsOfAppended ==
    ASSUME PanelTypeOK, NoTwins, NEW row \in PanelRow, panels' = Append(panels, row),
           row.binding = None => \A i \in Manual :
               /\ panels[i].key = row.key => panels[i].key = None
               /\ row.key = None /\ SameRequest(i, row.version, row.goal) => ~Alive(i)
    PROVE  NoTwins'
<1>1. /\ DOMAIN panels = 1 .. Len(panels) /\ DOMAIN panels' = 1 .. Len(panels) + 1
      /\ Len(panels) \in Nat
      /\ panels'[Len(panels) + 1] = row /\ \A i \in DOMAIN panels : panels'[i] = panels[i]
  BY DEF PanelTypeOK
<1> SUFFICES ASSUME NEW i \in Manual', NEW j \in Manual', i < j
             PROVE  /\ panels'[i].key = panels'[j].key => panels'[i].key = None
                    /\ panels'[j].key = None /\ SameRequest(i, panels[j].version, panels[j].goal)'
                         => ~Alive(i)'
  BY DEF NoTwins
<1>2. i \in DOMAIN panels /\ i \in Manual /\ panels'[i] = panels[i]
  BY <1>1 DEF Manual
<1>3. CASE j = Len(panels) + 1
  BY <1>1, <1>2, <1>3 DEF Manual, SameRequest, Alive
<1>4. CASE j \in DOMAIN panels
  <2>1. j \in Manual /\ panels'[j] = panels[j]
    BY <1>1, <1>4 DEF Manual
  <2> QED
    BY <1>2, <2>1 DEF NoTwins, SameRequest, Manual, Alive
<1> QED
  BY <1>1, <1>3, <1>4 DEF Manual

(* What the author starts and what ends concerns the author's panels only.  *)
LEMMA ManualStepInv ==
    ASSUME PanelTypeOK, BoundToPairs, PairHasPanel, NoTwins, PanelStep
    PROVE  PanelTypeOK' /\ BoundToPairs' /\ PairHasPanel' /\ NoTwins'
<1>0. pairs' = pairs /\ pairs \in Seq(PairRow) /\ panels \in Seq(PanelRow)
  BY DEF PanelStep, StartManual, End, PanelTypeOK
<1>1. ASSUME NEW v \in 1 .. MaxVersion, NEW goal \in Goals, NEW key \in Keys \cup {None},
             StartManual(v, goal, key)
      PROVE  PanelTypeOK' /\ BoundToPairs' /\ PairHasPanel' /\ NoTwins'
  <2> DEFINE row == Panel(None, v, goal, key)
  <2>1. row \in PanelRow /\ panels' = Append(panels, row)
    BY <1>1, NewPanelTyped, VersionBound DEF StartManual
  <2>2. row.binding = None /\ row.version = v /\ row.goal = goal /\ row.key = key
    BY DEF Panel
  <2>3. NoTwins'
    <3>1. \A i \in Manual :
             /\ panels[i].key = key => panels[i].key = None
             /\ key = None /\ SameRequest(i, v, goal) => ~Alive(i)
      BY <1>1 DEF StartManual, Reusable, Manual
    <3> HIDE DEF row
    <3> QED
      BY <2>1, <2>2, <3>1, TwinsOfAppended
  <2> HIDE DEF row
  <2>4. /\ DOMAIN panels = 1 .. Len(panels) /\ DOMAIN panels' = 1 .. Len(panels) + 1
        /\ Len(panels) \in Nat
        /\ panels'[Len(panels) + 1] = row /\ \A i \in DOMAIN panels : panels'[i] = panels[i]
    BY <1>0, <2>1
  <2>5. \A n \in DOMAIN pairs : pairs[n] # None
    BY <1>0, PairAssumption
  <2>6. PanelTypeOK' /\ BoundToPairs'
    BY <1>0, <2>1, <2>2, <2>4 DEF PanelTypeOK, BoundToPairs
  <2>7. PairHasPanel'
    <3> SUFFICES ASSUME Mode = "on", NEW n \in DOMAIN pairs
                 PROVE  \E i \in DOMAIN panels' : \A j \in DOMAIN panels' :
                           /\ i = j <=> (panels'[j].binding = pairs[n])
                           /\ i = j => panels'[j].version = pairs[n].version
      BY <1>0 DEF PairHasPanel
    <3>1. PICK i \in DOMAIN panels : \A j \in DOMAIN panels :
             /\ i = j <=> (panels[j].binding = pairs[n])
             /\ i = j => panels[j].version = pairs[n].version
      BY DEF PairHasPanel
    <3>2. i \in DOMAIN panels' /\ \A j \in DOMAIN panels' :
             /\ i = j <=> (panels'[j].binding = pairs[n])
             /\ i = j => panels'[j].version = pairs[n].version
      BY <2>2, <2>4, <2>5, <3>1
    <3> QED
      BY <3>2
  <2> QED
    BY <2>3, <2>6, <2>7
<1>2. ASSUME NEW i \in DOMAIN panels, NEW status \in {"completed", "lost"}, End(i, status)
      PROVE  PanelTypeOK' /\ BoundToPairs' /\ PairHasPanel' /\ NoTwins'
  <2>1. /\ panels' = [panels EXCEPT ![i].status = status] /\ panels' \in Seq(PanelRow)
        /\ DOMAIN panels' = DOMAIN panels
        /\ panels[i].status = "running"
        /\ \A j \in DOMAIN panels :
             /\ panels'[j].binding = panels[j].binding /\ panels'[j].version = panels[j].version
             /\ panels'[j].goal = panels[j].goal /\ panels'[j].key = panels[j].key
             /\ panels'[j].status = IF j = i THEN status ELSE panels[j].status
    <3>1. panels[i] \in PanelRow /\ panels' = [panels EXCEPT ![i].status = status]
          /\ \A j \in DOMAIN panels : panels[j] \in PanelRow
      BY <1>0, <1>2 DEF End
    <3>2. [panels[i] EXCEPT !.status = status] \in PanelRow
      BY <3>1 DEF PanelRow
    <3>3. panels' \in Seq(PanelRow)
      BY <1>0, <3>1, <3>2
    <3> QED
      BY <1>2, <3>1, <3>3 DEF End, PanelRow
  <2>2. PanelTypeOK' /\ BoundToPairs'
    BY <1>0, <2>1 DEF PanelTypeOK, BoundToPairs
  <2>6. PairHasPanel'
    <3> SUFFICES ASSUME Mode = "on", NEW n \in DOMAIN pairs
                 PROVE  \E k \in DOMAIN panels' : \A j \in DOMAIN panels' :
                           /\ k = j <=> (panels'[j].binding = pairs[n])
                           /\ k = j => panels'[j].version = pairs[n].version
      BY <1>0 DEF PairHasPanel
    <3>1. PICK k \in DOMAIN panels : \A j \in DOMAIN panels :
             /\ k = j <=> (panels[j].binding = pairs[n])
             /\ k = j => panels[j].version = pairs[n].version
      BY DEF PairHasPanel
    <3> QED
      BY <2>1, <3>1
  <2>3. Manual' = Manual
    BY <2>1 DEF Manual
  <2>4. \A j \in Manual : Alive(j)' => Alive(j)
    BY <2>1 DEF Alive, Manual
  <2>5. NoTwins'
    BY <2>1, <2>3, <2>4 DEF NoTwins, SameRequest, Manual
  <2> QED
    BY <2>2, <2>5, <2>6
<1> QED
  BY <1>1, <1>2 DEF PanelStep

-----------------------------------------------------------------------------
(* The inductive invariant of the composition.                              *)
LEMMA InitialStartInv == StartInit => StartInv
<1> SUFFICES ASSUME StartInit PROVE StartInv
  OBVIOUS
<1>1. IInv /\ pairs = <<>> /\ panels = <<>>
  BY InitialIInv DEF StartInit
<1>2. PICK chief \in BOOLEAN : st = InitialState(chief)
  BY DEF StartInit, Init
<1>3. st.status = "DRAFTING" /\ \A r \in ReportIds : reports[r] = None
  BY <1>2 DEF InitialState, StartInit, Init
<1>4. DueIsCurrent /\ RowsAreBound /\ StandsOnLast
  BY <1>3 DEF DueIsCurrent, Due, RowsAreBound, StandsOnLast, Phase, Finalized
<1>5. PanelTypeOK /\ ReadyIsBehind /\ PairsValid /\ BoundToPairs /\ PairHasPanel /\ NoTwins
  BY <1>1 DEF PanelTypeOK, ReadyIsBehind, PairsValid, BoundToPairs, PairHasPanel, NoTwins, Manual
<1> QED
  BY <1>1, <1>4, <1>5 DEF StartInv

(* A step of the run that does not make it ready leaves panels and pairs.   *)
LEMMA OtherRunStep ==
    ASSUME StartInv, ChapterStep, ~Due
    PROVE  StartInv'
<1> USE DEF StartInv
<1>1. Next /\ pairs' = pairs /\ panels' = panels
  BY DEF ChapterStep
<1>2. /\ IInv' /\ TypeOK /\ CheckpointsReadable /\ VersionsBehind
  BY <1>1, IInvStep DEF IInv
<1>3. DueIsCurrent' /\ RowsAreBound'
  BY <1>1, DueStaysCurrent, RowsStayBound
<1>4. /\ st.version \in Nat /\ st'.version \in Nat /\ st'.version >= st.version
      /\ \A i \in DOMAIN pairs : pairs[i] \in PairRow /\ pairs[i].version \in Nat
  <2>1. st.version \in Nat /\ st'.version \in Nat
    BY <1>2 DEF IInv, TypeOK, State
  <2>2. st'.version >= st.version
    <3>1. canon \in Nat /\ canon' \in Nat
      BY <1>2, VersionBound DEF IInv, TypeOK
    <3>2. \/ st'.version = st.version
          \/ st'.version = canon' /\ canon' > st.version
      BY <1>1, <1>2, StepShape
      DEF Shaped, KeepStep, ReplaceStep, BindStep, SameCandidate, FreshCandidate, OneMoreReport
    <3> QED
      BY <2>1, <3>1, <3>2
  <2>3. \A i \in DOMAIN pairs : pairs[i] \in PairRow
    BY DEF PanelTypeOK
  <2> QED
    BY <2>1, <2>2, <2>3 DEF PairRow
<1>5. ReadyIsBehind'
  BY <1>1, <1>2, <1>4, ReadyPhases DEF ReadyIsBehind
<1>6. PairsValid'
  <2>1. ASSUME NEW i \in DOMAIN pairs PROVE Exact(pairs[i])'
    <3>1. PICK p \in PairRow : p = pairs[i]
      BY <1>4
    <3>2. /\ Exact(p) /\ p.version <= st.version
          /\ p.version = st.version => Phase(st) \in AfterReady
      <4>1. Exact(pairs[i])
        BY DEF PairsValid
      <4> QED
        BY <3>1, <4>1 DEF ReadyIsBehind, Exact, BoundRows
    <3>3. Exact(p)'
      BY <1>1, <3>2, PairStaysExact
    <3>4. p = pairs'[i]
      BY <1>1, <3>1
    <3> QED
      BY <3>3, <3>4 DEF Exact, BoundRows
  <2> QED
    BY <1>1, <2>1 DEF PairsValid
<1>7. StandsOnLast'
  BY <1>1, <1>2, ReadyPhases, KeepingSteps DEF StandsOnLast, PairOf, KeepStep, SameCandidate
<1>8. PanelTypeOK' /\ BoundToPairs' /\ PairHasPanel' /\ NoTwins'
  BY <1>1 DEF PanelTypeOK, BoundToPairs, PairHasPanel, NoTwins, Manual, SameRequest, Alive
<1> QED
  BY <1>2, <1>3, <1>5, <1>6, <1>7, <1>8

(* The step that makes the run ready.                                       *)
LEMMA EnterStep ==
    ASSUME StartInv, ChapterStep, Due
    PROVE  StartInv'
<1> USE DEF StartInv
<1> DEFINE p == PairOf(st)
<1>1. Next /\ st' = FinalizeReady(st) /\ EnterReady
  BY DEF ChapterStep
<1>2. IInv' /\ TypeOK /\ CheckpointsReadable /\ VersionsBehind
  BY <1>1, IInvStep DEF IInv
<1>3. /\ st' \in State /\ st'.status = "REVISION_READY" /\ SameCandidate(st, st')
      /\ reports' = reports
  BY <1>1, <1>2, ReadyStep
<1>4. DueIsCurrent' /\ RowsAreBound'
  BY <1>1, DueStaysCurrent, RowsStayBound
<1>5. p \in PairRow /\ Exact(p) /\ p.version = st.version
  BY CandidateIsExact DEF PairOf
<1>6. PanelTypeOK' /\ BoundToPairs' /\ PairHasPanel'
  BY <1>1, <1>5, EnteredPairHasPanel
<1>7. /\ pairs \in Seq(PairRow) /\ pairs' = Append(pairs, p)
      /\ DOMAIN pairs = 1 .. Len(pairs) /\ DOMAIN pairs' = 1 .. Len(pairs) + 1 /\ Len(pairs) \in Nat
      /\ Len(pairs') = Len(pairs) + 1
      /\ pairs'[Len(pairs) + 1] = p /\ \A i \in DOMAIN pairs : pairs'[i] = pairs[i]
      /\ \A i \in DOMAIN pairs : pairs[i].version # st.version
  BY <1>1, <1>5, EnterAppends DEF PanelTypeOK
<1>8. PairOf(st)' = p /\ st'.version = st.version /\ RequiredStages(st)' = RequiredStages(st)
      /\ Phase(st') = "REVISION_READY"
  BY <1>3 DEF PairOf, SameCandidate, RequiredStages, Phase
<1>9. StandsOnLast'
  BY <1>7, <1>8 DEF StandsOnLast
<1>10. ReadyIsBehind'
  <2>1. st.version \in Nat /\ \A i \in DOMAIN pairs : pairs[i].version \in Nat
    <3>1. \A i \in DOMAIN pairs : pairs[i] \in PairRow
      BY <1>7
    <3> QED
      BY <1>2, <3>1 DEF TypeOK, State, PairRow
  <2>2. \A i \in DOMAIN pairs' : pairs'[i].version <= st'.version
    BY <1>5, <1>7, <1>8, <2>1 DEF ReadyIsBehind
  <2>3. \A i, j \in DOMAIN pairs' : pairs'[i].version = pairs'[j].version => i = j
    BY <1>5, <1>7 DEF ReadyIsBehind
  <2> QED
    BY <1>8, <2>2, <2>3 DEF ReadyIsBehind, AfterReady, Finalized
<1>11. PairsValid'
  <2>1. ASSUME NEW i \in DOMAIN pairs' PROVE Exact(pairs[i])'
    <3>1. PICK q : q = pairs'[i]
      OBVIOUS
    <3>2. Exact(q)
      <4>1. CASE i \in DOMAIN pairs
        <5>1. Exact(pairs[i]) /\ q = pairs[i]
          BY <1>7, <3>1, <4>1 DEF PairsValid
        <5> QED
          BY <5>1 DEF Exact, BoundRows
      <4>2. CASE i = Len(pairs) + 1
        <5>1. q = p
          BY <1>7, <3>1, <4>2
        <5> QED
          BY <1>5, <5>1 DEF Exact, BoundRows
      <4> QED
        BY <1>7, <4>1, <4>2
    <3>3. Exact(q)'
      BY <1>3, <1>8, <3>2 DEF Exact, BoundRows, RowsOf
    <3> QED
      BY <3>1, <3>3 DEF Exact, BoundRows
  <2> QED
    BY <2>1 DEF PairsValid
<1>12. NoTwins'
  <2>1. CASE Mode = "off"
    BY <1>1, <1>5, <2>1, EnterAppends DEF NoTwins, Manual, SameRequest, Alive
  <2>2. CASE Mode # "off"
    <3> DEFINE row == Panel(p, st.version, None, None)
    <3>1. panels' = Append(panels, row) /\ row \in PanelRow /\ row.binding # None
      <4>1. row \in PanelRow
        BY <1>2, <1>5, NewPanelTyped DEF TypeOK, State
      <4>2. row.binding = p /\ p # None
        BY <1>5, PairAssumption DEF Panel
      <4> QED
        BY <1>1, <1>5, <2>2, <4>1, <4>2, EnterAppends
    <3> HIDE DEF row
    <3> QED
      BY <3>1, TwinsOfAppended
  <2> QED
    BY <2>1, <2>2
<1> QED
  BY <1>2, <1>4, <1>6, <1>9, <1>10, <1>11, <1>12

(* A step of the run, a start or an end of a panel, and a stutter keep it.  *)
LEMMA StartInvStep == StartInv /\ [StartNext]_panelStartVars => StartInv'
<1>1. ASSUME StartInv, ChapterStep PROVE StartInv'
  BY <1>1, OtherRunStep, EnterStep
<1>2. ASSUME StartInv, PanelStep PROVE StartInv'
  <2>1. UNCHANGED <<vars, pairs>>
    BY <1>2 DEF PanelStep, StartManual, End
  <2>2. IInv'
    BY <1>2, <2>1, IInvStep DEF StartInv
  <2>3. PanelTypeOK' /\ BoundToPairs' /\ PairHasPanel' /\ NoTwins'
    BY <1>2, ManualStepInv DEF StartInv
  <2>4. DueIsCurrent' /\ RowsAreBound' /\ ReadyIsBehind' /\ PairsValid' /\ StandsOnLast'
    BY <1>2, <2>1 DEF StartInv, vars, DueIsCurrent, Due, RowsAreBound, ReadyIsBehind, PairsValid,
       Exact, BoundRows, RowsOf, StandsOnLast, PairOf
  <2> QED
    BY <2>2, <2>3, <2>4 DEF StartInv
<1>3. ASSUME StartInv, UNCHANGED panelStartVars PROVE StartInv'
  <2>1. UNCHANGED vars /\ pairs' = pairs /\ panels' = panels
    BY <1>3 DEF panelStartVars, vars
  <2>2. IInv'
    BY <1>3, <2>1, IInvStep DEF StartInv
  <2>3. DueIsCurrent' /\ RowsAreBound' /\ ReadyIsBehind' /\ PairsValid' /\ StandsOnLast'
    BY <1>3, <2>1 DEF StartInv, vars, DueIsCurrent, Due, RowsAreBound, ReadyIsBehind, PairsValid,
       Exact, BoundRows, RowsOf, StandsOnLast, PairOf
  <2>4. PanelTypeOK' /\ BoundToPairs' /\ PairHasPanel' /\ NoTwins'
    BY <1>3, <2>1 DEF StartInv, PanelTypeOK, BoundToPairs, PairHasPanel, NoTwins, Manual,
       SameRequest, Alive
  <2> QED
    BY <2>2, <2>3, <2>4 DEF StartInv
<1> QED
  BY <1>1, <1>2, <1>3 DEF StartNext

(* StartInv holds in every reachable state of a run with its panels         *)
(* (EnterReady and initialize_session included), for any constants.         *)
THEOREM StartInvariant == StartSpec => []StartInv
<1> QED
  BY InitialStartInv, StartInvStep, PTL DEF StartSpec

-----------------------------------------------------------------------------
(* Each READY state of a run has exactly one panel, and a run that is ready *)
(* stands on the last of them, whatever panels the author starts or loses.  *)
THEOREM ReadyTextsHaveTheirPanel == StartSpec => []ReadyHasPanel
<1>1. StartInv => ReadyHasPanel
  BY DEF StartInv, ReadyHasPanel, PairHasPanel, StandsOnLast
<1> QED
  BY <1>1, StartInvariant, PTL

(* A repeated start of the author's starts nothing.                         *)
THEOREM RepeatedStartsStartNothing == StartSpec => []NoTwins
<1>1. StartInv => NoTwins
  BY DEF StartInv
<1> QED
  BY <1>1, StartInvariant, PTL

(* The last approval of a text is never refused by the earlier READY states *)
(* or the panels of the chapter (RevisionReadinessStore.enter).             *)
THEOREM LastApprovalIsNeverRefused == StartSpec => []ReadyNotBlocked
<1>1. StartInv => ReadyNotBlocked
  <2> SUFFICES ASSUME StartInv, Due
               PROVE  CanFinalizeReady(st, canon, reports) /\ CanEnter
    BY DEF ReadyNotBlocked
  <2>1. /\ PairOf(st) \in PairRow /\ Exact(PairOf(st))
        /\ PairOf(st).version = st.version /\ PairOf(st).report = st.report
    BY CandidateIsExact DEF StartInv, PairOf
  <2>2. Phase(st) = "LORE_FINAL_REVIEW"
    BY DEF Due, Phase
  <2>3. CanFinalizeReady(st, canon, reports)
    <3>1. canon = st.version
      BY DEF StartInv, DueIsCurrent
    <3>2. \A g \in Stage : HasReport(st, g) =>
             /\ reports[st.report[g]].stage = g /\ reports[st.report[g]].version = st.version
             /\ reports[st.report[g]].outcome # "blocking"
      BY <2>1 DEF StartInv, IInv, ReportsMatchCandidate, Exact, HasReport
    <3> QED
      BY <2>2, <3>1, <3>2 DEF CanFinalizeReady, LiveReady, Due
  <2>4. \A i \in DOMAIN pairs : pairs[i].version # st.version
    BY <2>2 DEF StartInv, ReadyIsBehind, AfterReady, Finalized
  <2>5. Claims(PairOf(st)) = {}
    BY <2>1, <2>4 DEF StartInv, BoundToPairs, Claims
  <2> QED
    BY <2>1, <2>3, <2>4, <2>5 DEF CanEnter, CanBind, StartInv
<1> QED
  BY <1>1, StartInvariant, PTL

-----------------------------------------------------------------------------
Archiving == st.status \in {"ARCHIVE_UPDATE", "COMPLETED"}
SystemDoc == [by |-> "system", versions |-> <<st.version>>]

FinalTypeOK ==
    /\ docs \in [DocId -> Final \cup {None}]
    /\ finalId \in 0 .. MaxDocs
    /\ snap \in [DocId -> Text \cup {None}]
    /\ worker \in [Workers -> [step : {"idle", "stage", "file", "snapshot", "complete"},
                               text : Text \cup {None}, doc : 0 .. MaxDocs]]

NothingBefore ==
    ~Archiving => /\ \A w \in Workers : At(w, "idle")
                  /\ \A d \in Existing : docs[d].by # "system"

RequestsHoldTheText == \A w \in Workers : ~At(w, "idle") => worker[w].text = st.version

SnapshotsReviewed == \A d \in Existing : docs[d].by = "system" => snap[d] \in {None, st.version}

(* As PublishedStays, whether or not the author has other documents.        *)
PublishedFiles ==
    st.status = "COMPLETED" /\ removal = "none" /\ finalId \in DocId /\ docs[finalId] = SystemDoc =>
        snap[finalId] = st.version /\ file = st.version

FinalInv ==
    /\ IInv
    /\ FinalTypeOK
    /\ NothingBefore
    /\ RequestsHoldTheText
    /\ FinalizedOnce
    /\ SnapshotsReviewed
    /\ PublishedFiles

-----------------------------------------------------------------------------
(* Every step of the requests is a step of the run or leaves it alone.      *)
LEMMA FinalizationStep == [FinalizationNext]_sagaVars => [Next]_vars
<1>1. \A w \in Workers : Consume(w) => BeginArchiveUpdate
  BY DEF Consume, BeginArchiveUpdate, Move
<1>2. \A w \in Workers : CompleteFinalization(w) => CompleteRun
  BY DEF CompleteFinalization, CanCompleteSaga, CompleteRun, Move
<1>3. \A w \in Workers : Finalize(w) \/ Leave(w) \/ RequestDies(w) =>
          BeginArchiveUpdate \/ CompleteRun \/ UNCHANGED vars
  BY <1>1, <1>2 DEF Finalize, ConsumeAgain, StageCreate, RecoverExisting, MaterializeFile,
     MaterializeSnapshot, Leave, RequestDies, vars
<1>4. RunStep => Next
  BY DEF RunStep, Next
<1>5. SaveDraft \/ AuthorMeddles \/ UNCHANGED sagaVars => WriteVersion \/ UNCHANGED vars
  BY DEF SaveDraft, AuthorMeddles, WriteFinal, CreateFinal, DeleteFinal, RemoveFile, sagaVars, vars
<1> QED
  BY <1>3, <1>4, <1>5 DEF FinalizationNext, Next

(* A run that is finalized by these requests is a run: its checkpoints can   *)
(* be read, and it implements the release gate, so the text it publishes    *)
(* has the approval of every stage of its policy.                           *)
THEOREM FinalizedRunIsARun ==
    FinalizationSpec => Spec /\ []IInv /\ []ReleasedIsApproved /\ ImplementsReleaseGate
<1>1. FinalizationInit => Init
  BY DEF FinalizationInit
<1>2. FinalizationSpec => Spec
  BY <1>1, FinalizationStep, PTL DEF FinalizationSpec, Spec
<1> QED
  BY <1>2, InductiveInvariant, ReleasedTextsAreApproved, RunImplementsReleaseGate, PTL

-----------------------------------------------------------------------------
(* The rest of the run neither enters nor leaves the archive, and binds      *)
(* another text only before it.                                             *)
LEMMA RunStepsBefore ==
    ASSUME IInv, RunStep
    PROVE  ~Archiving /\ ~Archiving'
<1>0. st \in State /\ ValidState(st)
  BY DEF IInv, TypeOK, CheckpointsReadable
<1>1. CASE \E a \in ActionIds : SubmitDraftFor(a)
  BY <1>0, <1>1 DEF SubmitDraftFor, CanSubmitDraft, SubmitDraft, AuthorGate, State, Archiving
<1>2. CASE AcceptDraft
  <2>1. Awaiting(st)
    BY <1>2 DEF AcceptDraft, CurrentGate, Gate, Awaiting
  <2>2. ~Archiving
    BY <1>0, <2>1 DEF ValidState, PhaseBound, Phase, Finalized, Archiving
  <2> QED
    BY <1>0, <1>2, <2>2 DEF AcceptDraft, Accept, WithoutAction, State, Archiving
<1>3. CASE \E r \in ReportIds : RecordPassedReview(r)
  <2>1. PICK r \in ReportIds : RecordPassedReview(r)
    BY <1>3
  <2>2. st.status \in ReviewStatus /\ st' = RecordPassed(st, ExpectedStage(st), r)
    BY <2>1 DEF RecordPassedReview, CanRecordReview
  <2>3. st'.status = NextReviewStatus(st)
    BY <1>0, <2>2 DEF RecordPassed, State
  <2> QED
    BY <2>2, <2>3 DEF NextReviewStatus, ReviewStatus, Archiving
<1>4. CASE FinalizeRevisionReady
  BY <1>0, <1>4 DEF FinalizeRevisionReady, CanFinalizeReady, FinalizeReady, Move, State, Archiving
<1>5. CASE RequestSelectedReviewRevision
  BY <1>0, <1>5 DEF RequestSelectedReviewRevision, CanSelectReviewRevision, SelectReviewRevision,
     WithoutAction, Move, State, Archiving
<1>6. CASE SubmitReviewRevision
  BY <1>0, <1>6 DEF SubmitReviewRevision, CanSubmitReviewRevision, NewVersionForReview, Move, State,
     Archiving
<1> QED
  BY <1>1, <1>2, <1>3, <1>4, <1>5, <1>6 DEF RunStep

(* A new run has no request and no document.                               *)
LEMMA FinalInitial == FinalizationInit => FinalInv
<1> SUFFICES ASSUME FinalizationInit PROVE FinalInv
  OBVIOUS
<1>1. IInv /\ st.status = "DRAFTING"
  BY InitialIInv DEF FinalizationInit, Init, InitialState
<1>2. Existing = {}
  BY DEF FinalizationInit, Existing
<1>3. FinalTypeOK
  BY FinalBounds DEF FinalizationInit, FinalTypeOK, NoRequest
<1> QED
  BY <1>1, <1>2, <1>3 DEF FinalInv, FinalizationInit, NothingBefore, RequestsHoldTheText, At, NoRequest,
     FinalizedOnce, SnapshotsReviewed, PublishedFiles

(* The bound text is one of the draft's versions.                           *)
LEMMA BoundText ==
    ASSUME FinalInv
    PROVE  st.version \in Text
<1>1. st.version \in Nat /\ canon \in 0 .. MaxVersion /\ st.version <= canon
  BY DEF FinalInv, IInv, TypeOK, VersionsBehind, State
<1> QED
  BY <1>1, VersionBound DEF Text

(* What a request stages is a document.                                     *)
LEMMA SystemIsFinal ==
    ASSUME FinalInv
    PROVE  SystemDoc \in Final
<1> QED
  BY BoundText DEF SystemDoc, Final

-----------------------------------------------------------------------------
(* The requests.  Consuming READY begins the archive on the bound text.      *)
LEMMA BeginningKeeps ==
    ASSUME FinalInv, NEW w \in Workers, Consume(w) \/ ConsumeAgain(w), IInv'
    PROVE  FinalInv'
<1>0. /\ st \in State /\ st'.status = "ARCHIVE_UPDATE" /\ st'.version = st.version
      /\ st.status \in {"REVISION_READY", "ARCHIVE_UPDATE"}
  BY DEF FinalInv, IInv, TypeOK, Consume, ConsumeAgain, CanBeginArchive, BeginArchive, State, vars
<1>1. /\ UNCHANGED <<canon, docs, finalId, file, snap, removal, events>>
      /\ worker' = [worker EXCEPT ![w].step = "stage", ![w].text = st.version]
      /\ canon = st.version
  BY DEF Consume, ConsumeAgain, Begin, finalVars, vars
<1>2. st.version \in Text /\ worker \in [Workers -> [step : {"idle", "stage", "file", "snapshot", "complete"},
                               text : Text \cup {None}, doc : 0 .. MaxDocs]]
  BY <1>1 DEF FinalInv, IInv, TypeOK, FinalTypeOK, Text
<1>3. FinalTypeOK'
  BY <1>1, <1>2 DEF FinalInv, FinalTypeOK
<1>4. RequestsHoldTheText'
  BY <1>0, <1>1, <1>2 DEF FinalInv, RequestsHoldTheText, At
<1>5. NothingBefore' /\ PublishedFiles'
  BY <1>0 DEF NothingBefore, PublishedFiles, Archiving
<1>6. FinalizedOnce' /\ SnapshotsReviewed'
  BY <1>0, <1>1 DEF FinalInv, FinalizedOnce, SnapshotsReviewed, Existing
<1> QED
  BY <1>3, <1>4, <1>5, <1>6 DEF FinalInv

(* Staging makes the only document of the run, or goes on with it.          *)
LEMMA StagingKeeps ==
    ASSUME FinalInv, NEW w \in Workers, IInv',
           RecoverExisting(w) \/ \E d \in DocId : StageCreate(w, d)
    PROVE  FinalInv'
<1>0. /\ UNCHANGED <<st, file, removal, events>> /\ st.status = "ARCHIVE_UPDATE"
      /\ worker[w].text = st.version /\ At(w, "stage")
      /\ worker \in [Workers -> [step : {"idle", "stage", "file", "snapshot", "complete"},
                                 text : Text \cup {None}, doc : 0 .. MaxDocs]]
  BY DEF FinalInv, FinalTypeOK, RecoverExisting, StageCreate, CanStage, finalVars, vars
<1>1. NothingBefore' /\ PublishedFiles'
  BY <1>0 DEF NothingBefore, PublishedFiles, Archiving
<1>2. PICK d \in 0 .. MaxDocs : worker' = [worker EXCEPT ![w].step = "file", ![w].doc = d]
  <2>1. CASE RecoverExisting(w)
    BY <2>1 DEF FinalInv, FinalTypeOK, RecoverExisting
  <2>2. CASE \E e \in DocId : StageCreate(w, e)
    <3>1. PICK e \in DocId : StageCreate(w, e)
      BY <2>2
    <3>2. e \in 0 .. MaxDocs /\ worker' = [worker EXCEPT ![w].step = "file", ![w].doc = e]
      BY <3>1 DEF StageCreate, DocId
    <3> QED
      BY <3>2
  <2> QED
    BY <2>1, <2>2
<1>3. RequestsHoldTheText'
  BY <1>0, <1>2 DEF FinalInv, RequestsHoldTheText, At
<1>4. CASE RecoverExisting(w)
  <2>1. UNCHANGED <<docs, finalId, snap>>
    BY <1>4 DEF RecoverExisting, finalVars
  <2> QED
    BY <1>0, <1>1, <1>2, <1>3, <2>1 DEF FinalInv, FinalTypeOK, FinalizedOnce, SnapshotsReviewed, Existing
<1>5. CASE \E e \in DocId : StageCreate(w, e)
  <2>1. PICK e \in DocId : StageCreate(w, e)
    BY <1>5
  <2>2. /\ docs' = [docs EXCEPT ![e] = [by |-> "system", versions |-> <<worker[w].text>>]]
        /\ finalId' = e /\ Existing = {} /\ snap[e] = None /\ snap' = snap
    BY <2>1 DEF StageCreate, Fresh
  <2>3. worker[w].text \in Text /\ docs \in [DocId -> Final \cup {None}]
        /\ snap \in [DocId -> Text \cup {None}]
    BY <1>0, BoundText DEF FinalInv, FinalTypeOK
  <2>5. [by |-> "system", versions |-> <<worker[w].text>>] \in Final
    BY <2>3 DEF Final
  <2>6. FinalTypeOK'
    <3>1. docs' \in [DocId -> Final \cup {None}]
      BY <2>2, <2>3, <2>5
    <3>2. worker' \in [Workers -> [step : {"idle", "stage", "file", "snapshot", "complete"},
                                   text : Text \cup {None}, doc : 0 .. MaxDocs]]
      BY <1>0, <1>2
    <3> QED
      BY <2>2, <2>3, <3>1, <3>2 DEF FinalTypeOK, DocId
  <2>7. Existing' \subseteq {e}
    BY <2>2, <2>3 DEF Existing
  <2>8. FinalizedOnce' /\ SnapshotsReviewed'
    BY <1>0, <2>2, <2>7 DEF FinalInv, FinalizedOnce, SnapshotsReviewed
  <2> QED
    BY <1>1, <1>3, <2>6, <2>8 DEF FinalInv
<1> QED
  BY <1>4, <1>5

(* The files are written with the bound text, however late.                 *)
LEMMA MaterializingKeeps ==
    ASSUME FinalInv, NEW w \in Workers, IInv',
           MaterializeFile(w) \/ MaterializeSnapshot(w)
    PROVE  FinalInv'
<1>0. /\ UNCHANGED <<st, docs, finalId, removal, events>>
      /\ worker[w].text = st.version /\ ~At(w, "idle")
      /\ worker \in [Workers -> [step : {"idle", "stage", "file", "snapshot", "complete"},
                                 text : Text \cup {None}, doc : 0 .. MaxDocs]]
  BY DEF FinalInv, FinalTypeOK, MaterializeFile, MaterializeSnapshot, RequestsHoldTheText, At, vars
<1>1. Archiving
  BY <1>0 DEF FinalInv, NothingBefore
<1>2. PICK step \in {"snapshot", "complete"} : worker' = [worker EXCEPT ![w].step = step]
  BY DEF MaterializeFile, MaterializeSnapshot, Go
<1>3. RequestsHoldTheText' /\ NothingBefore'
  BY <1>0, <1>1, <1>2 DEF FinalInv, RequestsHoldTheText, NothingBefore, Archiving, At
<1>4. \/ file' = st.version /\ snap' = snap
      \/ file' = file /\ snap' = [snap EXCEPT ![worker[w].doc] = st.version]
  BY <1>0 DEF MaterializeFile, MaterializeSnapshot
<1>5. snap \in [DocId -> Text \cup {None}] /\ st.version \in Text \cup {None}
  BY <1>0 DEF FinalInv, FinalTypeOK
<1>6. \A d \in DocId : snap'[d] \in {snap[d], st.version}
  BY <1>4, <1>5
<1>7. FinalTypeOK'
  BY <1>0, <1>2, <1>4, <1>5 DEF FinalInv, FinalTypeOK
<1>8. FinalizedOnce' /\ SnapshotsReviewed'
  BY <1>0, <1>6 DEF FinalInv, FinalizedOnce, SnapshotsReviewed, Existing
<1>9. PublishedFiles'
  BY <1>0, <1>4, <1>6 DEF FinalInv, PublishedFiles, SystemDoc
<1> QED
  BY <1>3, <1>7, <1>8, <1>9 DEF FinalInv

(* The completion has found the document proven.                            *)
LEMMA CompletingKeeps ==
    ASSUME FinalInv, NEW w \in Workers, CompleteFinalization(w), IInv'
    PROVE  FinalInv'
<1>0. /\ st \in State /\ st.status = "ARCHIVE_UPDATE"
      /\ st' = [st EXCEPT !.status = "COMPLETED"]
      /\ UNCHANGED <<docs, finalId, file, snap, removal>> /\ events' = events + 1
      /\ worker' = [worker EXCEPT ![w] = NoRequest] /\ Proven
  BY DEF FinalInv, IInv, TypeOK, CompleteFinalization, CanCompleteSaga, CanComplete, Complete, Finish
<1>1. st'.status = "COMPLETED" /\ st'.version = st.version
  BY <1>0 DEF State
<1>2. FinalTypeOK'
  BY <1>0, FinalBounds DEF FinalInv, FinalTypeOK, NoRequest
<1>3. RequestsHoldTheText' /\ NothingBefore'
  BY <1>0, <1>1 DEF FinalInv, FinalTypeOK, RequestsHoldTheText, NothingBefore, Archiving, At, NoRequest
<1>4. FinalizedOnce' /\ SnapshotsReviewed'
  BY <1>0, <1>1 DEF FinalInv, FinalizedOnce, SnapshotsReviewed, Existing
<1>5. PublishedFiles'
  BY <1>0, <1>1 DEF PublishedFiles, Proven, Promoted
<1> QED
  BY <1>2, <1>3, <1>4, <1>5 DEF FinalInv

(* A request that ends leaves everything as it is.                          *)
LEMMA LeavingKeeps ==
    ASSUME FinalInv, NEW w \in Workers, Leave(w) \/ RequestDies(w), IInv'
    PROVE  FinalInv'
<1>0. UNCHANGED <<st, docs, finalId, file, snap, removal, events>>
      /\ worker' = [worker EXCEPT ![w] = NoRequest]
  BY DEF Leave, RequestDies, Finish, vars, finalVars
<1> QED
  BY <1>0, FinalBounds DEF FinalInv, FinalTypeOK, RequestsHoldTheText, NothingBefore, Archiving, At,
     NoRequest, FinalizedOnce, SnapshotsReviewed, PublishedFiles, Existing, SystemDoc

-----------------------------------------------------------------------------
(* What the author does to the final documents.                             *)
LEMMA MeddlingKeeps ==
    ASSUME FinalInv, AuthorMeddles, IInv'
    PROVE  FinalInv'
<1>0. UNCHANGED <<st, finalId, events, worker>>
  BY DEF AuthorMeddles, WriteFinal, CreateFinal, DeleteFinal, RemoveFile, vars
<1>1. docs \in [DocId -> Final \cup {None}] /\ snap \in [DocId -> Text \cup {None}]
  BY DEF FinalInv, FinalTypeOK
<1>2. RequestsHoldTheText'
  BY <1>0 DEF FinalInv, RequestsHoldTheText, At
<1>3. OwnText \in Text /\ None \notin Final \cup Text
  BY VersionBound, FinalAssumption DEF OwnText, Text
<1>4. CASE RemoveFile
  <2>1. UNCHANGED <<docs, snap>> /\ removal' = "done"
    BY <1>4 DEF RemoveFile
  <2> QED
    BY <1>0, <1>2, <2>1 DEF FinalInv, FinalTypeOK, NothingBefore, Archiving, At, FinalizedOnce,
       SnapshotsReviewed, PublishedFiles, Existing
<1>5. ASSUME NEW d \in DocId, DeleteFinal(d) PROVE FinalInv'
  <2>1. /\ docs[d] # None /\ docs' = [docs EXCEPT ![d] = None] /\ UNCHANGED <<file, snap>>
        /\ removal' = IF docs[d].by = "system" THEN "pending" ELSE removal
    BY <1>5 DEF DeleteFinal, Existing
  <2>2. \A e \in DocId : docs'[e] # None => docs'[e] = docs[e] /\ docs[e] # None
    BY <1>1, <2>1
  <2>3. FinalTypeOK'
    BY <1>0, <2>1 DEF FinalInv, FinalTypeOK
  <2>4. NothingBefore' /\ FinalizedOnce' /\ SnapshotsReviewed'
    BY <1>0, <2>1, <2>2 DEF FinalInv, NothingBefore, Archiving, At, FinalizedOnce, SnapshotsReviewed,
       Existing
  <2>5. ASSUME finalId \in DocId, docs'[finalId] = SystemDoc PROVE docs[finalId] = SystemDoc
    BY <1>3, <2>2, <2>5, SystemIsFinal
  <2>6. PublishedFiles'
    BY <1>0, <2>1, <2>5 DEF FinalInv, PublishedFiles, SystemDoc
  <2> QED
    BY <1>2, <2>3, <2>4, <2>6 DEF FinalInv
<1>6. ASSUME NEW d \in DocId, CreateFinal(d) PROVE FinalInv'
  <2>1. /\ docs[d] = None /\ snap[d] = None /\ d # finalId /\ UNCHANGED <<file, removal>>
        /\ docs' = [docs EXCEPT ![d] = [by |-> "author", versions |-> <<OwnText>>]]
        /\ snap' = [snap EXCEPT ![d] = OwnText]
    BY <1>6 DEF CreateFinal, Fresh
  <2>3. [by |-> "author", versions |-> <<OwnText>>] \in Final
    BY <1>3 DEF Final
  <2>4. \A e \in DocId : \/ docs'[e] = docs[e] /\ snap'[e] = snap[e]
                         \/ docs'[e].by # "system"
    BY <1>1, <2>1
  <2>5. FinalTypeOK'
    BY <1>0, <1>3, <2>1, <2>3 DEF FinalInv, FinalTypeOK
  <2>6. NothingBefore' /\ FinalizedOnce' /\ SnapshotsReviewed'
    BY <1>0, <2>4 DEF FinalInv, NothingBefore, Archiving, At, FinalizedOnce, SnapshotsReviewed, Existing
  <2>7. PublishedFiles'
    BY <1>0, <1>1, <2>1 DEF FinalInv, PublishedFiles, SystemDoc
  <2> QED
    BY <1>2, <2>5, <2>6, <2>7 DEF FinalInv
<1>7. ASSUME NEW d \in DocId, WriteFinal(d) PROVE FinalInv'
  <2>1. /\ docs[d] # None /\ docs[d].by = "system" /\ Len(docs[d].versions) = 1
        /\ docs' = [docs EXCEPT ![d].versions = Append(@, OwnText)]
        /\ UNCHANGED <<snap, removal>>
    BY <1>7 DEF WriteFinal, Existing
  <2>2. docs[d] \in Final
    BY <1>1, <2>1
  <2>3. docs[d].versions \in Seq(Text)
    BY <2>2 DEF Final
  <2>4. Append(docs[d].versions, OwnText) \in Seq(Text) /\ Len(Append(docs[d].versions, OwnText)) = 2
    <3>1. PICK s \in Seq(Text) : s = docs[d].versions
      BY <2>3
    <3>2. Append(s, OwnText) \in Seq(Text) /\ Len(Append(s, OwnText)) = Len(s) + 1
      BY <1>3, AppendProperties
    <3>3. Len(s) = 1
      BY <2>1, <3>1
    <3> QED
      BY <3>1, <3>2, <3>3
  <2>5. /\ docs'[d] \in Final /\ docs'[d].by = "system" /\ Len(docs'[d].versions) = 2
        /\ \A e \in DocId : e # d => docs'[e] = docs[e]
        /\ docs' \in [DocId -> Final \cup {None}]
    <3>1. docs'[d] = [docs[d] EXCEPT !.versions = Append(docs[d].versions, OwnText)]
      BY <1>1, <2>1
    <3>2. docs'[d].by = "system" /\ docs'[d].versions = Append(docs[d].versions, OwnText)
      BY <2>1, <2>2, <3>1 DEF Final
    <3>3. docs'[d] = [by |-> "system", versions |-> Append(docs[d].versions, OwnText)]
      BY <2>1, <2>2, <3>1 DEF Final
    <3>4. docs'[d] \in Final
      BY <2>4, <3>3 DEF Final
    <3> QED
      BY <1>1, <2>1, <2>4, <3>2, <3>4
  <2>6. FinalTypeOK'
    BY <1>0, <2>1, <2>5 DEF FinalInv, FinalTypeOK
  <2>7. \A e \in DocId : docs'[e] # None =>
            docs[e] # None /\ (docs'[e].by = "system" => docs[e].by = "system")
    BY <1>1, <2>1, <2>5
  <2>8. NothingBefore' /\ FinalizedOnce' /\ SnapshotsReviewed'
    BY <1>0, <2>1, <2>7 DEF FinalInv, NothingBefore, Archiving, At, FinalizedOnce, SnapshotsReviewed,
       Existing
  <2>9. docs'[d] # SystemDoc
    BY <2>5 DEF SystemDoc
  <2>10. ASSUME finalId \in DocId, docs'[finalId] = SystemDoc PROVE FALSE
    <3>1. finalId # d /\ docs[finalId] = SystemDoc
      BY <2>5, <2>9, <2>10
    <3>2. finalId \in Existing
      <4>1. docs[finalId] # None
        BY <1>3, <3>1, SystemIsFinal
      <4> QED
        BY <2>10, <4>1 DEF Existing
    <3> QED
      BY <2>1, <3>1, <3>2 DEF FinalInv, FinalizedOnce, Existing, SystemDoc
  <2>11. PublishedFiles'
    BY <1>0, <2>10 DEF PublishedFiles, SystemDoc
  <2> QED
    BY <1>2, <2>6, <2>8, <2>11 DEF FinalInv
<1> QED
  BY <1>4, <1>5, <1>6, <1>7 DEF AuthorMeddles

-----------------------------------------------------------------------------
(* The invariant is inductive: requests, author, edits, and the run before.  *)
LEMMA FinalStep == FinalInv /\ [FinalizationNext]_sagaVars => FinalInv'
<1> SUFFICES ASSUME FinalInv, [FinalizationNext]_sagaVars PROVE FinalInv'
  OBVIOUS
<1>0. IInv'
  BY FinalizationStep, IInvStep DEF FinalInv
<1>1. ASSUME NEW w \in Workers, Finalize(w) \/ Leave(w) \/ RequestDies(w) PROVE FinalInv'
  BY <1>0, <1>1, BeginningKeeps, StagingKeeps, MaterializingKeeps, CompletingKeeps, LeavingKeeps
  DEF Finalize
<1>2. CASE AuthorMeddles
  BY <1>0, <1>2, MeddlingKeeps
<1>3. CASE SaveDraft \/ UNCHANGED sagaVars
  BY <1>0, <1>3 DEF SaveDraft, WriteVersion, sagaVars, finalVars, FinalInv, FinalTypeOK, NothingBefore,
     Archiving, At, RequestsHoldTheText, FinalizedOnce, SnapshotsReviewed, PublishedFiles, Existing,
     SystemDoc
<1>4. CASE RunStep
  <2>1. ~Archiving /\ ~Archiving'
    BY <1>4, RunStepsBefore DEF FinalInv
  <2>2. UNCHANGED <<docs, finalId, file, snap, removal, events, worker>>
    BY <1>4 DEF RunStep, finalVars
  <2> QED
    BY <1>0, <2>1, <2>2 DEF FinalInv, FinalTypeOK, NothingBefore, Archiving, At, RequestsHoldTheText,
       FinalizedOnce, SnapshotsReviewed, PublishedFiles, Existing
<1> QED
  BY <1>1, <1>2, <1>3, <1>4 DEF FinalizationNext

(* The invariant holds in every reachable state of a chapter's finalization.  *)
THEOREM FinalizationInvariant == FinalizationSpec => []FinalInv
<1> QED
  BY FinalInitial, FinalStep, PTL DEF FinalizationSpec

(* However many requests finalize a chapter, and wherever they die, there    *)
(* is one completion event and never a second document of the run.          *)
THEOREM ChaptersFinalizedOnce == FinalizationSpec => []FinalizedOnce
<1>1. FinalInv => FinalizedOnce
  BY DEF FinalInv
<1> QED
  BY <1>1, FinalizationInvariant, PTL

(* A published text is the reviewed one and its files stay, whatever the     *)
(* requests still under way write and whatever the author does elsewhere.   *)
THEOREM PublishedTextStays == FinalizationSpec => []PublishedStays
<1>1. FinalInv => PublishedStays
  <2> SUFFICES ASSUME FinalInv, st.status = "COMPLETED", removal = "none", Promoted(finalId)
               PROVE  Proven
    BY DEF FinalInv, SnapshotsReviewed, PublishedStays
  <2>1. finalId \in DocId /\ docs[finalId] = SystemDoc
    BY DEF Promoted, Existing, SystemDoc
  <2> QED
    BY <2>1 DEF FinalInv, PublishedFiles, Proven
<1> QED
  BY <1>1, FinalizationInvariant, PTL
=============================================================================
