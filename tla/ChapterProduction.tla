-------------------------- MODULE ChapterProduction --------------------------
(***************************************************************************)
(* One chapter production run as the domain sees it: the latest checkpoint *)
(* moves along the edges of ChapterState while the facts those edges are   *)
(* validated against -- the document's current version, the review report  *)
(* rows and the action request rows -- live in PostgreSQL and are loaded   *)
(* under lock.  Every action is one method of ChapterProductionState       *)
(* together with the row it consumes or creates; WriteVersion is any other *)
(* writer of the draft document (an autosave, a restore, the candidate of  *)
(* a provider).                                                            *)
(***************************************************************************)
EXTENDS ChapterState

CONSTANT MaxVersion   \* bound on the versions of the draft document
ASSUME VersionBound == MaxVersion \in Nat

VARIABLES
    st,       \* the value object in the latest checkpoint
    canon,    \* number of the draft document's current version
    reports,  \* review_reports rows by id
    actions   \* action_requests rows by id

vars == <<st, canon, reports, actions>>

ReportRow == [stage : Stage, version : Nat, outcome : Outcome]
ActionRow == [kind : ActionKind, version : Nat,
              status : {"pending", "approved", "revised", "cancelled"}]
ASSUME RowAssumption == None \notin ReportRow \cup ActionRow

Pending == {a \in ActionIds : actions[a] # None /\ actions[a].status = "pending"}

Init ==
    /\ st \in {InitialState(chief) : chief \in BOOLEAN}
    /\ canon = NoVersion
    /\ reports = [r \in ReportIds |-> None]
    /\ actions = [a \in ActionIds |-> None]

-----------------------------------------------------------------------------
(* The live rows an edge is validated against.                             *)

(* ActionBinding: the only pending action, exactly as the checkpoint binds it *)
Gate(kind) ==
    /\ st.action # None
    /\ st.kind = kind
    /\ actions[st.action] = [kind |-> kind, version |-> st.version, status |-> "pending"]
    /\ Pending = {st.action}

CurrentGate(kind) == Gate(kind) /\ canon = st.version

ResolveRow(status) == actions' = [actions EXCEPT ![st.action].status = status]

NewAction(a, kind, v) ==
    /\ actions[a] = None
    /\ Pending = {}
    /\ actions' = [actions EXCEPT ![a] = [kind |-> kind, version |-> v, status |-> "pending"]]

(* Mutant of NewReport: every row is written as the first stage's.          *)
NewEditorReport(r, g, outcome) ==
    /\ reports[r] = None
    /\ reports' = [reports EXCEPT
                     ![r] = [stage |-> "editor", version |-> st.version, outcome |-> outcome]]

NewReport(r, g, outcome) ==
    /\ reports[r] = None
    /\ reports' = [reports EXCEPT
                     ![r] = [stage |-> g, version |-> st.version, outcome |-> outcome]]

-----------------------------------------------------------------------------
(* Drafting and the author's gate.                                         *)

WriteVersion ==
    /\ canon < MaxVersion
    /\ canon' = canon + 1
    /\ UNCHANGED <<st, reports, actions>>

SubmitDraftFor(a) ==
    /\ CanSubmitDraft(st, canon)
    /\ NewAction(a, "author_revision", canon)
    /\ st' = SubmitDraft(st, canon, a)
    /\ UNCHANGED <<canon, reports>>

AcceptDraft ==
    /\ CurrentGate("author_revision")
    /\ st' = Accept(st)
    /\ ResolveRow("approved")
    /\ UNCHANGED <<canon, reports>>

RequestDraftRevision ==
    /\ CurrentGate("author_revision")
    /\ st' = RequestDraft(st)
    /\ ResolveRow("revised")
    /\ UNCHANGED <<canon, reports>>

(* The edit is written and bound by one decision; RevisionSaga splits them. *)
SubmitManualEdit ==
    /\ \E kind \in ActionKind : CurrentGate(kind)
    /\ canon < MaxVersion
    /\ canon' = canon + 1
    /\ CanManualEdit(st, canon + 1)
    /\ st' = NewVersionForReview(st, canon + 1)
    /\ ResolveRow("revised")
    /\ UNCHANGED reports

ReconcileStaleAction ==
    /\ \E kind \in ActionKind : Gate(kind)
    /\ CanAdoptStale(st, canon)
    /\ st' = NewVersionForReview(st, canon)
    /\ ResolveRow("cancelled")
    /\ UNCHANGED <<canon, reports>>

CancelRun ==
    /\ \E kind \in ActionKind : CurrentGate(kind)
    /\ st' = Cancel(st)
    /\ ResolveRow("cancelled")
    /\ UNCHANGED <<canon, reports>>

-----------------------------------------------------------------------------
(* Reviews.                                                                *)

RecordPassedReview(r) ==
    LET g == ExpectedStage(st)
    IN  /\ CanRecordReview(st, g)
        /\ NewReport(r, g, "passed")
        /\ st' = RecordPassed(st, g, r)
        /\ UNCHANGED <<canon, actions>>

RecordFindings(r, a, outcome, kind) ==
    LET g == ExpectedStage(st)
    IN  /\ CanRecordReview(st, g)
        /\ canon = st.version
        /\ NewReport(r, g, outcome)
        /\ NewAction(a, kind, st.version)
        /\ st' = IF outcome = "warning" THEN RecordWarning(st, g, r, a)
                                        ELSE RecordBlocking(st, g, r, a)
        /\ UNCHANGED canon

RecordWarningReview(r, a) == RecordFindings(r, a, "warning", "review_warning")
RecordBlockingReview(r, a) == RecordFindings(r, a, "blocking", "review_revision")

AcceptReviewWarning ==
    /\ CurrentGate("review_warning")
    /\ st' = AcceptWarning(st)
    /\ ResolveRow("approved")
    /\ UNCHANGED <<canon, reports>>

RequestReviewRevision ==
    /\ \E kind \in {"review_warning", "review_revision"} : CurrentGate(kind)
    /\ st' = RequestRevision(st)
    /\ ResolveRow("revised")
    /\ UNCHANGED <<canon, reports>>

(* The edges that change only the checkpoint.                              *)
Move(next) == st' = next /\ UNCHANGED <<canon, reports, actions>>

RequestSelectedReviewRevision ==
    CanSelectReviewRevision(st) /\ Move(SelectReviewRevision(st))
SubmitReviewRevision ==
    CanSubmitReviewRevision(st, canon) /\ Move(NewVersionForReview(st, canon))
InvalidateForNewVersion ==
    CanInvalidate(st, canon) /\ Move(NewVersionForReview(st, canon))
FinalizeRevisionReady ==
    CanFinalizeReady(st, canon, reports) /\ Move(FinalizeReady(st))
BeginArchiveUpdate ==
    CanBeginArchive(st, canon, reports) /\ Move(BeginArchive(st))
CompleteRun ==
    CanComplete(st, canon, reports) /\ Move(Complete(st))

-----------------------------------------------------------------------------
(* Failure and recovery.                                                   *)

FailRun(class) == CanFail(st) /\ Move(Fail(st, class))
Recover == CanRecover(st) /\ Move(Resume(st))
RecoverFinalized == CanRecoverFinalized(st, canon, reports) /\ Move(Resume(st))
ReconcileNoWrite == CanReconcileNoWrite(st, canon, reports) /\ Move(Resume(st))

ReconcileCommittedDraft(a) ==
    /\ CanReconcileCommitted(st, canon)
    /\ st.failedFrom = "DRAFTING"
    /\ NewAction(a, "author_revision", canon)
    /\ st' = AuthorGate(st, canon, a)
    /\ UNCHANGED <<canon, reports>>

ReconcileCommittedVersion ==
    /\ CanReconcileCommitted(st, canon)
    /\ st.failedFrom # "DRAFTING"
    /\ Move(NewVersionForReview(st, canon))

-----------------------------------------------------------------------------
Next ==
    \/ WriteVersion
    \/ \E a \in ActionIds : SubmitDraftFor(a) \/ ReconcileCommittedDraft(a)
    \/ AcceptDraft
    \/ RequestDraftRevision
    \/ SubmitManualEdit
    \/ ReconcileStaleAction
    \/ CancelRun
    \/ \E r \in ReportIds : RecordPassedReview(r)
    \/ \E r \in ReportIds, a \in ActionIds :
          RecordWarningReview(r, a) \/ RecordBlockingReview(r, a)
    \/ AcceptReviewWarning
    \/ RequestReviewRevision
    \/ RequestSelectedReviewRevision
    \/ SubmitReviewRevision
    \/ InvalidateForNewVersion
    \/ FinalizeRevisionReady
    \/ BeginArchiveUpdate
    \/ CompleteRun
    \/ \E class \in FailureClass : FailRun(class)
    \/ Recover
    \/ RecoverFinalized
    \/ ReconcileNoWrite
    \/ ReconcileCommittedVersion

Spec == Init /\ [][Next]_vars

-----------------------------------------------------------------------------
(* Every variable keeps its type; the checkpoint is a value of the class.  *)
TypeOK ==
    /\ st \in State
    /\ canon \in 0 .. MaxVersion
    /\ reports \in [ReportIds -> ReportRow \cup {None}]
    /\ actions \in [ActionIds -> ActionRow \cup {None}]

(* No legal call of a method dies in the constructor: whatever edge is      *)
(* taken, and in particular after a failure was recovered or reconciled,    *)
(* the new value satisfies every check of __post_init__, so a checkpoint    *)
(* that was written can always be read back.                                *)
CheckpointsReadable == ValidState(st)

(* A report bound by the checkpoint is a row of its own stage for exactly   *)
(* the candidate version: no edge carries a review over to another text.    *)
ReportsMatchCandidate ==
    \A g \in Stage : HasReport(st, g) =>
        LET row == reports[st.report[g]]
        IN  row # None /\ row.stage = g /\ row.version = st.version

(* A version that got a blocking report is never ready, archived or         *)
(* completed, not even through a failure and its recovery.                  *)
NoBlockedVersionReleased ==
    Phase(st) \in Finalized =>
        \A r \in ReportIds : reports[r] # None =>
            ~(reports[r].version = st.version /\ reports[r].outcome = "blocking")

(* The checkpoint awaits the user exactly while one action row is pending,  *)
(* and that row is the one it binds, for the candidate it binds.            *)
GateMatchesRows ==
    /\ Pending = (IF Awaiting(st) THEN {st.action} ELSE {})
    /\ Awaiting(st) =>
          actions[st.action].version = st.version /\ actions[st.action].kind = st.kind

-----------------------------------------------------------------------------
(* The abstract promise.  A failure hides the phase it came from, so it is  *)
(* a stutter; a report approves once it is bound, does not block, and no    *)
(* warning of its stage waits for the author.                               *)
GatePhase(s) ==
    CASE Phase(s) \in {"DRAFTING", "AUTHOR_REVISION"} -> "writing"
      [] Phase(s) \in ReviewStatus -> "review"
      [] Phase(s) = "REVIEW_REVISION" -> "rework"
      [] Phase(s) \in {"REVISION_READY", "ARCHIVE_UPDATE"} -> "released"
      [] Phase(s) = "COMPLETED" -> "completed"
      [] OTHER -> "cancelled"

Approved(s, rows) ==
    IF Phase(s) \in ReviewStatus \cup Finalized
    THEN {g \in Stage :
            /\ HasReport(s, g)
            /\ rows[s.report[g]].outcome # "blocking"
            /\ ~(Awaiting(s) /\ g = ExpectedStage(s))}
    ELSE {}

Abstract == INSTANCE ReleaseGate WITH
    phase <- GatePhase(st), candidate <- st.version,
    required <- RequiredStages(st), approved <- Approved(st, reports)

(* Every edge of the run, with its failures and its reconciliations, is a   *)
(* step of the release gate or none: approvals are given in policy order,   *)
(* lost with the text, and necessary for the release.                       *)
ImplementsReleaseGate == Abstract!Spec

(* The same, for the state: what is released carries every approval.        *)
ReleasedIsApproved == Abstract!ReleasedIsApproved
=============================================================================
