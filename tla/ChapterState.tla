---------------------------- MODULE ChapterState ----------------------------
(***************************************************************************)
(* The immutable value object ChapterProductionState of                    *)
(* workflows/chapter_production.py: the checkpoint of one chapter run and  *)
(* its legal edges.  This module has no variables.  For every method of    *)
(* the class it gives the condition under which the method does not raise  *)
(* (CanX) and the value it returns (X); the modules of the services build  *)
(* their transactions from these operators.                                *)
(*                                                                         *)
(* Data that is abstracted: a run has one chapter and one draft document,  *)
(* so a candidate is only the number of its immutable version (NoVersion   *)
(* when the document/version/hash triple is absent; the hash follows from  *)
(* the version).  awaiting_user is "an action is bound".  current_node is  *)
(* a function of the status.  The failure codes are the three classes the  *)
(* code tells apart.                                                       *)
(***************************************************************************)
EXTENDS Integers, FiniteSets

CONSTANTS
    ReportIds,  \* identities of review_reports rows
    ActionIds,  \* identities of action_requests rows
    None        \* the absent reference

NoVersion == 0

Stage == {"editor", "chief_editor", "lore"}
Outcome == {"passed", "warning", "blocking"}
ActionKind == {"author_revision", "review_warning", "review_revision"}
FailureClass == {"provider", "archive", "reconciliation"}

ReviewStatus == {"EDITOR_REVIEW", "CHIEF_FINAL_REVIEW", "LORE_FINAL_REVIEW"}
Finalized == {"REVISION_READY", "ARCHIVE_UPDATE", "COMPLETED"}
Terminal == {"COMPLETED", "CANCELLED"}
Working == {"DRAFTING", "AUTHOR_REVISION", "REVIEW_REVISION"} \cup ReviewStatus
             \cup {"REVISION_READY", "ARCHIVE_UPDATE"}
Status == Working \cup Terminal \cup {"FAILED"}

ASSUME NoneAssumption ==
    None \notin ReportIds \cup ActionIds \cup Stage \cup ActionKind \cup FailureClass \cup Status

State ==
    [status     : Status,
     chief      : BOOLEAN,                      \* chief_editor_required
     version    : Nat,
     report     : [Stage -> ReportIds \cup {None}],
     action     : ActionIds \cup {None},
     kind       : ActionKind \cup {None},
     failedFrom : Working \cup {None},
     failure    : FailureClass \cup {None}]

NoReports == [g \in Stage |-> None]

InitialState(chief) ==
    [status |-> "DRAFTING", chief |-> chief, version |-> NoVersion,
     report |-> NoReports, action |-> None, kind |-> None,
     failedFrom |-> None, failure |-> None]

Awaiting(s) == s.action # None
Phase(s) == IF s.status = "FAILED" THEN s.failedFrom ELSE s.status
HasReport(s, g) == s.report[g] # None
HasAnyReport(s) == \E g \in Stage : HasReport(s, g)
RequiredStages(s) == IF s.chief THEN Stage ELSE Stage \ {"chief_editor"}

-----------------------------------------------------------------------------
(* What the constructor accepts (__post_init__).                           *)

ActionBound(s) == (s.action = None) <=> (s.kind = None)

FailureBound(s) ==
    IF s.status = "FAILED"
    THEN s.failedFrom \in Working /\ s.failure \in FailureClass /\ ~Awaiting(s)
    ELSE s.failedFrom = None /\ s.failure = None

ReportOrder(s) ==
    /\ HasAnyReport(s) => s.version # NoVersion
    /\ HasReport(s, "chief_editor") => s.chief /\ HasReport(s, "editor")
    /\ HasReport(s, "lore") =>
          HasReport(s, "editor") /\ (s.chief => HasReport(s, "chief_editor"))

(* The stage a review status is waiting for: a report of it may be bound    *)
(* only together with a pending warning (Lore excepted), and an action only *)
(* if it is that warning.                                                   *)
WarningBound(s, g) ==
    Awaiting(s) => s.kind = "review_warning" /\ HasReport(s, g)

PhaseBound(s) ==
    /\ Phase(s) \notin {"DRAFTING", "CANCELLED"} => s.version # NoVersion
    /\ Phase(s) = "DRAFTING" => ~HasAnyReport(s) /\ ~Awaiting(s)
    /\ Phase(s) = "AUTHOR_REVISION" =>
          s.kind = "author_revision" /\ ~HasAnyReport(s)
    /\ Phase(s) = "EDITOR_REVIEW" =>
          /\ ~HasReport(s, "chief_editor") /\ ~HasReport(s, "lore")
          /\ WarningBound(s, "editor")
          /\ HasReport(s, "editor") => Awaiting(s)
    /\ Phase(s) = "CHIEF_FINAL_REVIEW" =>
          /\ s.chief /\ HasReport(s, "editor") /\ ~HasReport(s, "lore")
          /\ WarningBound(s, "chief_editor")
          /\ HasReport(s, "chief_editor") => Awaiting(s)
    /\ Phase(s) = "LORE_FINAL_REVIEW" =>
          /\ \A g \in RequiredStages(s) \ {"lore"} : HasReport(s, g)
          /\ WarningBound(s, "lore")
    /\ Phase(s) = "REVIEW_REVISION" =>
          /\ HasAnyReport(s)
          /\ Awaiting(s) => s.kind = "review_revision"
    /\ Phase(s) \in Finalized =>
          (\A g \in RequiredStages(s) : HasReport(s, g)) /\ ~Awaiting(s)
    /\ Phase(s) = "CANCELLED" => ~Awaiting(s)

ValidState(s) ==
    ActionBound(s) /\ FailureBound(s) /\ ReportOrder(s) /\ PhaseBound(s)

-----------------------------------------------------------------------------
(* Private helpers of the class.                                           *)

(* Mutant of WithoutAction: only the kind of the action is dropped.         *)
WithoutKind(s, status) == [s EXCEPT !.status = status, !.kind = None]

(* _without_action *)
WithoutAction(s, status) == [s EXCEPT !.status = status, !.action = None, !.kind = None]

(* _new_version_for_review: a new version drops every report and action     *)
CanTakeNewVersion(s, v) == s.version # NoVersion /\ v # s.version
(* Mutant of NewVersionForReview: the reports of the old text stay bound.   *)
NewVersionKeepingReports(s, v) ==
    [s EXCEPT !.status = "EDITOR_REVIEW", !.version = v,
              !.action = None, !.kind = None, !.failedFrom = None, !.failure = None]

NewVersionForReview(s, v) ==
    [s EXCEPT !.status = "EDITOR_REVIEW", !.version = v, !.report = NoReports,
              !.action = None, !.kind = None, !.failedFrom = None, !.failure = None]

(* Mutant of NextReviewStatus: the policy of the run is ignored.            *)
NextReviewSkipsChief(s) == "LORE_FINAL_REVIEW"

(* _next_review_status *)
NextReviewStatus(s) ==
    IF s.status = "EDITOR_REVIEW" /\ s.chief THEN "CHIEF_FINAL_REVIEW"
                                             ELSE "LORE_FINAL_REVIEW"

(* A new author gate on version v: the common result of submit_draft and of *)
(* the committed branch of reconcile_failure while drafting.                *)
AuthorGate(s, v, a) ==
    [s EXCEPT !.status = "AUTHOR_REVISION", !.version = v, !.report = NoReports,
              !.action = a, !.kind = "author_revision",
              !.failedFrom = None, !.failure = None]

-----------------------------------------------------------------------------
(* The public edges.                                                       *)

CanSubmitDraft(s, v) ==
    /\ s.status = "DRAFTING"
    /\ v # NoVersion
    /\ v # s.version
SubmitDraft(s, v, a) == AuthorGate(s, v, a)

ExpectedStage(s) ==
    CASE s.status = "EDITOR_REVIEW" -> "editor"
      [] s.status = "CHIEF_FINAL_REVIEW" -> "chief_editor"
      [] s.status = "LORE_FINAL_REVIEW" -> "lore"
      [] OTHER -> None

CanRecordReview(s, g) == ~Awaiting(s) /\ s.status \in ReviewStatus /\ g = ExpectedStage(s)
RecordPassed(s, g, r) == [s EXCEPT !.report[g] = r, !.status = NextReviewStatus(s)]
RecordWarning(s, g, r, a) ==
    [s EXCEPT !.report[g] = r, !.action = a, !.kind = "review_warning"]
RecordBlocking(s, g, r, a) ==
    [s EXCEPT !.report[g] = r, !.action = a, !.kind = "review_revision",
              !.status = "REVIEW_REVISION"]

(* resolve_action, by decision; the caller's Gate has the binding and its kind *)
Accept(s) == WithoutAction(s, "EDITOR_REVIEW")
RequestDraft(s) == WithoutAction(s, "DRAFTING")
AcceptWarning(s) == WithoutAction(s, NextReviewStatus(s))
RequestRevision(s) == WithoutAction(s, "REVIEW_REVISION")
Cancel(s) == [WithoutAction(s, "CANCELLED") EXCEPT !.failedFrom = None, !.failure = None]
CanManualEdit(s, v) == Awaiting(s) /\ CanTakeNewVersion(s, v)

(* reconcile_stale_action *)
CanAdoptStale(s, current) == Awaiting(s) /\ CanTakeNewVersion(s, current)

CanSelectReviewRevision(s) == s.status = "REVISION_READY"
SelectReviewRevision(s) == WithoutAction(s, "REVIEW_REVISION")

CanSubmitReviewRevision(s, v) ==
    s.status = "REVIEW_REVISION" /\ ~Awaiting(s) /\ CanTakeNewVersion(s, v)

CanInvalidate(s, v) ==
    /\ s.status \in ReviewStatus \cup {"REVISION_READY", "ARCHIVE_UPDATE"}
    /\ ~Awaiting(s)
    /\ CanTakeNewVersion(s, v)

(* validate_live_readiness: current is the locked current version and live  *)
(* the locked report rows, a function from report ids to rows.              *)
LiveReady(s, current, live) ==
    /\ Phase(s) \in Finalized \cup {"LORE_FINAL_REVIEW"}
    /\ ~Awaiting(s)
    /\ HasReport(s, "lore")
    /\ current = s.version
    /\ \A g \in Stage : HasReport(s, g) =>
          LET row == live[s.report[g]]
          IN  row.stage = g /\ row.version = s.version /\ row.outcome # "blocking"

CanFinalizeReady(s, current, live) ==
    s.status = "LORE_FINAL_REVIEW" /\ LiveReady(s, current, live)
FinalizeReady(s) == [s EXCEPT !.status = "REVISION_READY"]

CanBeginArchive(s, current, live) ==
    s.status = "REVISION_READY" /\ LiveReady(s, current, live)
BeginArchive(s) == [s EXCEPT !.status = "ARCHIVE_UPDATE"]

CanComplete(s, current, live) ==
    s.status = "ARCHIVE_UPDATE" /\ LiveReady(s, current, live)
Complete(s) == [s EXCEPT !.status = "COMPLETED"]

(* Mutant of CanFail: a run may fail that has already failed.               *)
CanFailTwice(s) == ~Awaiting(s)

CanFail(s) == s.status \in Working /\ ~Awaiting(s)
Fail(s, class) ==
    [s EXCEPT !.status = "FAILED", !.failedFrom = s.status, !.failure = class]

(* Mutant of Resume: the failure code stays.                                *)
ResumeKeepingCode(s) == [s EXCEPT !.status = s.failedFrom, !.failedFrom = None]

Resume(s) == [s EXCEPT !.status = s.failedFrom, !.failedFrom = None, !.failure = None]
CanRecover(s) ==
    s.status = "FAILED" /\ s.failure # "reconciliation" /\ s.failedFrom \notin Finalized
CanRecoverFinalized(s, current, live) ==
    /\ s.status = "FAILED" /\ s.failure # "reconciliation" /\ s.failedFrom \in Finalized
    /\ LiveReady(s, current, live)

(* reconcile_failure, by proved outcome *)
CanReconcileNoWrite(s, current, live) ==
    /\ s.status = "FAILED" /\ s.failure = "reconciliation"
    /\ current = s.version
    /\ s.failedFrom \in Finalized => LiveReady(s, current, live)
CanReconcileCommitted(s, current) ==
    /\ s.status = "FAILED" /\ s.failure = "reconciliation"
    /\ current # NoVersion /\ current # s.version
    /\ s.version = NoVersion => s.failedFrom = "DRAFTING"
=============================================================================
