----------------------------- MODULE ReviewClaim -----------------------------
(***************************************************************************)
(* The review half of a chapter run as the services execute it              *)
(* (chapter_review_coordinator.py, _claim.py, _persistence.py): a reviewer  *)
(* call is split into a transaction that stores a claim in the run's        *)
(* metadata, a provider call with no lock held, and a transaction that      *)
(* writes the report or gives the claim back.  Between them other requests, *)
(* other coordinators, the author's editor and an operator may act.         *)
(*                                                                          *)
(* A transaction locks the chapter and the run first, so each is one        *)
(* action.  Every way a coordinator can vanish -- a killed worker, a commit *)
(* whose fate is unknown, an error the service swallows after rolling back  *)
(* -- leaves the database as it is and is Crash; a commit that was applied  *)
(* although the caller saw an error is the transaction followed by Crash.   *)
(*                                                                          *)
(* The author's half is coarse here (RevisionSaga has it): SubmitDraftFor,  *)
(* AcceptDraft and ReviseCandidate stand for whole sagas.                   *)
(*                                                                          *)
(* The request hash covers other documents of the project.  Those that are  *)
(* read again when the answer arrives (style guide, summary, cast, ...) are *)
(* numbered by context.  The settings, which only the lore reviewer reads,  *)
(* are numbered by settings: the run's first lore claim pins them in the    *)
(* run's metadata and every later request of the run is built from the pin. *)
(***************************************************************************)
EXTENDS ChapterProduction

CONSTANTS
    Coordinators,  \* concurrent requests that execute the current review
    MaxClaims,     \* bound on the claims ever issued
    MaxContext,    \* bound on the edits of the other documents
    MaxSettings    \* bound on the edits of the settings
ASSUME ClaimBounds == MaxClaims \in Nat /\ MaxContext \in Nat /\ MaxSettings \in Nat

VARIABLES
    idx,       \* index of the latest checkpoint
    claim,     \* run.metadata["reviewer_claim"], or None
    issued,    \* claims issued so far; a claim id is a fresh number (new_attempt_id)
    context,   \* the other documents a request reads, as they are now
    settings,  \* the project's setting documents, as they are now
    pinned,    \* run.metadata["setting_context_evidence"]: the settings pinned, if any
    coord,     \* what each coordinator holds outside the database
    evidence   \* raw_report of the report rows: the claim and what its request read

libraryVars == <<context, settings, pinned>>
reviewVars == <<st, canon, reports, actions, idx, claim, issued, context, settings, pinned,
                coord, evidence>>

Answer == Outcome \cup {"failed", "cancelled"}
Claim == [id : Nat, stage : Stage, version : Nat, idx : Nat, context : Nat,
          settings : SUBSET Nat, status : {"CLAIMED", "FAILED"}]
Idle == [held |-> None, answer |-> None]

ReviewInit ==
    /\ Init
    /\ idx = 0
    /\ claim = None
    /\ issued = 0
    /\ context = 0
    /\ settings = 0
    /\ pinned = {}
    /\ coord = [c \in Coordinators |-> Idle]
    /\ evidence = [r \in ReportIds |-> None]

-----------------------------------------------------------------------------
Checkpoint(next) == st' = next /\ idx' = idx + 1

(* _resolve_review_setting_bundle: the lore reviewer reads the settings the *)
(* run has pinned, and pins the current ones if it has none.                *)
SettingsRead(stage) ==
    IF stage # "lore" THEN {} ELSE IF pinned = {} THEN {settings} ELSE pinned

(* The operation key hashes the request and where the run stands.           *)
Key(k) == <<k.stage, k.version, k.idx, k.context, k.settings>>
CurrentKey == <<ExpectedStage(st), canon, idx, context, SettingsRead(ExpectedStage(st))>>

(* build_review_context_locked: a review is open and its candidate current  *)
ReviewOpen == st.status \in ReviewStatus /\ canon = st.version

ReportsFor(g) == {r \in ReportIds :
    reports[r] # None /\ reports[r].version = st.version /\ reports[r].stage = g}

Claimed == claim # None /\ claim.status = "CLAIMED"
HoldsClaim(c) ==
    /\ Claimed /\ coord[c].held # None
    /\ claim.id = coord[c].held.id
    /\ Key(claim) = Key(coord[c].held)

Asking(c) == coord[c].held # None /\ coord[c].answer = None
Answered(c, answers) == coord[c].answer \in answers
Return(c) == coord' = [coord EXCEPT ![c] = Idle]

(* RevisionReadinessStore.enter: the rows of the candidate are exactly the  *)
(* reports the checkpoint binds, and the domain agrees.                     *)
CanEnterReady(s, rows) ==
    /\ {r \in ReportIds : rows[r] # None /\ rows[r].version = s.version}
          = {s.report[g] : g \in RequiredStages(s)}
    /\ CanFinalizeReady(s, canon, rows)

(* A Lore review without an open warning releases in the same transaction.  *)
ReviewEnds(s) == s.status = "LORE_FINAL_REVIEW" /\ HasReport(s, "lore") /\ ~Awaiting(s)
(* Mutant of AfterReview: ready as soon as the last stage is reached.       *)
ReadyOnEnteringLore(s, rows) ==
    Checkpoint(IF s.status = "LORE_FINAL_REVIEW" THEN FinalizeReady(s) ELSE s)

AfterReview(s, rows) ==
    IF ReviewEnds(s) THEN CanEnterReady(s, rows) /\ Checkpoint(FinalizeReady(s))
                     ELSE Checkpoint(s)

-----------------------------------------------------------------------------
(* claim_current_review                                                    *)

RecoverFailedClaim ==
    /\ st.status = "FAILED" /\ st.failedFrom \in ReviewStatus /\ st.failure = "provider"
    /\ claim # None /\ claim.status = "FAILED"
    /\ Checkpoint(Resume(st))
    /\ claim' = None
    /\ UNCHANGED <<canon, reports, actions, issued, libraryVars, coord, evidence>>

ClaimReview(c) ==
    /\ coord[c] = Idle
    /\ issued < MaxClaims
    /\ ReviewOpen /\ ~Awaiting(st)
    /\ claim = None
    /\ ReportsFor(ExpectedStage(st)) = {}
    /\ issued' = issued + 1
    /\ claim' = [id |-> issued + 1, stage |-> ExpectedStage(st), version |-> canon,
                 idx |-> idx, context |-> context,
                 settings |-> SettingsRead(ExpectedStage(st)), status |-> "CLAIMED"]
    /\ pinned' = IF ExpectedStage(st) = "lore" THEN claim'.settings ELSE pinned
    /\ coord' = [coord EXCEPT ![c].held = claim']
    /\ UNCHANGED <<st, canon, reports, actions, idx, context, settings, evidence>>

(* ChapterReviewCoordinator._provider: outside any transaction.  A missing  *)
(* agent and a cancelled request are the same: the claim is given back.     *)
ProviderReturns(c, answer) ==
    /\ Asking(c)
    /\ coord' = [coord EXCEPT ![c].answer = answer]
    /\ UNCHANGED <<st, canon, reports, actions, idx, claim, issued, libraryVars, evidence>>

Crash(c) ==
    /\ coord[c] # Idle
    /\ Return(c)
    /\ UNCHANGED <<st, canon, reports, actions, idx, claim, issued, libraryVars, evidence>>

ReleaseClaim(c) ==
    /\ Answered(c, {"cancelled"})
    /\ claim' = IF HoldsClaim(c) THEN None ELSE claim
    /\ Return(c)
    /\ UNCHANGED <<st, canon, reports, actions, idx, issued, libraryVars, evidence>>

CanFailReview(c) ==
    HoldsClaim(c) /\ st.status \in ReviewStatus /\ CanFail(st) /\ claim.idx = idx

FailReview(c) ==
    /\ Answered(c, {"failed"})
    /\ CanFailReview(c)
    /\ Checkpoint(Fail(st, "provider"))
    /\ claim' = [claim EXCEPT !.status = "FAILED"]
    /\ Return(c)
    /\ UNCHANGED <<canon, reports, actions, issued, libraryVars, evidence>>

(* Mutant of CanPersist: the request is not built again.                    *)
CanPersistUnchecked(c) ==
    ReviewOpen /\ HoldsClaim(c) /\ ReportsFor(ExpectedStage(st)) = {}

(* _persist_current_review_locked: the request is built again and must be   *)
(* the claimed one.                                                         *)
CanPersist(c) ==
    /\ ReviewOpen
    /\ HoldsClaim(c)
    /\ Key(coord[c].held) = CurrentKey
    /\ ReportsFor(ExpectedStage(st)) = {}

Persisting(c, r, outcome) ==
    /\ Answered(c, {outcome})
    /\ CanPersist(c)
    /\ CanRecordReview(st, ExpectedStage(st))
    /\ NewReport(r, ExpectedStage(st), outcome)
    /\ evidence' = [evidence EXCEPT ![r] = [claim |-> coord[c].held.id,
                                            context |-> coord[c].held.context,
                                            settings |-> coord[c].held.settings]]
    /\ claim' = None
    /\ Return(c)
    /\ UNCHANGED <<canon, issued, libraryVars>>

PersistPassed(c, r) ==
    /\ Persisting(c, r, "passed")
    /\ AfterReview(RecordPassed(st, ExpectedStage(st), r), reports')
    /\ UNCHANGED actions

PersistWarning(c, r, a) ==
    /\ Persisting(c, r, "warning")
    /\ NewAction(a, "review_warning", st.version)
    /\ Checkpoint(RecordWarning(st, ExpectedStage(st), r, a))

PersistBlocking(c, r, a) ==
    /\ Persisting(c, r, "blocking")
    /\ NewAction(a, "review_revision", st.version)
    /\ Checkpoint(RecordBlocking(st, ExpectedStage(st), r, a))

(* A late or stale answer is refused and its coordinator returns an error.  *)
Refuse(c) ==
    /\ \/ Answered(c, {"failed"}) /\ ~CanFailReview(c)
       \/ Answered(c, Outcome) /\ ~CanPersist(c)
    /\ Return(c)
    /\ UNCHANGED <<st, canon, reports, actions, idx, claim, issued, libraryVars, evidence>>

(* Mutant of AcknowledgeNoWrite: the checkpoint is appended, the claim stays.*)
AcknowledgeKeepingClaim ==
    /\ ReviewOpen /\ ~Awaiting(st)
    /\ Claimed
    /\ claim.idx = idx /\ claim.stage = ExpectedStage(st)
    /\ ReportsFor(ExpectedStage(st)) = {}
    /\ Checkpoint(st)
    /\ UNCHANGED <<canon, reports, actions, claim, issued, libraryVars, coord, evidence>>

(* acknowledge_no_write: an operator has proved that no report was written. *)
AcknowledgeNoWrite ==
    /\ ReviewOpen /\ ~Awaiting(st)
    /\ Claimed
    /\ claim.idx = idx /\ claim.stage = ExpectedStage(st)
    /\ ReportsFor(ExpectedStage(st)) = {}
    /\ Checkpoint(st)
    /\ claim' = None
    /\ UNCHANGED <<canon, reports, actions, issued, libraryVars, coord, evidence>>

-----------------------------------------------------------------------------
(* resolve_review_action_locked                                            *)

FindingIs(outcome) ==
    \E g \in Stage : HasReport(st, g) /\ reports[st.report[g]].outcome = outcome

AcceptReview ==
    /\ CurrentGate("review_warning") /\ FindingIs("warning")
    /\ ResolveRow("approved")
    /\ AfterReview(AcceptWarning(st), reports)
    /\ UNCHANGED <<canon, reports, claim, issued, libraryVars, coord, evidence>>

RequestRevisionOfReview ==
    /\ \/ CurrentGate("review_warning") /\ FindingIs("warning")
       \/ CurrentGate("review_revision") /\ FindingIs("blocking")
    /\ ResolveRow("revised")
    /\ Checkpoint(RequestRevision(st))
    /\ UNCHANGED <<canon, reports, claim, issued, libraryVars, coord, evidence>>

(* studio_review_revision._record_selection of a ready candidate            *)
SelectRevision ==
    /\ CanSelectReviewRevision(st) /\ canon = st.version
    /\ Checkpoint(SelectReviewRevision(st))
    /\ UNCHANGED <<canon, reports, actions, claim, issued, libraryVars, coord, evidence>>

-----------------------------------------------------------------------------
(* The rest of the run and the other writers of its documents.             *)

AuthorStep ==
    /\ AcceptDraft \/ \E a \in ActionIds : SubmitDraftFor(a)
    /\ idx' = idx + 1
    /\ UNCHANGED <<claim, issued, libraryVars, coord, evidence>>

ReviseCandidate ==
    /\ canon = st.version /\ canon < MaxVersion
    /\ CanSubmitReviewRevision(st, canon + 1)
    /\ canon' = canon + 1
    /\ Checkpoint(NewVersionForReview(st, canon + 1))
    /\ UNCHANGED <<reports, actions, claim, issued, libraryVars, coord, evidence>>

(* PUT /documents/{id}/content and restore look only at the document.       *)
EditDraft ==
    WriteVersion /\ UNCHANGED <<idx, claim, issued, libraryVars, coord, evidence>>

EditContext ==
    /\ context < MaxContext
    /\ context' = context + 1
    /\ UNCHANGED <<st, canon, reports, actions, idx, claim, issued, settings, pinned, coord, evidence>>

EditSettings ==
    /\ settings < MaxSettings
    /\ settings' = settings + 1
    /\ UNCHANGED <<st, canon, reports, actions, idx, claim, issued, context, pinned, coord, evidence>>

CoordinatorStep(c) ==
    \/ \E answer \in Answer : ProviderReturns(c, answer)
    \/ ReleaseClaim(c)
    \/ FailReview(c)
    \/ \E r \in ReportIds : PersistPassed(c, r)
    \/ \E r \in ReportIds, a \in ActionIds : PersistWarning(c, r, a) \/ PersistBlocking(c, r, a)
    \/ Refuse(c)

ReviewNext ==
    \/ \E c \in Coordinators : ClaimReview(c) \/ CoordinatorStep(c) \/ Crash(c)
    \/ RecoverFailedClaim
    \/ AcknowledgeNoWrite
    \/ AcceptReview
    \/ RequestRevisionOfReview
    \/ SelectRevision
    \/ AuthorStep
    \/ ReviseCandidate
    \/ EditDraft
    \/ EditContext
    \/ EditSettings

ReviewSpec == ReviewInit /\ [][ReviewNext]_reviewVars

(* A provider call ends by its own deadline and asyncio resumes its caller; *)
(* an operator acknowledges a claim nobody works on; the author retries a   *)
(* failed review.  Nothing makes a user open or decide a review.            *)
ReviewFairness ==
    /\ \A c \in Coordinators : WF_reviewVars(CoordinatorStep(c))
    /\ WF_reviewVars(AcknowledgeNoWrite /\ \A c \in Coordinators : ~HoldsClaim(c))
    /\ WF_reviewVars(RecoverFailedClaim)
FairReviewSpec == ReviewSpec /\ ReviewFairness

-----------------------------------------------------------------------------
(* A candidate gets at most one verdict per stage, however often its review *)
(* is retried, acknowledged or answered late.                               *)
OneVerdict ==
    \A r1, r2 \in ReportIds :
        /\ reports[r1] # None /\ reports[r2] # None
        /\ reports[r1].version = reports[r2].version
        /\ reports[r1].stage = reports[r2].stage
        => r1 = r2

LoreReport(r) == reports[r] # None /\ reports[r].stage = "lore"

(* A verdict is written only by the call the run is waiting for, and on the *)
(* current candidate and the current other documents: no answer survives an *)
(* acknowledgement, a retry, or an edit of one of these.  An edit of a      *)
(* setting refuses no answer: every lore verdict of a run, whatever its     *)
(* candidate and however often it is retried, is on the settings pinned by  *)
(* the run's first lore claim (docs/setting-collection-refactor.md, 5.3),   *)
(* and the other verdicts are on no settings.                               *)
VerdictIsCurrent ==
    [][/\ pinned # {} => pinned' = pinned
       /\ \A r \in ReportIds : reports[r] = None /\ reports'[r] # None =>
          /\ reports'[r].version = canon
          /\ evidence'[r].context = context
          /\ claim # None /\ evidence'[r].claim = claim.id
          /\ LoreReport(r)' => pinned # {} /\ evidence'[r].settings = pinned
          /\ ~LoreReport(r)' => evidence'[r].settings = {}]_reviewVars

(* A claim does not stay: its coordinator settles it or, if it is gone, the *)
(* operator can -- unless somebody has replaced the text under review.      *)
ClaimSettles ==
    \A n \in 1 .. MaxClaims :
        Claimed /\ claim.id = n ~> ~(Claimed /\ claim.id = n) \/ canon # st.version
=============================================================================
