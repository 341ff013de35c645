----------------------------- MODULE RevisionSaga -----------------------------
(***************************************************************************)
(* The author's half of a chapter run: how one decision about the draft     *)
(* becomes a new candidate version.  A feedback revision and a review       *)
(* revision claim a provider attempt, call the provider with no lock held,  *)
(* write the candidate through DocumentService (which commits) and finalize *)
(* the run in a further transaction; a manual edit consumes the gate and    *)
(* writes the version in one transaction and finalizes in the next.  Any    *)
(* worker may vanish in between (Crash, as in ReviewClaim), and any other   *)
(* request -- the author's autosave, reconcile_indeterminate, an operator's *)
(* acknowledgement -- may come first.                                       *)
(*                                                                          *)
(* Sources: feedback_revision_handoff.py, feedback_candidate_saga.py,       *)
(* review_revision_handoff.py, review_revision_saga.py,                     *)
(* manual_edit_saga.py, author_accept_coordination.py,                      *)
(* chapter_draft_revision_coordinator.py and chapter_production_recovery_*. *)
(*                                                                          *)
(* A write is accepted only on the current version, so version n + 1 is the *)
(* child of version n; writer[n] says who wrote it.  The first draft and    *)
(* the reviews are coarse.  A retried request repeats its own feedback.     *)
(***************************************************************************)
EXTENDS ChapterProduction

CONSTANTS
    Workers,      \* concurrent requests
    MaxAttempts   \* bound on the provider attempts ever claimed
ASSUME AttemptBound == MaxAttempts \in Nat

VARIABLES
    idx,      \* index of the latest checkpoint
    attempt,  \* run.metadata["provider_attempt"], or None
    issued,   \* attempts issued; an attempt id is a fresh number
    writer,   \* who wrote each version of the draft
    worker    \* what each request in flight holds outside the database

sagaVars == <<st, canon, reports, actions, idx, attempt, issued, writer, worker>>

Author == [by |-> "author", attempt |-> 0]
ManualEdit == [by |-> "manual", attempt |-> 0]
Agent(n) == [by |-> "agent", attempt |-> n]
Initial == [by |-> "initial", attempt |-> 0]

(* The attempts, and the plans of the requests in flight; a manual edit's    *)
(* plan has no attempt and the id 0.                                        *)
Writer == [by : {"author", "manual", "agent", "initial"}, attempt : Nat]
Attempt == [id : Nat, kind : {"feedback", "review", "manual"}, version : Nat, idx : Nat,
            action : ActionIds \cup {None}, status : {"claimed", "failed"}]
ASSUME PlanAssumption == None \notin Writer \cup Attempt

Idle == [plan |-> None, answer |-> None, candidate |-> NoVersion]

SagaInit ==
    /\ Init
    /\ idx = 0
    /\ attempt = None
    /\ issued = 0
    /\ writer = [v \in 1 .. MaxVersion |-> None]
    /\ worker = [w \in Workers |-> Idle]

-----------------------------------------------------------------------------
Checkpoint(next) == st' = next /\ idx' = idx + 1

Write(who) ==
    /\ canon < MaxVersion
    /\ canon' = canon + 1
    /\ writer' = [writer EXCEPT ![canon + 1] = who]

Claimed == attempt # None /\ attempt.status = "claimed"

(* _exact_attempt *)
HoldsAttempt(w) ==
    /\ Claimed /\ worker[w].plan # None
    /\ attempt.id = worker[w].plan.id
    /\ attempt.idx = worker[w].plan.idx

Drafting(kind) == IF kind = "review" THEN "REVIEW_REVISION" ELSE "DRAFTING"

(* The run stands where the attempt was claimed.                            *)
AtAttempt(p) == st.status = Drafting(p.kind) /\ ~Awaiting(st) /\ st.version = p.version /\ idx = p.idx

(* _resolved_source_action: the one action the author has revised for the   *)
(* bound version, nothing pending.                                          *)
Consumed == {a \in ActionIds :
    actions[a] # None /\ actions[a].status = "revised" /\ actions[a].kind = "author_revision"
                      /\ actions[a].version = st.version}

(* _restore_feedback_without_write: the gate is pending again, bound by a   *)
(* copy of the checkpoint from before the claim.                            *)
Reopened(s, a) == [s EXCEPT !.status = "AUTHOR_REVISION", !.action = a, !.kind = "author_revision"]
RestoreGate(s, a) ==
    /\ Consumed = {a} /\ Pending = {}
    /\ actions' = [actions EXCEPT ![a].status = "pending"]
    /\ st' = Reopened(s, a)

Start(w, p) == worker' = [worker EXCEPT ![w].plan = p]
Return(w) == worker' = [worker EXCEPT ![w] = Idle]

-----------------------------------------------------------------------------
(* The author's gate.                                                      *)

(* author_context: the gate is the only pending action and its version is    *)
(* current.                                                                 *)
AuthorContext == CurrentGate("author_revision")

(* AuthorAcceptCoordinator.accept *)
AcceptGate ==
    /\ AuthorContext
    /\ AcceptDraft
    /\ idx' = idx + 1
    /\ UNCHANGED <<attempt, issued, writer, worker>>

(* On a stale gate the author's own saved versions, and nothing else, may   *)
(* have replaced the candidate.  An acceptance that names the version it    *)
(* expects adopts the end of any chain of them; every other request on the  *)
(* gate adopts a direct child only.                                         *)
SavedChain == \A v \in st.version + 1 .. canon : writer[v] = Author
SavedChild == canon = st.version + 1 /\ writer[canon] = Author

(* _commit_stale_author_adoption *)
Adopt ==
    /\ Gate("author_revision") /\ CanAdoptStale(st, canon)
    /\ ResolveRow("cancelled")
    /\ Checkpoint(NewVersionForReview(st, canon))
    /\ UNCHANGED <<canon, reports, attempt, issued, writer, worker>>

AdoptSavedChild == SavedChild /\ Adopt
AdoptSavedChain == SavedChain /\ Adopt

(* Mutant of ClaimFeedback: the attempt's id is not fresh.                  *)
ClaimFeedbackReusingId(w) ==
    /\ worker[w] = Idle
    /\ canon < MaxVersion
    /\ CurrentGate("author_revision")
    /\ ResolveRow("revised")
    /\ Checkpoint(RequestDraft(st))
    /\ attempt' = [id |-> 1, kind |-> "feedback", version |-> st.version,
                   idx |-> idx + 1, action |-> st.action, status |-> "claimed"]
    /\ Start(w, attempt')
    /\ UNCHANGED <<canon, reports, issued, writer>>

(* FeedbackRevisionHandoff._claim_locked *)
ClaimFeedback(w) ==
    /\ worker[w] = Idle
    /\ issued < MaxAttempts /\ canon < MaxVersion   \* bounds
    /\ CurrentGate("author_revision")
    /\ ResolveRow("revised")
    /\ Checkpoint(RequestDraft(st))
    /\ issued' = issued + 1
    /\ attempt' = [id |-> issued + 1, kind |-> "feedback", version |-> st.version,
                   idx |-> idx + 1, action |-> st.action, status |-> "claimed"]
    /\ Start(w, attempt')
    /\ UNCHANGED <<canon, reports, writer>>

(* ManualEditCoordinator._prepare_and_persist: the gate is consumed and the *)
(* version written, but the checkpoint still awaits the user.               *)
PersistManualEdit(w) ==
    /\ worker[w] = Idle
    /\ AuthorContext
    /\ ResolveRow("revised")
    /\ Write(ManualEdit)
    /\ worker' = [worker EXCEPT ![w] =
          [plan |-> [id |-> 0, kind |-> "manual", version |-> st.version, idx |-> idx,
                     action |-> st.action, status |-> "claimed"],
           answer |-> "candidate", candidate |-> canon + 1]]
    /\ UNCHANGED <<st, reports, idx, attempt, issued>>

(* The reports a revision answers are bound and of the bound version.       *)
BoundReports == {st.report[g] : g \in Stage} \ {None}
ReportsOfVersion ==
    BoundReports # {} /\ \A r \in BoundReports : reports[r] # None /\ reports[r].version = st.version

(* review_revision_context *)
ReviewRevisionContext ==
    /\ st.status = "REVIEW_REVISION" /\ ~Awaiting(st) /\ Pending = {}
    /\ ReportsOfVersion
    /\ canon = st.version

(* ReviewRevisionHandoff._claim *)
ClaimReviewRevision(w) ==
    /\ worker[w] = Idle
    /\ issued < MaxAttempts /\ canon < MaxVersion   \* bounds
    /\ ReviewRevisionContext
    /\ attempt = None
    /\ issued' = issued + 1
    /\ attempt' = [id |-> issued + 1, kind |-> "review", version |-> st.version,
                   idx |-> idx, action |-> None, status |-> "claimed"]
    /\ Start(w, attempt')
    /\ UNCHANGED <<st, canon, reports, actions, idx, writer>>

-----------------------------------------------------------------------------
(* The provider call and what follows it.                                  *)

ProviderReturns(w, kind, answer) ==
    /\ worker[w].plan # None /\ worker[w].plan.kind = kind /\ worker[w].answer = None
    /\ worker' = [worker EXCEPT ![w].answer = answer]
    /\ UNCHANGED <<st, canon, reports, actions, idx, attempt, issued, writer>>

FeedbackProvider(w, answer) == ProviderReturns(w, "feedback", answer)
ReviewProvider(w, answer) == ProviderReturns(w, "review", answer)

Crash(w) ==
    /\ worker[w] # Idle
    /\ Return(w)
    /\ UNCHANGED <<st, canon, reports, actions, idx, attempt, issued, writer>>

Holding(w, answer) ==
    worker[w].plan # None /\ worker[w].answer = answer /\ worker[w].candidate = NoVersion

(* fail_provider *)
CanFailAttempt(w) ==
    HoldsAttempt(w) /\ idx = attempt.idx /\ st.status = Drafting(worker[w].plan.kind)

FailAttempt(w) ==
    /\ Holding(w, "failed")
    /\ CanFailAttempt(w)
    /\ CanFail(st)
    /\ Checkpoint(Fail(st, "provider"))
    /\ attempt' = [attempt EXCEPT !.status = "failed"]
    /\ Return(w)
    /\ UNCHANGED <<canon, reports, actions, issued, writer>>

(* What persist revalidates before it writes.                              *)
CanPersistFeedback(w) ==
    /\ HoldsAttempt(w)
    /\ AtAttempt(worker[w].plan)
    /\ actions[worker[w].plan.action].status = "revised"
    /\ canon = worker[w].plan.version

CanPersistReview(w) ==
    /\ ReviewRevisionContext
    /\ st.version = worker[w].plan.version /\ idx = worker[w].plan.idx
    /\ HoldsAttempt(w)

CanPersist(w) ==
    IF worker[w].plan.kind = "feedback" THEN CanPersistFeedback(w) ELSE CanPersistReview(w)

WriteCandidate(w) ==
    /\ Write(Agent(worker[w].plan.id))
    /\ worker' = [worker EXCEPT ![w].candidate = canon + 1]
    /\ UNCHANGED <<st, reports, actions, idx, attempt, issued>>

(* FeedbackCandidateSaga.persist *)
PersistFeedback(w) ==
    /\ Holding(w, "candidate") /\ worker[w].plan.kind = "feedback"
    /\ CanPersistFeedback(w)
    /\ WriteCandidate(w)

(* ReviewRevisionSaga.persist *)
PersistReviewRevision(w) ==
    /\ Holding(w, "candidate") /\ worker[w].plan.kind = "review"
    /\ CanPersistReview(w)
    /\ WriteCandidate(w)

(* release_attempt, after a cancelled call or an answer that may not be     *)
(* written any more; a feedback gate is given back to the author.           *)
CanRelease(w) == HoldsAttempt(w) /\ idx = attempt.idx

(* Mutant of ReleaseAttempt: the attempt is dropped, the gate not reopened. *)
ReleaseWithoutGate(w) ==
    /\ \/ Holding(w, "cancelled")
       \/ Holding(w, "candidate") /\ ~CanPersist(w)
    /\ CanRelease(w)
    /\ attempt' = None
    /\ Return(w)
    /\ UNCHANGED <<st, canon, reports, actions, idx, issued, writer>>

ReleaseAttempt(w) ==
    /\ \/ Holding(w, "cancelled")
       \/ Holding(w, "candidate") /\ ~CanPersist(w)
    /\ CanRelease(w)
    /\ attempt' = None
    /\ IF attempt.kind = "feedback"
       THEN RestoreGate(st, attempt.action) /\ idx' = idx + 1
       ELSE UNCHANGED <<st, actions, idx>>
    /\ Return(w)
    /\ UNCHANGED <<canon, reports, issued, writer>>

(* Someone else has settled the attempt: the late answer has no effect.     *)
Refuse(w) ==
    /\ \/ Holding(w, "failed") /\ ~CanFailAttempt(w)
       \/ Holding(w, "cancelled") /\ ~CanRelease(w)
       \/ Holding(w, "candidate") /\ ~CanPersist(w) /\ ~CanRelease(w)
    /\ Return(w)
    /\ UNCHANGED <<st, canon, reports, actions, idx, attempt, issued, writer>>

-----------------------------------------------------------------------------
(* Finalization, by the worker that wrote the candidate or by one that      *)
(* found it (reconcile_drafting, reconcile_review, reconcile_manual).       *)

Persisted(w, kind) == worker[w].candidate # NoVersion /\ worker[w].plan.kind = kind

(* _locked_current_revision: the candidate is current and bears the plan.   *)
CandidateCurrent(w) ==
    LET p == worker[w].plan
    IN  /\ canon = worker[w].candidate
        /\ worker[w].candidate = p.version + 1
        /\ writer[canon] = IF p.kind = "manual" THEN ManualEdit ELSE Agent(p.id)

(* _locked_finalize_evidence, _validate_finalize_evidence *)
ManualEvidence(w) ==
    LET p == worker[w].plan
    IN  /\ attempt = None
        /\ st.status = "AUTHOR_REVISION" /\ st.version = p.version
        /\ st.action = p.action /\ actions[p.action].status = "revised"

CanFinalize(w) ==
    LET p == worker[w].plan
    IN  /\ Pending = {}
        /\ CandidateCurrent(w)
        /\ CASE p.kind = "manual" -> ManualEvidence(w)
             [] p.kind = "feedback" ->
                    HoldsAttempt(w) /\ AtAttempt(p) /\ actions[p.action].status = "revised"
             [] p.kind = "review" -> HoldsAttempt(w) /\ AtAttempt(p) /\ ReportsOfVersion

FinalizeFeedback(w, a) ==
    /\ Persisted(w, "feedback") /\ CanFinalize(w)
    /\ CanSubmitDraft(st, canon)
    /\ NewAction(a, "author_revision", canon)
    /\ Checkpoint(SubmitDraft(st, canon, a))
    /\ attempt' = None
    /\ Return(w)
    /\ UNCHANGED <<canon, reports, issued, writer>>

FinalizeReviewRevision(w) ==
    /\ Persisted(w, "review") /\ CanFinalize(w)
    /\ CanSubmitReviewRevision(st, canon)
    /\ Checkpoint(NewVersionForReview(st, canon))
    /\ attempt' = None
    /\ Return(w)
    /\ UNCHANGED <<canon, reports, actions, issued, writer>>

FinalizeManualEdit(w) ==
    /\ Persisted(w, "manual") /\ CanFinalize(w)
    /\ CanManualEdit(st, canon)
    /\ Checkpoint(NewVersionForReview(st, canon))
    /\ Return(w)
    /\ UNCHANGED <<canon, reports, actions, attempt, issued, writer>>

FinalizeRefused(w) ==
    /\ worker[w].candidate # NoVersion /\ ~CanFinalize(w)
    /\ Return(w)
    /\ UNCHANGED <<st, canon, reports, actions, idx, attempt, issued, writer>>

(* _reconciliation_candidates: the child of the bound version that the run   *)
(* itself has written, if there is one.                                     *)
Candidates ==
    {v \in 1 .. canon : v = st.version + 1 /\ (writer[v].by = "agent" \/ writer[v] = ManualEdit)}

(* _candidate_matches_provider_attempt *)
CandidateMatches(kind) ==
    /\ Claimed /\ attempt.kind = kind /\ attempt.version = st.version
    /\ writer[canon] = Agent(attempt.id)

(* reconcile_indeterminate takes the one candidate over, if it is current.   *)
TakeOver(w, plan) ==
    /\ worker' = [worker EXCEPT ![w] = [plan |-> plan, answer |-> "candidate", candidate |-> canon]]
    /\ UNCHANGED <<st, canon, reports, actions, idx, attempt, issued, writer>>

ReconcileDrafting(w) ==
    /\ worker[w] = Idle
    /\ st.status = "DRAFTING" /\ Candidates = {canon}
    /\ CandidateMatches("feedback") /\ attempt.idx = idx
    /\ Consumed = {attempt.action} /\ Pending = {}
    /\ TakeOver(w, attempt)

ReconcileReview(w) ==
    /\ worker[w] = Idle
    /\ st.status = "REVIEW_REVISION" /\ Candidates = {canon}
    /\ CandidateMatches("review") /\ attempt.idx = idx
    /\ TakeOver(w, attempt)

ReconcileManualEdit(w) ==
    /\ worker[w] = Idle
    /\ st.status = "AUTHOR_REVISION" /\ Candidates = {canon}
    /\ Consumed = {st.action} /\ Pending = {}
    /\ TakeOver(w, [id |-> 0, kind |-> "manual", version |-> st.version, idx |-> idx,
                    action |-> st.action, status |-> "claimed"])

-----------------------------------------------------------------------------
(* Recovery.                                                               *)

(* recover_failed_attempt, the first step of every retry, repeats the request*)
(* that failed.                                                             *)
FailedAttempt(kind) ==
    /\ st.status = "FAILED" /\ st.failure = "provider"
    /\ attempt # None /\ attempt.status = "failed" /\ attempt.kind = kind
    /\ st.failedFrom = Drafting(kind)
    /\ idx = attempt.idx + 1 /\ attempt.version = st.version

RecoverFeedbackAttempt ==
    /\ FailedAttempt("feedback")
    /\ RestoreGate(Resume(st), attempt.action) /\ idx' = idx + 2
    /\ attempt' = None
    /\ UNCHANGED <<canon, reports, issued, writer, worker>>

RecoverReviewAttempt ==
    /\ FailedAttempt("review")
    /\ ReportsOfVersion
    /\ Checkpoint(Resume(st))
    /\ attempt' = None
    /\ UNCHANGED <<canon, reports, actions, issued, writer, worker>>

RecoverFailedAttempt == RecoverFeedbackAttempt \/ RecoverReviewAttempt

(* ChapterDraftRevisionCoordinator.acknowledge_no_write: nothing may have    *)
(* been written on the bound version, by anybody.                           *)
NothingWritten(kind) ==
    /\ Claimed /\ attempt.idx = idx /\ attempt.kind = kind
    /\ st.status = Drafting(kind)
    /\ canon = st.version

(* Mutant of AcknowledgeFeedback: the gate is reopened, the attempt stays    *)
(* claimed.                                                                 *)
AcknowledgeKeepingAttempt ==
    /\ NothingWritten("feedback")
    /\ RestoreGate(st, attempt.action) /\ idx' = idx + 1
    /\ UNCHANGED <<canon, reports, attempt, issued, writer, worker>>

AcknowledgeFeedback ==
    /\ NothingWritten("feedback")
    /\ attempt' = None
    /\ RestoreGate(st, attempt.action) /\ idx' = idx + 1
    /\ UNCHANGED <<canon, reports, issued, writer, worker>>

AcknowledgeReview ==
    /\ NothingWritten("review")
    /\ attempt' = None
    /\ Checkpoint(st)
    /\ UNCHANGED <<canon, reports, actions, issued, writer, worker>>

AcknowledgeNoWrite == AcknowledgeFeedback \/ AcknowledgeReview

-----------------------------------------------------------------------------
(* The rest of the run, coarse, and the other writers of the draft.        *)

FirstDraft(a) ==
    /\ st.status = "DRAFTING" /\ st.version = NoVersion
    /\ Write(Initial)
    /\ NewAction(a, "author_revision", canon + 1)
    /\ Checkpoint(SubmitDraft(st, canon + 1, a))
    /\ UNCHANGED <<reports, attempt, issued, worker>>

Review ==
    /\ \/ \E r \in ReportIds : RecordPassedReview(r)
       \/ \E r \in ReportIds, a \in ActionIds : RecordBlockingReview(r, a)
       \/ RequestReviewRevision
    /\ idx' = idx + 1
    /\ UNCHANGED <<attempt, issued, writer, worker>>

EditDraft ==
    /\ canon # NoVersion
    /\ Write(Author)
    /\ UNCHANGED <<st, reports, actions, idx, attempt, issued, worker>>

Finalize(w) ==
    \/ \E a \in ActionIds : FinalizeFeedback(w, a)
    \/ FinalizeReviewRevision(w)
    \/ FinalizeManualEdit(w)

WorkerStep(w) ==
    \/ \E answer \in {"candidate", "failed", "cancelled"} :
          FeedbackProvider(w, answer) \/ ReviewProvider(w, answer)
    \/ FailAttempt(w)
    \/ PersistFeedback(w)
    \/ PersistReviewRevision(w)
    \/ ReleaseAttempt(w)
    \/ Refuse(w)
    \/ Finalize(w)
    \/ FinalizeRefused(w)

Reconcile(w) == ReconcileDrafting(w) \/ ReconcileReview(w) \/ ReconcileManualEdit(w)

SagaNext ==
    \/ AcceptGate
    \/ AdoptSavedChild
    \/ AdoptSavedChain
    \/ \E w \in Workers :
          \/ ClaimFeedback(w) \/ PersistManualEdit(w) \/ ClaimReviewRevision(w)
          \/ WorkerStep(w) \/ Reconcile(w) \/ Crash(w)
    \/ RecoverFailedAttempt
    \/ AcknowledgeNoWrite
    \/ \E a \in ActionIds : FirstDraft(a)
    \/ Review
    \/ EditDraft

SagaSpec == SagaInit /\ [][SagaNext]_sagaVars

(* A provider call ends by its own deadline and asyncio resumes its caller; *)
(* an author who finds the run stuck retries it or asks for reconciliation; *)
(* an operator acknowledges an attempt nobody works on.  A finalization that *)
(* is retried again and again is not struck down by a crash every time.     *)
SagaFairness ==
    /\ \A w \in Workers : WF_sagaVars(WorkerStep(w))
    /\ WF_sagaVars(\E w \in Workers : Reconcile(w))
    /\ SF_sagaVars(\E w \in Workers : Finalize(w))
    /\ WF_sagaVars(RecoverFailedAttempt)
    /\ WF_sagaVars(AcknowledgeNoWrite /\ \A w \in Workers : ~HoldsAttempt(w))
FairSagaSpec == SagaSpec /\ SagaFairness

-----------------------------------------------------------------------------
(* A gate the author has consumed is never lost: as long as its version is  *)
(* bound, an attempt is answerable for it or the edit itself is written.    *)
DecisionsAnswered ==
    \A a \in Consumed :
        \/ attempt # None /\ attempt.action = a /\ attempt.version = st.version
        \/ st.action = a /\ st.version < MaxVersion /\ writer[st.version + 1] = ManualEdit

(* One provider answer becomes at most one version, whoever finishes it.     *)
OneCandidatePerAttempt ==
    \A v1, v2 \in 1 .. MaxVersion :
        writer[v1] # None /\ writer[v1] = writer[v2] /\ writer[v1].by = "agent" => v1 = v2

(* A claimed attempt is finished or given back -- unless somebody else has   *)
(* written the draft since: then, once its candidate is written, neither     *)
(* finalization nor reconciliation nor acknowledgement accepts it any more.  *)
AuthorWroteAfter(n) == \E v \in n + 1 .. MaxVersion : writer[v] = Author
AttemptSettles ==
    \A n \in 1 .. MaxAttempts :
        Claimed /\ attempt.id = n ~>
            ~(Claimed /\ attempt.id = n) \/ AuthorWroteAfter(attempt.version)
=============================================================================
