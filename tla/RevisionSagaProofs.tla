--------------------------- MODULE RevisionSagaProofs ---------------------------
(***************************************************************************)
(* The revisions of a draft, for any number of requests, attempts, rows    *)
(* and versions: no answer of a provider becomes two versions, and no gate *)
(* the author has consumed is lost.  Requests are told apart by the keys   *)
(* of the plans that are still around, in the run's metadata and in the    *)
(* memory of its workers; everything rests on a plan's id being fresh when *)
(* it is claimed and on a version being written only as the child of the   *)
(* plan's own.  Last, the bounds of what is reviewed and rewritten: the    *)
(* parts of a block and the batches of a map, for texts of every length.   *)
(***************************************************************************)
EXTENDS RevisionSaga, ChapterSegments, TLAPS

WorkerRow ==
    [plan : Attempt \cup {None}, answer : {"candidate", "failed", "cancelled", None},
     candidate : Nat]

SagaTypeOK ==
    /\ st \in State
    /\ canon \in 0 .. MaxVersion
    /\ actions \in [ActionIds -> ActionRow \cup {None}]
    /\ idx \in Nat /\ issued \in Nat
    /\ attempt \in Attempt \cup {None}
    /\ writer \in [1 .. MaxVersion -> Writer \cup {None}]
    /\ worker \in [Workers -> WorkerRow]

(* Where an attempt may stand: a feedback attempt holds the run in drafting, *)
(* with its gate consumed.                                                  *)
AttemptPlace ==
    /\ st.version = NoVersion => st.status = "DRAFTING" /\ st.action = None
    /\ attempt # None =>
          /\ attempt.kind \in {"feedback", "review"}
          /\ attempt.kind = "review" => attempt.action = None
          /\ attempt.kind = "feedback" =>
                st.status \in {"DRAFTING", "FAILED"} /\ st.action = None /\ st.version # NoVersion

(* Rows are written for the candidate, versions for the child of canon.     *)
RowsBehind ==
    /\ st.version <= canon
    /\ \A a \in ActionIds : actions[a] # None => actions[a].version <= st.version
    /\ \A v \in 1 .. MaxVersion : v > canon => writer[v] = None

PlanKey(p) == [id |-> p.id, kind |-> p.kind, version |-> p.version]
Plans == {p \in {attempt} \cup {worker[w].plan : w \in Workers} : p # None}
Keys == {PlanKey(p) : p \in Plans}

(* Plans are told apart by their ids, and a plan's answer is its child.     *)
PlansAgree ==
    /\ \A k \in Keys : k.id <= issued /\ (k.kind = "manual" <=> k.id = 0)
    /\ \A k, l \in Keys : k.id = l.id /\ k.id # 0 => k = l
    /\ \A k \in Keys, v \in 1 .. MaxVersion : writer[v] = Agent(k.id) => v = k.version + 1
    /\ \A v \in 1 .. MaxVersion : writer[v] # None /\ writer[v].by = "agent" =>
          writer[v].attempt \in 1 .. issued

SagaInv ==
    /\ SagaTypeOK
    /\ AttemptPlace
    /\ RowsBehind
    /\ PlansAgree
    /\ OneCandidatePerAttempt
    /\ DecisionsAnswered

-----------------------------------------------------------------------------
(* The edges the sagas take stay among the states.                          *)
LEMMA EdgesTyped ==
    ASSUME NEW s \in State
    PROVE  /\ \A x \in Status : WithoutAction(s, x) \in State
           /\ \A v \in Nat : NewVersionForReview(s, v) \in State
           /\ \A v \in Nat, a \in ActionIds : AuthorGate(s, v, a) \in State
           /\ \A a \in ActionIds : Reopened(s, a) \in State
           /\ CanFail(s) => Fail(s, "provider") \in State
           /\ s.failedFrom \in Working => Resume(s) \in State
<1>1. \A x \in Status : WithoutAction(s, x) \in State
  BY DEF WithoutAction, State
<1>2. \A v \in Nat : NewVersionForReview(s, v) \in State
  BY DEF NewVersionForReview, State, NoReports, Status, Working, ReviewStatus
<1>3. \A v \in Nat, a \in ActionIds : AuthorGate(s, v, a) \in State
  BY DEF AuthorGate, State, NoReports, Status, Working, ActionKind
<1>4. \A a \in ActionIds : Reopened(s, a) \in State
  BY DEF Reopened, State, Status, Working, ActionKind
<1>5. CanFail(s) => Fail(s, "provider") \in State
  BY DEF CanFail, Fail, State, Status, FailureClass
<1>6. s.failedFrom \in Working => Resume(s) \in State
  BY DEF Resume, State, Status
<1> QED
  BY <1>1, <1>2, <1>3, <1>4, <1>5, <1>6

(* A review binds a row of its stage and waits, passes or sends back.       *)
LEMMA ReviewTyped ==
    ASSUME NEW s \in State, NEW r \in ReportIds, CanRecordReview(s, ExpectedStage(s))
    PROVE  /\ RecordPassed(s, ExpectedStage(s), r) \in State
           /\ \A a \in ActionIds : RecordBlocking(s, ExpectedStage(s), r, a) \in State
<1>1. ExpectedStage(s) \in Stage
  BY DEF CanRecordReview, ExpectedStage, ReviewStatus, Stage
<1>2. RecordPassed(s, ExpectedStage(s), r) \in State
  <2>1. PICK next \in Status : next = NextReviewStatus(s)
    BY DEF NextReviewStatus, Status, Working, ReviewStatus
  <2>2. PICK rows \in [Stage -> ReportIds \cup {None}] :
          rows = [s.report EXCEPT ![ExpectedStage(s)] = r]
    BY <1>1 DEF State
  <2>3. RecordPassed(s, ExpectedStage(s), r) = [s EXCEPT !.report = rows, !.status = next]
    BY <2>1, <2>2 DEF RecordPassed
  <2> QED BY <2>1, <2>2, <2>3 DEF State
<1>3. \A a \in ActionIds : RecordBlocking(s, ExpectedStage(s), r, a) \in State
  BY <1>1 DEF RecordBlocking, State, Status, Working, ActionKind
<1> QED
  BY <1>2, <1>3

(* What an action row needs.                                                *)
LEMMA RowTyped ==
    ASSUME actions \in [ActionIds -> ActionRow \cup {None}]
    PROVE  /\ \A status \in {"approved", "revised", "cancelled"} : \A kind :
                 Gate(kind) /\ ResolveRow(status) => actions' \in [ActionIds -> ActionRow \cup {None}]
           /\ \A a \in ActionIds, kind \in ActionKind, v \in Nat :
                 NewAction(a, kind, v) => actions' \in [ActionIds -> ActionRow \cup {None}]
           /\ \A s, a : a \in ActionIds /\ RestoreGate(s, a) => actions' \in [ActionIds -> ActionRow \cup {None}]
           /\ \A kind : Gate(kind) => st.action \in ActionIds /\ actions[st.action] # None
<1>1. ASSUME NEW kind, Gate(kind)
      PROVE  st.action \in ActionIds /\ actions[st.action] # None /\ actions[st.action] \in ActionRow
  <2>1. st.action \in Pending
    BY <1>1 DEF Gate
  <2> QED
    BY <2>1 DEF Pending
<1>2. ASSUME NEW status \in {"approved", "revised", "cancelled"}, NEW kind, Gate(kind), ResolveRow(status)
      PROVE  actions' \in [ActionIds -> ActionRow \cup {None}]
  <2>1. [actions[st.action] EXCEPT !.status = status] \in ActionRow
    BY <1>1, <1>2 DEF ActionRow
  <2> QED
    BY <1>2, <2>1 DEF ResolveRow
<1>3. ASSUME NEW a \in ActionIds, NEW kind \in ActionKind, NEW v \in Nat, NewAction(a, kind, v)
      PROVE  actions' \in [ActionIds -> ActionRow \cup {None}]
  BY <1>3 DEF NewAction, ActionRow
<1>4. ASSUME NEW s, NEW a \in ActionIds, RestoreGate(s, a)
      PROVE  actions' \in [ActionIds -> ActionRow \cup {None}]
  <2>1. actions[a] \in ActionRow
    BY <1>4 DEF RestoreGate, Consumed
  <2>2. [actions[a] EXCEPT !.status = "pending"] \in ActionRow
    BY <2>1 DEF ActionRow
  <2> QED
    BY <1>4, <2>2 DEF RestoreGate
<1> QED
  BY <1>1, <1>2, <1>3, <1>4

(* A request that returns, answered or dead, leaves the database alone.     *)
Leaving(w) == Crash(w) \/ Refuse(w) \/ FinalizeRefused(w)
Answering(w) ==
    \E answer \in {"candidate", "failed", "cancelled"} :
        FeedbackProvider(w, answer) \/ ReviewProvider(w, answer)

(* Every request keeps what it holds of the right form.                     *)
LEMMA WorkersTyped ==
    ASSUME SagaTypeOK
    PROVE  /\ \A w \in Workers : Return(w) => worker' \in [Workers -> WorkerRow]
           /\ \A w \in Workers, p \in Attempt : Start(w, p) => worker' \in [Workers -> WorkerRow]
           /\ \A w \in Workers, p \in Attempt : TakeOver(w, p) => worker' \in [Workers -> WorkerRow]
           /\ \A w \in Workers : Answering(w) => worker' \in [Workers -> WorkerRow]
           /\ \A w \in Workers : WriteCandidate(w) => worker' \in [Workers -> WorkerRow]
<1> USE DEF SagaTypeOK
<1>0. worker \in [Workers -> WorkerRow] /\ canon \in Nat
  BY VersionBound
<1>1. Idle \in WorkerRow
  BY DEF Idle, WorkerRow, NoVersion
<1>2. ASSUME NEW w \in Workers, Return(w) PROVE worker' \in [Workers -> WorkerRow]
  BY <1>0, <1>1, <1>2 DEF Return
<1>3. ASSUME NEW w \in Workers, NEW p \in Attempt, Start(w, p) PROVE worker' \in [Workers -> WorkerRow]
  <2>1. [worker[w] EXCEPT !.plan = p] \in WorkerRow
    BY <1>0 DEF WorkerRow
  <2> QED
    BY <1>0, <1>3, <2>1 DEF Start
<1>4. ASSUME NEW w \in Workers, NEW p \in Attempt, TakeOver(w, p) PROVE worker' \in [Workers -> WorkerRow]
  <2>1. [plan |-> p, answer |-> "candidate", candidate |-> canon] \in WorkerRow
    BY <1>0 DEF WorkerRow
  <2> QED
    BY <1>0, <1>4, <2>1 DEF TakeOver
<1>5. ASSUME NEW w \in Workers, Answering(w) PROVE worker' \in [Workers -> WorkerRow]
  <2>1. PICK answer \in {"candidate", "failed", "cancelled"} : worker' = [worker EXCEPT ![w].answer = answer]
    BY <1>5 DEF Answering, FeedbackProvider, ReviewProvider, ProviderReturns
  <2>2. [worker[w] EXCEPT !.answer = answer] \in WorkerRow
    BY <1>0 DEF WorkerRow
  <2> QED
    BY <1>0, <2>1, <2>2
<1>6. ASSUME NEW w \in Workers, WriteCandidate(w) PROVE worker' \in [Workers -> WorkerRow]
  <2>1. [worker[w] EXCEPT !.candidate = canon + 1] \in WorkerRow
    BY <1>0 DEF WorkerRow
  <2> QED
    BY <1>0, <1>6, <2>1 DEF WriteCandidate
<1> QED
  BY <1>2, <1>3, <1>4, <1>5, <1>6

LEMMA WriteTyped ==
    ASSUME SagaTypeOK, NEW who \in Writer, Write(who)
    PROVE  /\ canon' = canon + 1 /\ canon' \in 1 .. MaxVersion
           /\ writer' = [writer EXCEPT ![canon + 1] = who]
           /\ writer' \in [1 .. MaxVersion -> Writer \cup {None}]
BY VersionBound DEF SagaTypeOK, Write

(* Every step keeps the types.                                              *)
LEMMA SagaTypesStay == SagaTypeOK /\ AttemptPlace /\ [SagaNext]_sagaVars => SagaTypeOK'
<1> USE DEF SagaTypeOK
<1> SUFFICES ASSUME SagaTypeOK, AttemptPlace, [SagaNext]_sagaVars PROVE SagaTypeOK'
  OBVIOUS
<1>0. /\ st \in State /\ st.version \in Nat /\ canon \in Nat /\ idx \in Nat /\ issued \in Nat
      /\ st.action \in ActionIds \cup {None}
      /\ attempt # None => attempt \in Attempt /\ attempt.kind \in {"feedback", "review"}
      /\ \A w \in Workers : worker[w] \in WorkerRow /\ worker[w].plan \in Attempt \cup {None}
  BY VersionBound DEF State, AttemptPlace, WorkerRow
<1>1. CASE AcceptGate
  <2>1. st' = Accept(st) /\ actions' \in [ActionIds -> ActionRow \cup {None}]
    BY <1>1, RowTyped DEF AcceptGate, AcceptDraft, CurrentGate
  <2>2. Accept(st) \in State
    BY EdgesTyped DEF Accept, Status, Working, ReviewStatus
  <2> QED
    BY <1>0, <1>1, <2>1, <2>2 DEF AcceptGate, AcceptDraft
<1>2. CASE AdoptSavedChild \/ AdoptSavedChain
  <2>1. st' = NewVersionForReview(st, canon) /\ actions' \in [ActionIds -> ActionRow \cup {None}]
    BY <1>2, RowTyped DEF AdoptSavedChild, AdoptSavedChain, Adopt, Checkpoint
  <2> QED
    BY <1>0, <1>2, <2>1, EdgesTyped DEF AdoptSavedChild, AdoptSavedChain, Adopt, Checkpoint
<1>3. ASSUME NEW w \in Workers, ClaimFeedback(w) PROVE SagaTypeOK'
  <2>1. st' = RequestDraft(st) /\ actions' \in [ActionIds -> ActionRow \cup {None}] /\ st.action \in ActionIds
    BY <1>3, RowTyped DEF ClaimFeedback, CurrentGate, Checkpoint
  <2>2. RequestDraft(st) \in State
    BY EdgesTyped DEF RequestDraft, Status, Working
  <2>3. attempt' \in Attempt /\ Start(w, attempt')
    BY <1>0, <1>3, <2>1 DEF ClaimFeedback, Attempt
  <2>4. worker' \in [Workers -> WorkerRow]
    BY <2>3, WorkersTyped
  <2> QED
    BY <1>0, <1>3, <2>1, <2>2, <2>3, <2>4 DEF ClaimFeedback, Checkpoint
<1>4. ASSUME NEW w \in Workers, PersistManualEdit(w) PROVE SagaTypeOK'
  <2>1. /\ actions' \in [ActionIds -> ActionRow \cup {None}] /\ st.action \in ActionIds
        /\ Write(ManualEdit) /\ ManualEdit \in Writer
    BY <1>4, RowTyped DEF PersistManualEdit, AuthorContext, CurrentGate, ManualEdit, Writer
  <2> DEFINE row == [plan |-> [id |-> 0, kind |-> "manual", version |-> st.version, idx |-> idx,
                               action |-> st.action, status |-> "claimed"],
                     answer |-> "candidate", candidate |-> canon + 1]
  <2>2. row \in WorkerRow /\ worker' = [worker EXCEPT ![w] = row]
    BY <1>0, <1>4, <2>1 DEF PersistManualEdit, WorkerRow, Attempt
  <2> HIDE DEF row
  <2> QED
    BY <1>0, <1>4, <2>1, <2>2, WriteTyped DEF PersistManualEdit
<1>5. ASSUME NEW w \in Workers, ClaimReviewRevision(w) PROVE SagaTypeOK'
  <2>1. attempt' \in Attempt /\ Start(w, attempt')
    BY <1>0, <1>5 DEF ClaimReviewRevision, Attempt
  <2>2. worker' \in [Workers -> WorkerRow]
    BY <2>1, WorkersTyped
  <2> QED
    BY <1>0, <1>5, <2>1, <2>2 DEF ClaimReviewRevision
<1>6. ASSUME NEW w \in Workers, Answering(w) PROVE SagaTypeOK'
  BY <1>6, WorkersTyped DEF Answering, FeedbackProvider, ReviewProvider, ProviderReturns
<1>7. ASSUME NEW w \in Workers, Leaving(w) PROVE SagaTypeOK'
  BY <1>7, WorkersTyped DEF Leaving, Crash, Refuse, FinalizeRefused
<1>8. ASSUME NEW w \in Workers, FailAttempt(w) PROVE SagaTypeOK'
  <2>1. /\ st' = Fail(st, "provider") /\ CanFail(st) /\ idx' = idx + 1
        /\ attempt # None /\ attempt' = [attempt EXCEPT !.status = "failed"]
    BY <1>8 DEF FailAttempt, CanFailAttempt, HoldsAttempt, Claimed, Checkpoint
  <2>2. attempt' \in Attempt /\ st' \in State
    BY <1>0, <2>1, EdgesTyped DEF Attempt
  <2> QED
    BY <1>0, <1>8, <2>1, <2>2, WorkersTyped DEF FailAttempt
<1>9. ASSUME NEW w \in Workers, PersistFeedback(w) \/ PersistReviewRevision(w) PROVE SagaTypeOK'
  <2>1. WriteCandidate(w) /\ worker[w].plan # None
    BY <1>9 DEF PersistFeedback, PersistReviewRevision, Holding
  <2>2. Agent(worker[w].plan.id) \in Writer
    BY <1>0, <2>1 DEF Agent, Writer, Attempt
  <2>3. worker' \in [Workers -> WorkerRow]
    BY <2>1, WorkersTyped
  <2>4. /\ canon' \in 0 .. MaxVersion /\ writer' \in [1 .. MaxVersion -> Writer \cup {None}]
        /\ UNCHANGED <<st, actions, idx, attempt, issued>>
    BY <2>1, <2>2, WriteTyped DEF WriteCandidate
  <2> QED
    BY <1>0, <2>3, <2>4
<1>10. ASSUME NEW w \in Workers, ReleaseAttempt(w) PROVE SagaTypeOK'
  <2>0. attempt' = None /\ Return(w) /\ UNCHANGED <<canon, reports, issued, writer>>
    BY <1>10 DEF ReleaseAttempt
  <2>3. worker' \in [Workers -> WorkerRow]
    BY <2>0, WorkersTyped
  <2>1. CASE attempt.kind = "feedback"
    <3>1. RestoreGate(st, attempt.action) /\ attempt.action \in ActionIds /\ idx' = idx + 1
      BY <1>10, <2>1 DEF ReleaseAttempt, RestoreGate, Consumed
    <3>2. st' \in State /\ actions' \in [ActionIds -> ActionRow \cup {None}]
      BY <1>0, <3>1, RowTyped, EdgesTyped DEF RestoreGate
    <3> QED
      BY <1>0, <2>0, <2>3, <3>1, <3>2
  <2>2. CASE attempt.kind # "feedback"
    <3>1. UNCHANGED <<st, actions, idx>>
      BY <1>10, <2>2 DEF ReleaseAttempt
    <3> QED
      BY <1>0, <2>0, <2>3, <3>1
  <2> QED
    BY <2>1, <2>2
<1>11. ASSUME NEW w \in Workers, NEW a \in ActionIds, FinalizeFeedback(w, a) PROVE SagaTypeOK'
  <2>1. /\ st' = AuthorGate(st, canon, a) /\ idx' = idx + 1
        /\ actions' \in [ActionIds -> ActionRow \cup {None}]
    BY <1>0, <1>11, RowTyped DEF FinalizeFeedback, SubmitDraft, Checkpoint, ActionKind
  <2> QED
    BY <1>0, <1>11, <2>1, WorkersTyped, EdgesTyped DEF FinalizeFeedback
<1>12. ASSUME NEW w \in Workers, FinalizeReviewRevision(w) \/ FinalizeManualEdit(w) PROVE SagaTypeOK'
  <2>1. st' = NewVersionForReview(st, canon) /\ idx' = idx + 1
    BY <1>12 DEF FinalizeReviewRevision, FinalizeManualEdit, Checkpoint
  <2> QED
    BY <1>0, <1>12, <2>1, WorkersTyped, EdgesTyped DEF FinalizeReviewRevision, FinalizeManualEdit
<1>13. ASSUME NEW w \in Workers, Reconcile(w) PROVE SagaTypeOK'
  <2>1. PICK p : TakeOver(w, p) /\ p \in Attempt
    <3>1. CASE ReconcileDrafting(w) \/ ReconcileReview(w)
      BY <1>0, <3>1 DEF ReconcileDrafting, ReconcileReview, CandidateMatches, Claimed
    <3>2. CASE ReconcileManualEdit(w)
      <4>1. st.action \in ActionIds
        BY <3>2 DEF ReconcileManualEdit, Consumed
      <4> QED
        BY <1>0, <3>2, <4>1 DEF ReconcileManualEdit, Attempt
    <3> QED
      BY <1>13, <3>1, <3>2 DEF Reconcile
  <2> QED
    BY <1>0, <2>1, WorkersTyped DEF TakeOver
<1>14. CASE RecoverFeedbackAttempt \/ AcknowledgeFeedback
  <2>1. PICK s \in State : RestoreGate(s, attempt.action) /\ idx' \in {idx + 1, idx + 2}
    <3>1. CASE RecoverFeedbackAttempt
      <4>1. st.failedFrom \in Working /\ RestoreGate(Resume(st), attempt.action) /\ idx' = idx + 2
        BY <3>1 DEF RecoverFeedbackAttempt, FailedAttempt, Drafting, Working
      <4>2. Resume(st) \in State
        BY <1>0, <4>1, EdgesTyped
      <4> QED
        BY <4>1, <4>2
    <3>2. CASE AcknowledgeFeedback
      BY <1>0, <3>2 DEF AcknowledgeFeedback
    <3> QED
      BY <1>14, <3>1, <3>2
  <2>2. attempt.action \in ActionIds
    BY <2>1 DEF RestoreGate, Consumed
  <2>3. st' \in State /\ actions' \in [ActionIds -> ActionRow \cup {None}]
    BY <2>1, <2>2, RowTyped, EdgesTyped DEF RestoreGate
  <2> QED
    BY <1>0, <1>14, <2>1, <2>3 DEF RecoverFeedbackAttempt, AcknowledgeFeedback
<1>15. CASE RecoverReviewAttempt \/ AcknowledgeReview
  <2>1. /\ st' \in {st, Resume(st)} /\ idx' = idx + 1
        /\ st' = Resume(st) => st' = st \/ st.failedFrom \in Working
    BY <1>15 DEF RecoverReviewAttempt, FailedAttempt, AcknowledgeReview, Drafting, Working, Checkpoint
  <2> QED
    BY <1>0, <1>15, <2>1, EdgesTyped DEF RecoverReviewAttempt, AcknowledgeReview
<1>16. ASSUME NEW a \in ActionIds, FirstDraft(a) PROVE SagaTypeOK'
  <2>1. /\ st' = AuthorGate(st, canon + 1, a) /\ idx' = idx + 1 /\ Write(Initial) /\ Initial \in Writer
        /\ actions' \in [ActionIds -> ActionRow \cup {None}]
    BY <1>0, <1>16, RowTyped DEF FirstDraft, SubmitDraft, Checkpoint, ActionKind, Initial, Writer
  <2> QED
    BY <1>0, <1>16, <2>1, WriteTyped, EdgesTyped DEF FirstDraft
<1>17. CASE Review
  <2>1. CASE RequestReviewRevision
    <3>1. st' = RequestRevision(st) /\ actions' \in [ActionIds -> ActionRow \cup {None}]
      BY <2>1, RowTyped DEF RequestReviewRevision, CurrentGate
    <3>2. RequestRevision(st) \in State
      BY EdgesTyped DEF RequestRevision, Status, Working
    <3> QED
      BY <1>0, <1>17, <2>1, <3>1, <3>2 DEF Review, RequestReviewRevision
  <2>2. ASSUME NEW r \in ReportIds, RecordPassedReview(r) PROVE SagaTypeOK'
    <3>1. st' \in State
      BY <1>0, <2>2, ReviewTyped DEF RecordPassedReview
    <3> QED
      BY <1>0, <1>17, <2>2, <3>1 DEF Review, RecordPassedReview
  <2>3. ASSUME NEW r \in ReportIds, NEW a \in ActionIds, RecordBlockingReview(r, a) PROVE SagaTypeOK'
    <3>1. st' \in State
      BY <1>0, <2>3, ReviewTyped DEF RecordBlockingReview, RecordFindings
    <3>2. actions' \in [ActionIds -> ActionRow \cup {None}]
      BY <1>0, <2>3, RowTyped DEF RecordBlockingReview, RecordFindings, ActionKind
    <3> QED
      BY <1>0, <1>17, <2>3, <3>1, <3>2 DEF Review, RecordBlockingReview, RecordFindings
  <2> QED
    BY <1>17, <2>1, <2>2, <2>3 DEF Review
<1>18. CASE EditDraft
  BY <1>0, <1>18, WriteTyped DEF EditDraft, Author, Writer
<1>19. CASE UNCHANGED sagaVars
  BY <1>19 DEF sagaVars
<1> QED
  BY <1>1, <1>2, <1>3, <1>4, <1>5, <1>6, <1>7, <1>8, <1>9, <1>10, <1>11, <1>12, <1>13, <1>14, <1>15,
     <1>16, <1>17, <1>18, <1>19 DEF SagaNext, WorkerStep, Finalize, Reconcile, RecoverFailedAttempt,
     AcknowledgeNoWrite, Leaving, Answering

-----------------------------------------------------------------------------
(* The keys around are those of the attempt and of the requests' plans.     *)
LEMMA KeysFrom ==
    ASSUME NEW p,
           \/ attempt' \in {attempt, None, p}
           \/ attempt # None /\ PlanKey(attempt') = PlanKey(attempt),
           \A w \in Workers : worker'[w].plan \in {worker[w].plan, None, p}
    PROVE  /\ Keys' \subseteq Keys \cup {PlanKey(p)}
           /\ p = None \/ PlanKey(p) \in Keys => Keys' \subseteq Keys
<1>1. \A q : q # None /\ (q = attempt \/ \E w \in Workers : q = worker[w].plan) => PlanKey(q) \in Keys
  BY DEF Keys, Plans
<1>2. ASSUME NEW k \in Keys' PROVE k \in Keys \/ (p # None /\ k = PlanKey(p))
  <2>1. PICK q \in {attempt'} \cup {worker'[w].plan : w \in Workers} : q # None /\ k = PlanKey(q)
    BY <1>2 DEF Keys, Plans, PlanKey
  <2>2. CASE q = attempt'
    BY <1>1, <2>1, <2>2
  <2>3. CASE \E w \in Workers : q = worker'[w].plan
    BY <1>1, <2>1, <2>3
  <2> QED
    BY <2>1, <2>2, <2>3
<1> QED
  BY <1>2

(* A step adds no key, or a manual edit's, or a fresh one.                  *)
KeysKept == Keys' \subseteq Keys /\ issued' = issued
KeyOfEdit ==
    \E v \in Nat : Keys' \subseteq Keys \cup {[id |-> 0, kind |-> "manual", version |-> v]} /\ issued' = issued
KeyClaimed ==
    \E kind \in {"feedback", "review"}, v \in Nat :
        /\ Keys' \subseteq Keys \cup {[id |-> issued + 1, kind |-> kind, version |-> v]}
        /\ issued' = issued + 1 /\ UNCHANGED <<canon, writer>>

LEMMA KeysStep ==
    SagaTypeOK /\ [SagaNext]_sagaVars => KeysKept \/ KeyOfEdit \/ KeyClaimed
<1> SUFFICES ASSUME SagaTypeOK, [SagaNext]_sagaVars PROVE KeysKept \/ KeyOfEdit \/ KeyClaimed
  OBVIOUS
<1>0. worker \in [Workers -> WorkerRow] /\ st.version \in Nat /\ issued \in Nat
  BY DEF SagaTypeOK, State
<1>1. ASSUME attempt' \in {attempt, None}, issued' = issued,
             \A w \in Workers : worker'[w].plan \in {worker[w].plan, None}
      PROVE  KeysKept
  BY <1>1, KeysFrom DEF KeysKept
<1>2. ASSUME NEW w \in Workers, Return(w) PROVE \A v \in Workers : worker'[v].plan \in {worker[v].plan, None}
  BY <1>0, <1>2 DEF Return, Idle
<1>3. CASE \/ AcceptGate \/ AdoptSavedChild \/ AdoptSavedChain \/ RecoverFailedAttempt
           \/ AcknowledgeNoWrite \/ Review \/ EditDraft \/ (\E a \in ActionIds : FirstDraft(a))
           \/ UNCHANGED sagaVars
  <2>1. attempt' \in {attempt, None} /\ issued' = issued /\ worker' = worker
    BY <1>3 DEF AcceptGate, AdoptSavedChild, AdoptSavedChain, Adopt, RecoverFailedAttempt,
       RecoverFeedbackAttempt, RecoverReviewAttempt, AcknowledgeNoWrite, AcknowledgeFeedback,
       AcknowledgeReview, Review, EditDraft, FirstDraft, sagaVars
  <2> QED
    BY <1>1, <2>1
<1>4. ASSUME NEW w \in Workers, Leaving(w) \/ ReleaseAttempt(w) \/ Finalize(w) PROVE KeysKept
  <2>1. attempt' \in {attempt, None} /\ issued' = issued /\ Return(w)
    BY <1>4 DEF Leaving, Crash, Refuse, FinalizeRefused, ReleaseAttempt, Finalize, FinalizeFeedback,
       FinalizeReviewRevision, FinalizeManualEdit
  <2> QED
    BY <1>1, <1>2, <2>1
<1>5. ASSUME NEW w \in Workers, Answering(w) \/ PersistFeedback(w) \/ PersistReviewRevision(w) PROVE KeysKept
  <2>1. /\ attempt' = attempt /\ issued' = issued
        /\ \/ \E answer : worker' = [worker EXCEPT ![w].answer = answer]
           \/ worker' = [worker EXCEPT ![w].candidate = canon + 1]
    BY <1>5 DEF Answering, FeedbackProvider, ReviewProvider, ProviderReturns, PersistFeedback,
       PersistReviewRevision, WriteCandidate
  <2>2. \A v \in Workers : worker'[v].plan = worker[v].plan
    BY <1>0, <2>1 DEF WorkerRow
  <2> QED
    BY <1>1, <2>1, <2>2
<1>6. ASSUME NEW w \in Workers, FailAttempt(w) PROVE KeysKept
  <2>1. /\ attempt # None /\ attempt \in Attempt /\ attempt' = [attempt EXCEPT !.status = "failed"]
        /\ issued' = issued /\ Return(w)
    BY <1>6 DEF FailAttempt, CanFailAttempt, HoldsAttempt, Claimed, SagaTypeOK
  <2>2. attempt # None /\ PlanKey(attempt') = PlanKey(attempt)
    BY <2>1 DEF PlanKey, Attempt
  <2> QED
    BY <1>2, <2>1, <2>2, KeysFrom DEF KeysKept
<1>7. ASSUME NEW w \in Workers, ClaimFeedback(w) \/ ClaimReviewRevision(w) PROVE KeyClaimed
  <2>1. PICK kind \in {"feedback", "review"} :
           /\ attempt'.id = issued + 1 /\ attempt'.kind = kind /\ attempt'.version = st.version
           /\ issued' = issued + 1 /\ Start(w, attempt') /\ UNCHANGED <<canon, writer>>
    BY <1>7 DEF ClaimFeedback, ClaimReviewRevision
  <2>2. \A v \in Workers : worker'[v].plan \in {worker[v].plan, None, attempt'}
    BY <1>0, <2>1 DEF Start, WorkerRow
  <2>3. Keys' \subseteq Keys \cup {PlanKey(attempt')}
    BY <2>2, KeysFrom
  <2>4. PlanKey(attempt') = [id |-> issued + 1, kind |-> kind, version |-> st.version]
    BY <2>1 DEF PlanKey
  <2> QED
    BY <1>0, <2>1, <2>3, <2>4 DEF KeyClaimed
<1>8. ASSUME NEW w \in Workers, ReconcileDrafting(w) \/ ReconcileReview(w) PROVE KeysKept
  <2>1. TakeOver(w, attempt)
    BY <1>8 DEF ReconcileDrafting, ReconcileReview
  <2>2. \A v \in Workers : worker'[v].plan \in {worker[v].plan, None, attempt}
    BY <1>0, <2>1 DEF TakeOver
  <2>3. attempt = None \/ PlanKey(attempt) \in Keys
    BY DEF Keys, Plans
  <2> QED
    BY <2>1, <2>2, <2>3, KeysFrom DEF TakeOver, KeysKept
<1>9. ASSUME NEW w \in Workers, PersistManualEdit(w) \/ ReconcileManualEdit(w) PROVE KeyOfEdit
  <2> DEFINE plan == [id |-> 0, kind |-> "manual", version |-> st.version, idx |-> idx,
                      action |-> st.action, status |-> "claimed"]
  <2>1. /\ attempt' = attempt /\ issued' = issued
        /\ \E row : row.plan = plan /\ worker' = [worker EXCEPT ![w] = row]
    BY <1>9 DEF PersistManualEdit, ReconcileManualEdit, TakeOver
  <2>2. \A v \in Workers : worker'[v].plan \in {worker[v].plan, None, plan}
    BY <1>0, <2>1
  <2>3. Keys' \subseteq Keys \cup {PlanKey(plan)}
    BY <2>1, <2>2, KeysFrom
  <2>4. PlanKey(plan) = [id |-> 0, kind |-> "manual", version |-> st.version]
    BY DEF PlanKey
  <2> HIDE DEF plan
  <2> QED
    BY <1>0, <2>1, <2>3, <2>4 DEF KeyOfEdit
<1> QED
  BY <1>3, <1>4, <1>5, <1>6, <1>7, <1>8, <1>9 DEF SagaNext, WorkerStep, Reconcile, Leaving, Answering

(* What is written is not by a provider, or it answers a plan of an attempt *)
(* for the version it follows.                                              *)
LEMMA WriterStep ==
    SagaTypeOK /\ [SagaNext]_sagaVars =>
        \/ UNCHANGED <<canon, writer>>
        \/ \E who \in Writer : who.by # "agent" /\ Write(who)
        \/ \E k \in Keys : k.kind \in {"feedback", "review"} /\ k.version = canon /\ Write(Agent(k.id))
<1> SUFFICES ASSUME SagaTypeOK, [SagaNext]_sagaVars
             PROVE  \/ UNCHANGED <<canon, writer>>
                    \/ \E who \in Writer : who.by # "agent" /\ Write(who)
                    \/ \E k \in Keys : k.kind \in {"feedback", "review"} /\ k.version = canon /\ Write(Agent(k.id))
  OBVIOUS
<1>1. ASSUME NEW w \in Workers, PersistFeedback(w) \/ PersistReviewRevision(w)
      PROVE  \E k \in Keys : k.kind \in {"feedback", "review"} /\ k.version = canon /\ Write(Agent(k.id))
  <2>1. /\ worker[w].plan # None /\ Write(Agent(worker[w].plan.id))
        /\ worker[w].plan.kind \in {"feedback", "review"} /\ worker[w].plan.version = canon
    BY <1>1 DEF PersistFeedback, PersistReviewRevision, Holding, WriteCandidate, CanPersistFeedback,
       CanPersistReview, ReviewRevisionContext
  <2>2. PlanKey(worker[w].plan) \in Keys
    BY <2>1 DEF Keys, Plans
  <2> QED
    BY <2>1, <2>2 DEF PlanKey
<1>2. CASE (\E w \in Workers : PersistManualEdit(w)) \/ EditDraft \/ \E a \in ActionIds : FirstDraft(a)
  <2>1. Write(ManualEdit) \/ Write(Author) \/ Write(Initial)
    BY <1>2 DEF PersistManualEdit, EditDraft, FirstDraft
  <2>2. \A who \in {ManualEdit, Author, Initial} : who \in Writer /\ who.by # "agent"
    BY DEF ManualEdit, Author, Initial, Writer
  <2> QED
    BY <2>1, <2>2
<1>3. CASE \/ AcceptGate \/ AdoptSavedChild \/ AdoptSavedChain \/ RecoverFailedAttempt
           \/ AcknowledgeNoWrite \/ Review \/ UNCHANGED sagaVars
  BY <1>3 DEF AcceptGate, AcceptDraft, AdoptSavedChild, AdoptSavedChain, Adopt, RecoverFailedAttempt,
     RecoverFeedbackAttempt, RecoverReviewAttempt, AcknowledgeNoWrite, AcknowledgeFeedback,
     AcknowledgeReview, Review, RecordPassedReview, RecordBlockingReview, RecordFindings,
     RequestReviewRevision, sagaVars
<1>4. ASSUME NEW w \in Workers,
             \/ Leaving(w) \/ Answering(w) \/ ReleaseAttempt(w) \/ Finalize(w) \/ FailAttempt(w)
             \/ ClaimFeedback(w) \/ ClaimReviewRevision(w) \/ Reconcile(w)
      PROVE  UNCHANGED <<canon, writer>>
  BY <1>4 DEF Leaving, Crash, Refuse, FinalizeRefused, Answering, FeedbackProvider, ReviewProvider,
     ProviderReturns, ReleaseAttempt, Finalize, FinalizeFeedback, FinalizeReviewRevision,
     FinalizeManualEdit, FailAttempt, ClaimFeedback, ClaimReviewRevision, Reconcile, ReconcileDrafting,
     ReconcileReview, ReconcileManualEdit, TakeOver
<1> QED
  BY <1>1, <1>2, <1>3, <1>4 DEF SagaNext, WorkerStep, Leaving, Answering

(* Ids stay fresh, and a plan's answer stays the child of its version.      *)
LEMMA PlansStayApart ==
    SagaTypeOK /\ SagaTypeOK' /\ PlansAgree /\ OneCandidatePerAttempt /\ [SagaNext]_sagaVars
        => PlansAgree' /\ OneCandidatePerAttempt'
<1> SUFFICES ASSUME SagaTypeOK, SagaTypeOK', PlansAgree, OneCandidatePerAttempt, [SagaNext]_sagaVars
             PROVE  PlansAgree' /\ OneCandidatePerAttempt'
  OBVIOUS
<1> DEFINE ByAgent(n) == \E k \in Keys : k.id = n /\ k.kind # "manual" /\ k.version = canon
<1>0. /\ canon \in Nat /\ issued \in Nat /\ issued' \in Nat
      /\ writer \in [1 .. MaxVersion -> Writer \cup {None}]
      /\ writer' \in [1 .. MaxVersion -> Writer \cup {None}]
      /\ \A k \in Keys : k.id \in Nat /\ k.version \in Nat
  BY VersionBound DEF SagaTypeOK, Keys, Plans, PlanKey, WorkerRow, Attempt
<1>1. /\ \A k \in Keys : k.id <= issued /\ (k.kind = "manual" <=> k.id = 0)
      /\ \A k, l \in Keys : k.id = l.id /\ k.id # 0 => k = l
      /\ \A k \in Keys, v \in 1 .. MaxVersion : writer[v] = Agent(k.id) => v = k.version + 1
      /\ \A v \in 1 .. MaxVersion : writer[v] # None /\ writer[v].by = "agent" =>
            writer[v].attempt \in 1 .. issued
  BY DEF PlansAgree
<1>2. \A v \in 1 .. MaxVersion :
         \/ writer'[v] = writer[v]
         \/ v = canon + 1 /\ \E who \in Writer : who.by # "agent" /\ writer'[v] = who
         \/ v = canon + 1 /\ \E k \in Keys :
               k.kind # "manual" /\ k.version = canon /\ writer'[v] = Agent(k.id)
  <2>1. CASE UNCHANGED writer
    BY <2>1
  <2>2. CASE \E who \in Writer : who.by # "agent" /\ Write(who)
    BY <1>0, <2>2 DEF Write
  <2>3. CASE \E k \in Keys : k.kind \in {"feedback", "review"} /\ k.version = canon /\ Write(Agent(k.id))
    BY <1>0, <2>3 DEF Write
  <2> QED
    BY <2>1, <2>2, <2>3, WriterStep
<1>3. \A v \in 1 .. MaxVersion, n \in Nat : writer'[v] = Agent(n) =>
         writer[v] = Agent(n) \/ (v = canon + 1 /\ ByAgent(n))
  BY <1>0, <1>2 DEF Agent
<1>4. \A v \in 1 .. MaxVersion : writer'[v] # None /\ writer'[v].by = "agent" =>
         writer'[v] = Agent(writer'[v].attempt) /\ writer'[v].attempt \in Nat
  BY <1>0 DEF Agent, Writer
<1>5. Agent(0).by = "agent" /\ \A n : Agent(n).attempt = n /\ Agent(n).by = "agent"
  BY DEF Agent
<1>6. \A n \in Nat : Agent(n) # None
  BY PlanAssumption DEF Agent, Writer
<1>7. \A n \in Nat, v \in 1 .. MaxVersion : writer'[v] = Agent(n) => n \in 1 .. issued
  <2> TAKE n \in Nat, v \in 1 .. MaxVersion
  <2> HAVE writer'[v] = Agent(n)
  <2>1. CASE writer[v] = Agent(n)
    BY <1>1, <1>5, <1>6, <2>1
  <2>2. CASE ByAgent(n)
    BY <1>0, <1>1, <2>2
  <2> QED
    BY <1>3, <2>1, <2>2
<1>8. issued <= issued'
  BY <1>0, KeysStep DEF KeysKept, KeyOfEdit, KeyClaimed
<1>9. /\ \A k \in Keys' : k.id <= issued' /\ (k.kind = "manual" <=> k.id = 0)
      /\ \A k, l \in Keys' : k.id = l.id /\ k.id # 0 => k = l
      /\ \A k \in Keys' : k \in Keys \/ k.id \in {0, issued + 1}
  <2>1. CASE KeysKept
    BY <1>0, <1>1, <2>1 DEF KeysKept
  <2>2. CASE KeyOfEdit
    BY <1>0, <1>1, <2>2 DEF KeyOfEdit
  <2>3. CASE KeyClaimed
    BY <1>0, <1>1, <2>3 DEF KeyClaimed
  <2> QED
    BY <2>1, <2>2, <2>3, KeysStep
<1>10. \A k \in Keys', v \in 1 .. MaxVersion : writer'[v] = Agent(k.id) => v = k.version + 1
  <2> SUFFICES ASSUME NEW k \in Keys', NEW v \in 1 .. MaxVersion, writer'[v] = Agent(k.id)
               PROVE  v = k.version + 1
    OBVIOUS
  <2>1. k \in Keys /\ k.id # 0
    BY <1>0, <1>7, <1>9
  <2>2. CASE writer[v] = Agent(k.id)
    BY <1>1, <2>1, <2>2
  <2>3. CASE v = canon + 1 /\ ByAgent(k.id)
    BY <1>1, <2>1, <2>3
  <2> QED
    BY <1>0, <1>3, <2>1, <2>2, <2>3
<1>11. \A v \in 1 .. MaxVersion : writer'[v] # None /\ writer'[v].by = "agent" =>
         writer'[v].attempt \in 1 .. issued'
  BY <1>0, <1>4, <1>7, <1>8
<1>12. PlansAgree'
  BY <1>9, <1>10, <1>11 DEF PlansAgree, Agent
<1>13. ASSUME NEW v1 \in 1 .. MaxVersion, NEW v2 \in 1 .. MaxVersion,
              writer'[v1] # None, writer'[v1] = writer'[v2], writer'[v1].by = "agent"
       PROVE  v1 = v2
  <2>1. PICK n \in Nat : writer'[v1] = Agent(n) /\ writer'[v2] = Agent(n)
    BY <1>4, <1>13
  <2>2. CASE writer[v1] = Agent(n) /\ writer[v2] = Agent(n)
    BY <1>5, <1>6, <2>2 DEF OneCandidatePerAttempt
  <2>3. CASE ByAgent(n)
    BY <1>1, <1>3, <2>1, <2>3
  <2> QED
    BY <1>3, <2>1, <2>2, <2>3
<1> QED
  BY <1>12, <1>13 DEF OneCandidatePerAttempt

-----------------------------------------------------------------------------
(* The gate.                                                               *)

(* A decision about the pending gate resolves its row and no other.         *)
LEMMA Resolved ==
    ASSUME SagaTypeOK, NEW kind, Gate(kind), NEW status, ResolveRow(status)
    PROVE  /\ st.action \in ActionIds /\ actions[st.action] # None
           /\ actions[st.action].status = "pending" /\ actions[st.action].kind = kind
           /\ actions[st.action].version = st.version
           /\ actions'[st.action].status = status
           /\ \A a \in ActionIds :
                 /\ a # st.action => actions'[a] = actions[a]
                 /\ actions'[a] # None => actions[a] # None
                 /\ actions[a] # None => /\ actions'[a].version = actions[a].version
                                         /\ actions'[a].kind = actions[a].kind
<1>1. st.action \in ActionIds /\ actions[st.action] \in ActionRow /\ actions[st.action] # None
  BY RowTyped DEF SagaTypeOK
<1>2. actions[st.action] = [kind |-> kind, version |-> st.version, status |-> "pending"]
  BY DEF Gate
<1>3. actions' = [actions EXCEPT ![st.action] = [actions[st.action] EXCEPT !.status = status]]
  BY DEF ResolveRow
<1>4. actions'[st.action] = [kind |-> kind, version |-> st.version, status |-> status]
  BY <1>1, <1>2, <1>3 DEF SagaTypeOK
<1>5. \A a \in ActionIds : a # st.action => actions'[a] = actions[a]
  BY <1>3 DEF SagaTypeOK
<1> QED
  BY <1>1, <1>2, <1>4, <1>5

(* A gate that is given back is the only consumed row, and the others stay. *)
LEMMA GivenBack ==
    ASSUME SagaTypeOK, NEW s \in State, NEW a, RestoreGate(s, a)
    PROVE  /\ a \in ActionIds /\ actions[a] # None /\ Consumed = {a}
           /\ actions'[a].status = "pending"
           /\ \A b \in ActionIds :
                 /\ b # a => actions'[b] = actions[b]
                 /\ actions'[b] # None => actions[b] # None
                 /\ actions[b] # None => actions'[b].version = actions[b].version
           /\ st'.status = "AUTHOR_REVISION" /\ st'.action = a /\ st'.version = s.version
<1>1. a \in ActionIds /\ actions[a] # None /\ Consumed = {a} /\ actions[a] \in ActionRow
  BY DEF RestoreGate, Consumed, SagaTypeOK
<1>2. actions' = [actions EXCEPT ![a] = [actions[a] EXCEPT !.status = "pending"]]
  BY DEF RestoreGate
<1>3. actions'[a].status = "pending" /\ actions'[a].version = actions[a].version
  BY <1>1, <1>2 DEF SagaTypeOK, ActionRow
<1>4. \A b \in ActionIds : b # a => actions'[b] = actions[b]
  BY <1>2 DEF SagaTypeOK
<1>5. st'.status = "AUTHOR_REVISION" /\ st'.action = a /\ st'.version = s.version
  BY DEF RestoreGate, Reopened, State
<1> QED
  BY <1>1, <1>3, <1>4, <1>5

(* While a gate is pending nothing else is on its way: no consumed row, and *)
(* no attempt that answers one.                                             *)
LEMMA GateAlone ==
    ASSUME SagaTypeOK, AttemptPlace, DecisionsAnswered, NEW kind, Gate(kind)
    PROVE  /\ Consumed = {} /\ st.version # NoVersion
           /\ attempt # None => attempt.kind = "review" /\ attempt.action = None
<1>1. st.action \in ActionIds /\ actions[st.action].status = "pending"
  BY DEF Gate, Pending
<1>2. st.version # NoVersion /\ (attempt # None => attempt.kind = "review" /\ attempt.action = None)
  BY <1>1, NoneAssumption DEF AttemptPlace
<1>3. ASSUME NEW a \in Consumed PROVE FALSE
  BY <1>1, <1>2, <1>3, NoneAssumption DEF DecisionsAnswered, Consumed
<1> QED
  BY <1>2, <1>3

(* A new version has no consumed row yet.                                   *)
LEMMA NewVersionUntouched ==
    ASSUME SagaTypeOK, RowsBehind, st'.version \in Nat, st'.version > st.version,
           \A a \in ActionIds : actions'[a] # None =>
               \/ actions[a] # None /\ actions'[a].version = actions[a].version
               \/ actions'[a].status = "pending"
    PROVE  Consumed' = {}
<1>1. ASSUME NEW a \in ActionIds, actions[a] # None
      PROVE  actions[a].version \in Nat /\ actions[a].version <= st.version /\ st.version \in Nat
  BY <1>1 DEF SagaTypeOK, ActionRow, RowsBehind, State
<1> QED
  BY <1>1 DEF Consumed

GateInv == AttemptPlace /\ RowsBehind /\ DecisionsAnswered

(* Every step keeps the attempt in its place, the rows behind the draft and *)
(* an answer due for every consumed gate.                                   *)
LEMMA GatesStay ==
    SagaTypeOK /\ SagaTypeOK' /\ PlansAgree /\ GateInv /\ [SagaNext]_sagaVars => GateInv'
<1> SUFFICES ASSUME SagaTypeOK, SagaTypeOK', PlansAgree, GateInv, [SagaNext]_sagaVars PROVE GateInv'
  OBVIOUS
<1>0. /\ canon \in Nat /\ canon \in 0 .. MaxVersion /\ MaxVersion \in Nat
      /\ st \in State /\ st.version \in Nat /\ st.status \in Status /\ st.action \in ActionIds \cup {None}
      /\ writer \in [1 .. MaxVersion -> Writer \cup {None}]
      /\ attempt # None => attempt \in Attempt
      /\ \A a \in ActionIds : a # None /\ (actions[a] # None =>
            actions[a] \in ActionRow /\ actions[a].version \in Nat)
      /\ AttemptPlace /\ RowsBehind /\ DecisionsAnswered
  BY VersionBound, NoneAssumption DEF SagaTypeOK, State, ActionRow, GateInv
<1>1. \A a \in Consumed : a \in ActionIds /\ actions[a] # None /\ actions[a].status = "revised"
  BY DEF Consumed
<1>2. \A a \in Consumed :
         \/ attempt # None /\ attempt.action = a /\ attempt.version = st.version /\ attempt.kind = "feedback"
         \/ /\ st.action = a /\ st.version < MaxVersion /\ st.version < canon
            /\ writer[st.version + 1] = ManualEdit
  <2> TAKE a \in Consumed
  <2>1. a \in ActionIds
    BY <1>1
  <2>2. CASE attempt # None /\ attempt.action = a /\ attempt.version = st.version
    BY <1>0, <2>1, <2>2 DEF AttemptPlace
  <2>3. CASE st.action = a /\ st.version < MaxVersion /\ writer[st.version + 1] = ManualEdit
    <3>1. ManualEdit # None
      BY PlanAssumption DEF ManualEdit, Writer
    <3> QED
      BY <1>0, <2>3, <3>1 DEF RowsBehind
  <2> QED
    BY <1>0, <2>2, <2>3 DEF DecisionsAnswered
<1>3. ASSUME UNCHANGED <<st, actions, attempt, canon, writer>> PROVE GateInv'
  BY <1>0, <1>3 DEF AttemptPlace, RowsBehind, DecisionsAnswered, Consumed, GateInv
<1>4. ASSUME UNCHANGED <<st, actions, attempt>>, NEW who \in Writer, Write(who) PROVE GateInv'
  <2>1. canon' = canon + 1 /\ canon + 1 \in 1 .. MaxVersion /\ writer' = [writer EXCEPT ![canon + 1] = who]
    BY <1>0, <1>4 DEF Write
  <2>2. AttemptPlace' /\ Consumed' = Consumed
    BY <1>0, <1>4 DEF AttemptPlace, Consumed
  <2>3. RowsBehind'
    BY <1>0, <1>4, <2>1 DEF RowsBehind
  <2>4. DecisionsAnswered'
    BY <1>0, <1>2, <1>4, <2>1, <2>2 DEF DecisionsAnswered
  <2> QED
    BY <2>2, <2>3, <2>4 DEF GateInv
<1>5. CASE AcceptGate
  <2>1. Gate("author_revision") /\ ResolveRow("approved") /\ st' = Accept(st) /\ UNCHANGED <<canon, attempt, writer>>
    BY <1>5 DEF AcceptGate, AcceptDraft, CurrentGate
  <2>2. st'.version = st.version
    BY <1>0, <2>1 DEF Accept, WithoutAction, State
  <2>3. AttemptPlace'
    BY <1>0, <2>1, <2>2, GateAlone DEF AttemptPlace
  <2>4. RowsBehind'
    BY <1>0, <2>1, <2>2, Resolved DEF RowsBehind
  <2>5. Consumed' = {}
    BY <1>0, <2>1, <2>2, GateAlone, Resolved DEF Consumed
  <2> QED
    BY <2>3, <2>4, <2>5 DEF GateInv, DecisionsAnswered
<1>6. CASE AdoptSavedChild \/ AdoptSavedChain
  <2>1. /\ Gate("author_revision") /\ CanAdoptStale(st, canon) /\ ResolveRow("cancelled")
        /\ st' = NewVersionForReview(st, canon) /\ UNCHANGED <<canon, attempt, writer>>
    BY <1>6 DEF AdoptSavedChild, AdoptSavedChain, Adopt, Checkpoint
  <2>2. st'.version = canon /\ canon > st.version
    BY <1>0, <2>1 DEF NewVersionForReview, State, CanAdoptStale, CanTakeNewVersion, RowsBehind
  <2>3. AttemptPlace'
    BY <1>0, <2>1, <2>2, GateAlone DEF AttemptPlace, NoVersion
  <2>4. RowsBehind'
    BY <1>0, <2>1, <2>2, Resolved DEF RowsBehind
  <2>5. Consumed' = {}
    BY <1>0, <2>1, <2>2, Resolved, NewVersionUntouched
  <2> QED
    BY <2>3, <2>4, <2>5 DEF GateInv, DecisionsAnswered
<1>7. ASSUME NEW w \in Workers, ClaimFeedback(w) PROVE GateInv'
  <2>1. /\ Gate("author_revision") /\ ResolveRow("revised") /\ st' = RequestDraft(st)
        /\ attempt'.kind = "feedback" /\ attempt'.version = st.version /\ attempt'.action = st.action
        /\ attempt' # None /\ UNCHANGED <<canon, writer>>
    <3>1. attempt' = [id |-> issued + 1, kind |-> "feedback", version |-> st.version,
                      idx |-> idx + 1, action |-> st.action, status |-> "claimed"]
      BY <1>7 DEF ClaimFeedback
    <3>2. attempt' \in Attempt
      BY <1>0, <3>1 DEF Attempt, SagaTypeOK
    <3> QED
      BY <1>7, <3>1, <3>2, PlanAssumption DEF ClaimFeedback, CurrentGate, Checkpoint
  <2>2. st'.version = st.version /\ st'.status = "DRAFTING" /\ st'.action = None
    BY <1>0, <2>1 DEF RequestDraft, WithoutAction, State
  <2>3. AttemptPlace'
    BY <1>0, <2>1, <2>2, GateAlone DEF AttemptPlace
  <2>4. RowsBehind'
    BY <1>0, <2>1, <2>2, Resolved DEF RowsBehind
  <2>5. \A a \in Consumed' : a = st.action
    BY <1>0, <2>1, <2>2, GateAlone, Resolved DEF Consumed
  <2> QED
    BY <2>1, <2>2, <2>3, <2>4, <2>5 DEF GateInv, DecisionsAnswered
<1>8. ASSUME NEW w \in Workers, PersistManualEdit(w) PROVE GateInv'
  <2>1. /\ Gate("author_revision") /\ ResolveRow("revised") /\ canon = st.version
        /\ Write(ManualEdit) /\ UNCHANGED <<st, attempt>>
    BY <1>8 DEF PersistManualEdit, AuthorContext, CurrentGate
  <2>2. canon' = canon + 1 /\ canon + 1 \in 1 .. MaxVersion /\ writer' = [writer EXCEPT ![canon + 1] = ManualEdit]
    BY <1>0, <2>1 DEF Write
  <2>3. AttemptPlace'
    BY <1>0, <2>1 DEF AttemptPlace
  <2>4. RowsBehind'
    BY <1>0, <2>1, <2>2, Resolved DEF RowsBehind
  <2>5. \A a \in Consumed' : a = st.action
    BY <1>0, <2>1, GateAlone, Resolved DEF Consumed
  <2>6. st.version < MaxVersion /\ writer'[st.version + 1] = ManualEdit
    BY <1>0, <2>1, <2>2
  <2> QED
    BY <2>1, <2>3, <2>4, <2>5, <2>6 DEF GateInv, DecisionsAnswered
<1>9. ASSUME NEW w \in Workers, ClaimReviewRevision(w) PROVE GateInv'
  <2>1. /\ attempt = None /\ attempt'.kind = "review" /\ attempt'.action = None
        /\ UNCHANGED <<st, actions, canon, writer>>
    BY <1>9 DEF ClaimReviewRevision
  <2>2. AttemptPlace' /\ RowsBehind' /\ Consumed' = Consumed
    BY <1>0, <2>1 DEF AttemptPlace, RowsBehind, Consumed
  <2> QED
    BY <1>2, <2>1, <2>2 DEF GateInv, DecisionsAnswered
<1>10. ASSUME NEW w \in Workers, FailAttempt(w) PROVE GateInv'
  <2>1. /\ attempt # None /\ attempt' = [attempt EXCEPT !.status = "failed"] /\ st' = Fail(st, "provider")
        /\ CanFail(st) /\ UNCHANGED <<actions, canon, writer>>
    BY <1>10 DEF FailAttempt, CanFailAttempt, HoldsAttempt, Claimed, Checkpoint
  <2>2. /\ st'.version = st.version /\ st'.action = st.action /\ st.action = None /\ st'.status = "FAILED"
        /\ attempt'.kind = attempt.kind /\ attempt'.action = attempt.action /\ attempt'.version = attempt.version
    BY <1>0, <2>1 DEF Fail, CanFail, Awaiting, State, Attempt
  <2>3. st.version # NoVersion
    <3>1. /\ PlanKey(attempt) \in Keys /\ PlanKey(worker[w].plan) \in Keys
          /\ attempt.id = worker[w].plan.id /\ st.status = Drafting(worker[w].plan.kind)
      BY <1>10 DEF FailAttempt, CanFailAttempt, HoldsAttempt, Claimed, Keys, Plans
    <3>2. attempt.kind = worker[w].plan.kind
      BY <1>0, <2>1, <3>1 DEF PlansAgree, AttemptPlace, PlanKey
    <3> QED
      BY <1>0, <2>1, <3>1, <3>2 DEF AttemptPlace, Drafting
  <2>4. AttemptPlace' /\ RowsBehind' /\ Consumed' = Consumed
    BY <1>0, <2>1, <2>2, <2>3 DEF AttemptPlace, RowsBehind, Consumed
  <2>5. attempt' # None
    BY <1>0, <2>1, PlanAssumption DEF Attempt
  <2> QED
    BY <1>1, <1>2, <2>1, <2>2, <2>4, <2>5 DEF GateInv, DecisionsAnswered
<1>11. ASSUME NEW s \in State, s.version = st.version, attempt # None, attempt.kind = "feedback",
              RestoreGate(s, attempt.action), attempt' = None, UNCHANGED <<canon, writer>>
       PROVE  GateInv'
  <2>1. st'.version = st.version /\ st'.status = "AUTHOR_REVISION" /\ st.version # NoVersion
    BY <1>0, <1>11, GivenBack DEF AttemptPlace
  <2>2. AttemptPlace'
    BY <1>11, <2>1 DEF AttemptPlace
  <2>3. RowsBehind'
    BY <1>0, <1>11, <2>1, GivenBack DEF RowsBehind
  <2>4. Consumed' = {}
    BY <1>0, <1>11, <2>1, GivenBack DEF Consumed
  <2> QED
    BY <2>2, <2>3, <2>4 DEF GateInv, DecisionsAnswered
<1>12. ASSUME attempt = None \/ attempt.kind = "review", attempt' = None,
              st' = st \/ (st' = Resume(st) /\ st.version # NoVersion), UNCHANGED <<canon, writer, actions>>
       PROVE  GateInv'
  <2>1. st'.version = st.version /\ st'.action = st.action /\ (st' = st \/ st.version # NoVersion)
    BY <1>0, <1>12 DEF Resume, State
  <2>2. AttemptPlace'
    BY <1>0, <1>12, <2>1 DEF AttemptPlace
  <2>3. RowsBehind' /\ Consumed' = Consumed
    BY <1>0, <1>12, <2>1 DEF RowsBehind, Consumed
  <2> QED
    BY <1>2, <1>12, <2>1, <2>2, <2>3 DEF GateInv, DecisionsAnswered
<1>13. ASSUME NEW w \in Workers, ReleaseAttempt(w) PROVE GateInv'
  <2>1. attempt # None /\ attempt' = None /\ UNCHANGED <<canon, writer>>
    BY <1>13 DEF ReleaseAttempt, CanRelease, HoldsAttempt, Claimed
  <2>2. CASE attempt.kind = "feedback"
    BY <1>0, <1>11, <1>13, <2>1, <2>2 DEF ReleaseAttempt
  <2>3. CASE attempt.kind # "feedback"
    <3>1. attempt.kind = "review" /\ UNCHANGED <<st, actions>>
      BY <1>0, <1>13, <2>1, <2>3 DEF ReleaseAttempt, AttemptPlace
    <3> QED
      BY <1>12, <2>1, <3>1
  <2> QED
    BY <2>2, <2>3
<1>14. ASSUME NEW w \in Workers, NEW a \in ActionIds, FinalizeFeedback(w, a) PROVE GateInv'
  <2>1. /\ canon # st.version /\ canon # NoVersion /\ NewAction(a, "author_revision", canon)
        /\ st' = AuthorGate(st, canon, a) /\ attempt' = None /\ UNCHANGED <<canon, writer>>
    BY <1>14 DEF FinalizeFeedback, CanSubmitDraft, SubmitDraft, Checkpoint
  <2>2. st'.version = canon /\ canon > st.version
    BY <1>0, <2>1 DEF AuthorGate, State, RowsBehind
  <2>3. \A b \in ActionIds : actions'[b] # None =>
           \/ actions[b] # None /\ actions'[b].version = actions[b].version
           \/ actions'[b].status = "pending" /\ actions'[b].version = canon
    BY <2>1 DEF NewAction, SagaTypeOK
  <2>4. AttemptPlace' /\ RowsBehind'
    BY <1>0, <2>1, <2>2, <2>3 DEF AttemptPlace, RowsBehind
  <2>5. Consumed' = {}
    BY <1>0, <2>2, <2>3, NewVersionUntouched
  <2> QED
    BY <2>4, <2>5 DEF GateInv, DecisionsAnswered
<1>15. ASSUME NEW w \in Workers, FinalizeReviewRevision(w) \/ FinalizeManualEdit(w) PROVE GateInv'
  <2>1. /\ CanTakeNewVersion(st, canon) /\ st' = NewVersionForReview(st, canon)
        /\ attempt' = None /\ UNCHANGED <<actions, canon, writer>>
    <3>1. CASE FinalizeReviewRevision(w)
      BY <3>1 DEF FinalizeReviewRevision, CanSubmitReviewRevision, Checkpoint
    <3>2. CASE FinalizeManualEdit(w)
      BY <3>2 DEF FinalizeManualEdit, CanManualEdit, Checkpoint, Persisted, CanFinalize, ManualEvidence
    <3> QED
      BY <1>15, <3>1, <3>2
  <2>2. st'.version = canon /\ canon > st.version
    BY <1>0, <2>1 DEF NewVersionForReview, State, CanTakeNewVersion, RowsBehind
  <2>3. AttemptPlace' /\ RowsBehind'
    BY <1>0, <2>1, <2>2 DEF AttemptPlace, RowsBehind, CanTakeNewVersion, NoVersion
  <2>4. Consumed' = {}
    BY <1>0, <2>1, <2>2, NewVersionUntouched
  <2> QED
    BY <2>3, <2>4 DEF GateInv, DecisionsAnswered
<1>16. CASE RecoverFeedbackAttempt
  <2>1. /\ attempt # None /\ attempt.kind = "feedback" /\ RestoreGate(Resume(st), attempt.action)
        /\ attempt' = None /\ UNCHANGED <<canon, writer>> /\ st.failedFrom \in Working
    BY <1>16 DEF RecoverFeedbackAttempt, FailedAttempt, Drafting, Working
  <2>2. Resume(st) \in State /\ Resume(st).version = st.version
    BY <1>0, <2>1, EdgesTyped DEF Resume, State
  <2> QED
    BY <1>11, <2>1, <2>2
<1>17. CASE AcknowledgeFeedback
  BY <1>0, <1>11, <1>17 DEF AcknowledgeFeedback, NothingWritten, Claimed
<1>18. CASE RecoverReviewAttempt
  <2>1. /\ attempt # None /\ attempt.kind = "review" /\ st.status = "FAILED" /\ st' = Resume(st)
        /\ attempt' = None /\ UNCHANGED <<canon, writer, actions>>
    BY <1>18 DEF RecoverReviewAttempt, FailedAttempt, Checkpoint
  <2>2. st.version # NoVersion
    BY <1>0, <2>1 DEF AttemptPlace
  <2> QED
    BY <1>12, <2>1, <2>2
<1>19. CASE AcknowledgeReview
  BY <1>12, <1>19 DEF AcknowledgeReview, NothingWritten, Claimed, Checkpoint
<1>20. ASSUME NEW a \in ActionIds, FirstDraft(a) PROVE GateInv'
  <2>1. /\ st.version = NoVersion /\ Write(Initial) /\ NewAction(a, "author_revision", canon + 1)
        /\ st' = AuthorGate(st, canon + 1, a) /\ UNCHANGED attempt
    BY <1>20 DEF FirstDraft, SubmitDraft, Checkpoint
  <2>2. /\ canon' = canon + 1 /\ writer' = [writer EXCEPT ![canon + 1] = Initial]
        /\ st'.version = canon + 1 /\ canon + 1 > st.version
    BY <1>0, <2>1 DEF Write, AuthorGate, State, NoVersion
  <2>3. \A b \in ActionIds : actions'[b] # None =>
           \/ actions[b] # None /\ actions'[b].version = actions[b].version
           \/ actions'[b].status = "pending" /\ actions'[b].version = canon + 1
    BY <2>1 DEF NewAction, SagaTypeOK
  <2>4. AttemptPlace'
    BY <1>0, <2>1, <2>2 DEF AttemptPlace, NoVersion
  <2>5. RowsBehind'
    BY <1>0, <2>2, <2>3 DEF RowsBehind
  <2>6. Consumed' = {}
    BY <1>0, <2>2, <2>3, NewVersionUntouched
  <2> QED
    BY <2>4, <2>5, <2>6 DEF GateInv, DecisionsAnswered
<1>21. CASE Review /\ \E r \in ReportIds :
               RecordPassedReview(r) \/ \E a \in ActionIds : RecordBlockingReview(r, a)
  <2>1. /\ CanRecordReview(st, ExpectedStage(st)) /\ UNCHANGED <<attempt, canon, writer>>
        /\ \/ UNCHANGED actions
           \/ \E a \in ActionIds : NewAction(a, "review_revision", st.version)
        /\ \E r \in ReportIds : \/ st' = RecordPassed(st, ExpectedStage(st), r)
                                \/ \E a \in ActionIds : st' = RecordBlocking(st, ExpectedStage(st), r, a)
    BY <1>21 DEF Review, RecordPassedReview, RecordBlockingReview, RecordFindings
  <2>2. st.status \in ReviewStatus /\ st.action = None /\ st'.version = st.version
    BY <1>0, <2>1 DEF CanRecordReview, Awaiting, RecordPassed, RecordBlocking, State
  <2>3. st.version # NoVersion /\ (attempt # None => attempt.kind = "review")
    BY <1>0, <2>2 DEF AttemptPlace, ReviewStatus
  <2>4. Consumed = {}
    BY <1>1, <1>2, <1>0, <2>2, <2>3
  <2>5. \A b \in ActionIds : \/ actions'[b] = actions[b]
                             \/ actions'[b].status = "pending" /\ actions'[b].version = st.version
    BY <2>1 DEF NewAction, SagaTypeOK
  <2>6. AttemptPlace'
    BY <1>0, <2>1, <2>2, <2>3 DEF AttemptPlace
  <2>7. RowsBehind'
    BY <1>0, <2>1, <2>2, <2>5 DEF RowsBehind
  <2>8. Consumed' = {}
    BY <2>2, <2>4, <2>5 DEF Consumed
  <2> QED
    BY <2>6, <2>7, <2>8 DEF GateInv, DecisionsAnswered
<1>22. CASE Review /\ RequestReviewRevision
  <2>1. PICK kind \in {"review_warning", "review_revision"} : Gate(kind)
    BY <1>22 DEF RequestReviewRevision, CurrentGate
  <2>2. ResolveRow("revised") /\ st' = RequestRevision(st) /\ UNCHANGED <<attempt, canon, writer>>
    BY <1>22 DEF Review, RequestReviewRevision
  <2>3. st'.version = st.version
    BY <1>0, <2>2 DEF RequestRevision, WithoutAction, State
  <2>4. AttemptPlace'
    BY <1>0, <2>1, <2>2, <2>3, GateAlone DEF AttemptPlace
  <2>5. RowsBehind'
    BY <1>0, <2>1, <2>2, <2>3, Resolved DEF RowsBehind
  <2>6. Consumed' = {}
    BY <1>0, <2>1, <2>2, <2>3, GateAlone, Resolved DEF Consumed
  <2> QED
    BY <2>4, <2>5, <2>6 DEF GateInv, DecisionsAnswered
<1>23. ASSUME NEW w \in Workers, PersistFeedback(w) \/ PersistReviewRevision(w) PROVE GateInv'
  <2>1. /\ worker[w].plan # None /\ worker[w].plan \in Attempt /\ Write(Agent(worker[w].plan.id))
        /\ UNCHANGED <<st, actions, attempt>>
    BY <1>23 DEF PersistFeedback, PersistReviewRevision, Holding, WriteCandidate, SagaTypeOK, WorkerRow
  <2>2. Agent(worker[w].plan.id) \in Writer
    BY <2>1 DEF Agent, Writer, Attempt
  <2> QED
    BY <1>4, <2>1, <2>2
<1>24. CASE EditDraft
  BY <1>4, <1>24 DEF EditDraft, Author, Writer
<1>25. ASSUME NEW w \in Workers, Leaving(w) \/ Answering(w) \/ Reconcile(w) PROVE GateInv'
  BY <1>3, <1>25 DEF Leaving, Crash, Refuse, FinalizeRefused, Answering, FeedbackProvider, ReviewProvider,
     ProviderReturns, Reconcile, ReconcileDrafting, ReconcileReview, ReconcileManualEdit, TakeOver
<1>26. CASE UNCHANGED sagaVars
  BY <1>3, <1>26 DEF sagaVars
<1>27. CASE Review
  BY <1>21, <1>22, <1>27 DEF Review
<1> QED
  BY <1>5, <1>6, <1>7, <1>8, <1>9, <1>10, <1>13, <1>14, <1>15, <1>16, <1>17, <1>18, <1>19, <1>20, <1>23,
     <1>24, <1>25, <1>26, <1>27 DEF SagaNext, WorkerStep, Finalize, RecoverFailedAttempt,
     AcknowledgeNoWrite, Leaving, Answering

-----------------------------------------------------------------------------
LEMMA SagaStarts == SagaInit => SagaInv
<1> SUFFICES ASSUME SagaInit PROVE SagaInv
  OBVIOUS
<1>1. PICK chief \in BOOLEAN : st = InitialState(chief)
  BY DEF SagaInit, Init
<1>2. InitialState(chief) \in State
  BY DEF InitialState, State, NoReports, NoVersion, Status, Working
<1>3. st.version = 0 /\ st.status = "DRAFTING" /\ st.action = None
  BY <1>1 DEF InitialState, NoVersion
<1>4. /\ canon = 0 /\ idx = 0 /\ issued = 0 /\ attempt = None
      /\ actions = [a \in ActionIds |-> None] /\ writer = [v \in 1 .. MaxVersion |-> None]
      /\ worker = [w \in Workers |-> Idle]
  BY DEF SagaInit, Init, NoVersion
<1>5. SagaTypeOK
  BY <1>1, <1>2, <1>4, VersionBound DEF SagaTypeOK, WorkerRow, Idle, NoVersion
<1>6. AttemptPlace /\ RowsBehind
  BY <1>3, <1>4 DEF AttemptPlace, RowsBehind
<1>7. Keys = {}
  BY <1>4 DEF Keys, Plans, Idle
<1>8. PlansAgree /\ OneCandidatePerAttempt
  BY <1>4, <1>7 DEF PlansAgree, OneCandidatePerAttempt
<1>9. DecisionsAnswered
  BY <1>4 DEF DecisionsAnswered, Consumed
<1> QED
  BY <1>5, <1>6, <1>8, <1>9 DEF SagaInv

(* The invariant of the revisions: whoever wins a race, dies or comes late,  *)
(* ids stay fresh and every consumed gate has its answer on the way.        *)
THEOREM SagaInvariant == SagaSpec => []SagaInv
<1>1. SagaInv /\ [SagaNext]_sagaVars => SagaInv'
  BY SagaTypesStay, PlansStayApart, GatesStay DEF SagaInv, GateInv
<1> QED
  BY <1>1, SagaStarts, PTL DEF SagaSpec

(* However requests, reconciliations and crashes interleave in the sagas of  *)
(* feedback_candidate_saga.py and review_revision_saga.py, no answer of a   *)
(* provider is written as two versions.                                     *)
THEOREM AnswersWrittenOnce == SagaSpec => []OneCandidatePerAttempt
BY SagaInvariant, PTL DEF SagaInv

(* An author's decision is never lost (chapter_draft_revision_coordinator   *)
(* and its recoveries): while the version of a consumed gate is bound, an   *)
(* attempt answers for it or the author's edit is written.                  *)
THEOREM GatesNeverLost == SagaSpec => []DecisionsAnswered
BY SagaInvariant, PTL DEF SagaInv

-----------------------------------------------------------------------------
(* What is rewritten: the bounds of segments and batches.                   *)
LEMMA Quotient ==
    ASSUME NEW n \in Nat, NEW m \in Nat \ {0}
    PROVE  /\ n \div m \in Nat
           /\ m * (n \div m) <= n /\ n < m * (n \div m) + m
OBVIOUS

LEMMA Multiples ==
    ASSUME NEW m \in Nat \ {0}, NEW p \in Int, NEW q \in Int, p < q
    PROVE  m * p \in Int /\ m * p + m <= m * q
OBVIOUS

(* The number of pieces of size at most m that n units are cut into, and    *)
(* the piece that unit i is in.                                             *)
LEMMA Pieces ==
    ASSUME NEW n \in Nat, NEW m \in Nat \ {0}
    PROVE  LET k == (n + m - 1) \div m IN
           /\ k \in Nat /\ m * k >= n /\ (n > 0 => k > 0)
           /\ \A p \in 1 .. k : m * (p - 1) \in Nat /\ m * (p - 1) < n
           /\ \A p \in 1 .. k - 1 : m * p < n
           /\ \A i \in 1 .. n : \E p \in 1 .. k : m * (p - 1) < i /\ i <= m * (p - 1) + m
<1>1. PICK k : k = (n + m - 1) \div m
  OBVIOUS
<1>2. k \in Nat /\ m * k <= n + m - 1 /\ n + m - 1 < m * k + m /\ m * k \in Nat
  BY <1>1, Quotient
<1>3. n > 0 => k > 0
  BY <1>2
<1>4. ASSUME NEW p \in 1 .. k
      PROVE  m * (p - 1) \in Nat /\ m * (p - 1) < n
  <2>1. p - 1 \in Nat /\ p - 1 < k
    BY <1>2
  <2>2. m * (p - 1) \in Nat
    BY <2>1
  <2>3. m * (p - 1) + m <= m * k
    BY <1>2, <2>1, Multiples
  <2> QED BY <1>2, <2>2, <2>3
<1>5. ASSUME NEW p \in 1 .. k - 1
      PROVE  m * p < n
  <2>1. p + 1 \in 1 .. k /\ (p + 1) - 1 = p
    BY <1>2
  <2> QED BY <1>4, <2>1
<1>6. ASSUME NEW i \in 1 .. n
      PROVE  \E p \in 1 .. k : m * (p - 1) < i /\ i <= m * (p - 1) + m
  <2>1. PICK q : q = (i - 1) \div m
    OBVIOUS
  <2>2. q \in Nat /\ m * q <= i - 1 /\ i - 1 < m * q + m /\ m * q \in Nat
    BY <2>1, Quotient
  <2>3. q < k
    <3>1. SUFFICES ASSUME k <= q PROVE FALSE
      BY <1>2, <2>2
    <3>2. m * k <= m * q
      <4>1. CASE k = q
        BY <1>2, <4>1
      <4>2. CASE k < q
        BY <1>2, <2>2, <4>2, Multiples
      <4> QED BY <1>2, <2>2, <3>1, <4>1, <4>2
    <3> QED BY <1>2, <2>2, <3>2
  <2>4. q + 1 \in 1 .. k /\ (q + 1) - 1 = q
    BY <1>2, <2>2, <2>3
  <2>5. m * ((q + 1) - 1) = m * q
    BY <2>4
  <2> QED BY <2>2, <2>4, <2>5
<1> QED BY <1>1, <1>2, <1>3, <1>4, <1>5, <1>6

LEMMA LesserOfTwo ==
    ASSUME NEW a \in Int, NEW b \in Int
    PROVE  Min({a, b}) = IF a <= b THEN a ELSE b
BY DEF Min

(* _bounded_parts: however long a block is, its parts follow one another    *)
(* without a gap from its start to its end, none is empty or longer than    *)
(* MAX_CHAPTER_SEGMENT_BYTES, and only the last is shorter than that.       *)
THEOREM PartsCoverBlock ==
    ASSUME NEW b \in [kind : STRING, start : Nat, end : Nat], b.start < b.end
    PROVE  LET parts == Parts(b) IN
           /\ Len(parts) > 0 /\ parts[1].start = b.start /\ parts[Len(parts)].end = b.end
           /\ \A p \in 1 .. Len(parts) :
                /\ parts[p].kind = b.kind
                /\ parts[p].end - parts[p].start \in 1 .. MaxPart
                /\ p < Len(parts) => /\ parts[p].end - parts[p].start = MaxPart
                                     /\ parts[p + 1].start = parts[p].end
<1> DEFINE n == b.end - b.start
           k == (n + MaxPart - 1) \div MaxPart
<1>1. n \in Nat \ {0} /\ MaxPart \in Nat \ {0} /\ b.start \in Nat /\ b.end = b.start + n
  BY SegmentBounds
<1>2. PICK parts : parts = Parts(b)
  OBVIOUS
<1> HIDE DEF n
<1>3. /\ k \in Nat /\ MaxPart * k >= n /\ k > 0
      /\ \A p \in 1 .. k : MaxPart * (p - 1) \in Nat /\ MaxPart * (p - 1) < n
      /\ \A p \in 1 .. k - 1 : MaxPart * p < n
  BY <1>1, Pieces
<1>4. parts = [p \in 1 .. k |-> [kind |-> b.kind, start |-> b.start + (p - 1) * MaxPart,
                                end |-> PartEnd(b, p)]]
  BY <1>2 DEF Parts, n
<1> HIDE DEF k
<1>5. Len(parts) = k
  BY <1>3, <1>4
<1>6. ASSUME NEW p \in 1 .. k
      PROVE  /\ parts[p].kind = b.kind /\ parts[p].start = b.start + MaxPart * (p - 1)
             /\ parts[p].end = IF MaxPart * p <= n THEN b.start + MaxPart * p ELSE b.end
  <2>1. PartEnd(b, p) = IF b.start + p * MaxPart <= b.end THEN b.start + p * MaxPart ELSE b.end
    <3>1. b.start + p * MaxPart \in Int /\ b.end \in Int
      BY <1>1, <1>3
    <3> QED BY <3>1, LesserOfTwo DEF PartEnd
  <2>2. p * MaxPart = MaxPart * p /\ (p - 1) * MaxPart = MaxPart * (p - 1) /\ MaxPart * p \in Nat
    BY <1>1, <1>3
  <2>3. b.start + p * MaxPart <= b.end <=> MaxPart * p <= n
    BY <1>1, <2>2
  <2> QED BY <1>4, <2>1, <2>2, <2>3
<1>7. ASSUME NEW p \in 1 .. k
      PROVE  /\ parts[p].end - parts[p].start \in 1 .. MaxPart
             /\ p < k => parts[p].end - parts[p].start = MaxPart
  <2>1. MaxPart * p = MaxPart * (p - 1) + MaxPart /\ MaxPart * (p - 1) \in Nat
    BY <1>1, <1>3
  <2>2. MaxPart * (p - 1) < n
    BY <1>3
  <2>3. p < k => MaxPart * p < n
    BY <1>3
  <2> QED BY <1>1, <1>6, <2>1, <2>2, <2>3
<1>8. ASSUME NEW p \in 1 .. k, p < k
      PROVE  parts[p + 1].start = parts[p].end
  <2>1. MaxPart * p < n /\ p + 1 \in 1 .. k /\ (p + 1) - 1 = p
    BY <1>3, <1>8
  <2>2. parts[p + 1].start = b.start + MaxPart * p
    BY <1>6, <2>1
  <2>3. MaxPart * p \in Nat /\ MaxPart * p <= n
    BY <1>1, <2>1
  <2>4. parts[p].end = b.start + MaxPart * p
    BY <1>6, <2>3
  <2> QED BY <2>2, <2>4
<1>9. parts[1].start = b.start
  <2>1. 1 \in 1 .. k /\ MaxPart * (1 - 1) = 0
    BY <1>1, <1>3
  <2> QED BY <1>1, <1>6, <2>1
<1>10. parts[k].end = b.end
  <2>1. k \in 1 .. k /\ MaxPart * k \in Nat
    BY <1>1, <1>3
  <2> QED BY <1>1, <1>3, <1>6, <2>1
<1> QED BY <1>2, <1>3, <1>5, <1>6, <1>7, <1>8, <1>9, <1>10

(* build_chapter_review_segment_batches: every segment of a map is in       *)
(* exactly one batch, in the order of the map, no batch is empty or larger  *)
(* than MAX_REVIEW_SEGMENTS_PER_BATCH and only the last is smaller.         *)
THEOREM BatchesCutMap ==
    ASSUME NEW S, NEW map \in Seq(S)
    PROVE  LET batches == Batches(map) IN
           /\ \A n \in 1 .. Len(batches) :
                /\ Len(batches[n]) \in 1 .. Batch
                /\ n < Len(batches) => Len(batches[n]) = Batch
                /\ \A j \in 1 .. Len(batches[n]) : batches[n][j] = map[Batch * (n - 1) + j]
           /\ \A i \in 1 .. Len(map) : \E n \in 1 .. Len(batches) :
                \E j \in 1 .. Len(batches[n]) : i = Batch * (n - 1) + j
<1> DEFINE k == (Len(map) + Batch - 1) \div Batch
<1>1. Len(map) \in Nat /\ Batch \in Nat \ {0}
  BY SegmentBounds
<1>2. /\ k \in Nat /\ Batch * k >= Len(map)
      /\ \A p \in 1 .. k : Batch * (p - 1) \in Nat /\ Batch * (p - 1) < Len(map)
      /\ \A p \in 1 .. k - 1 : Batch * p < Len(map)
      /\ \A i \in 1 .. Len(map) : \E p \in 1 .. k : Batch * (p - 1) < i /\ i <= Batch * (p - 1) + Batch
  BY <1>1, Pieces
<1>3. PICK batches : batches = Batches(map)
  OBVIOUS
<1>4. batches = [n \in 1 .. k |-> SubSeq(map, (n - 1) * Batch + 1, Min({n * Batch, Len(map)}))]
  BY <1>3 DEF Batches
<1> HIDE DEF k
<1>5. Len(batches) = k
  BY <1>2, <1>4
<1>6. ASSUME NEW n \in 1 .. k
      PROVE  \E last \in Nat :
               /\ last = IF Batch * n <= Len(map) THEN Batch * n ELSE Len(map)
               /\ Batch * (n - 1) < last /\ last <= Len(map) /\ last <= Batch * (n - 1) + Batch
               /\ n < k => last = Batch * (n - 1) + Batch
               /\ Len(batches[n]) = last - Batch * (n - 1)
               /\ \A j \in 1 .. Len(batches[n]) : batches[n][j] = map[Batch * (n - 1) + j]
  <2>1. PICK from \in Nat : from = Batch * (n - 1) /\ from < Len(map)
    BY <1>2
  <2>2. /\ Batch * n = from + Batch /\ n * Batch = from + Batch /\ (n - 1) * Batch = from
        /\ from + Batch \in Nat
    BY <1>1, <1>2, <2>1
  <2>3. PICK last \in Nat : last = IF from + Batch <= Len(map) THEN from + Batch ELSE Len(map)
    BY <1>1, <2>2
  <2>4. batches[n] = SubSeq(map, from + 1, last)
    <3>1. Min({n * Batch, Len(map)}) = last
      BY <1>1, <2>2, <2>3, LesserOfTwo
    <3> QED BY <1>4, <2>2, <3>1
  <2>5. n < k => from + Batch < Len(map)
    BY <1>2, <2>2
  <2>6. from < last /\ last <= Len(map) /\ last <= from + Batch /\ (n < k => last = from + Batch)
    BY <1>1, <2>1, <2>3, <2>5
  <2>7. Len(batches[n]) = last - from /\ \A j \in 1 .. last - from : batches[n][j] = map[from + j]
    BY <1>1, <2>1, <2>4, <2>6
  <2> QED BY <2>1, <2>2, <2>3, <2>6, <2>7
<1>7. ASSUME NEW n \in 1 .. k
      PROVE  /\ Len(batches[n]) \in 1 .. Batch
             /\ n < k => Len(batches[n]) = Batch
             /\ \A j \in 1 .. Len(batches[n]) : batches[n][j] = map[Batch * (n - 1) + j]
  <2>1. PICK from \in Nat : from = Batch * (n - 1)
    BY <1>2
  <2>2. PICK last \in Nat :
               /\ from < last /\ last <= from + Batch
               /\ n < k => last = from + Batch
               /\ Len(batches[n]) = last - from
               /\ \A j \in 1 .. Len(batches[n]) : batches[n][j] = map[from + j]
    BY <1>6, <2>1
  <2>3. Len(batches[n]) \in 1 .. Batch /\ (n < k => Len(batches[n]) = Batch)
    BY <1>1, <2>2
  <2> QED BY <2>1, <2>2, <2>3
<1>8. ASSUME NEW i \in 1 .. Len(map)
      PROVE  \E n \in 1 .. k : \E j \in 1 .. Len(batches[n]) : i = Batch * (n - 1) + j
  <2>1. PICK n \in 1 .. k : Batch * (n - 1) < i /\ i <= Batch * (n - 1) + Batch
    BY <1>2
  <2>2. PICK from \in Nat : from = Batch * (n - 1)
    BY <1>2
  <2>3. Batch * n = from + Batch
    BY <1>1, <1>2, <2>2
  <2>4. i - from \in 1 .. Len(batches[n])
    <3>1. PICK last \in Nat : /\ last = IF Batch * n <= Len(map) THEN Batch * n ELSE Len(map)
                              /\ Len(batches[n]) = last - Batch * (n - 1)
      BY <1>6
    <3>2. last = IF from + Batch <= Len(map) THEN from + Batch ELSE Len(map)
      BY <2>3, <3>1
    <3>3. Len(batches[n]) = last - from /\ from < i /\ i <= from + Batch
      BY <2>1, <2>2, <3>1
    <3> QED BY <1>1, <3>2, <3>3
  <2>5. i = Batch * (n - 1) + (i - from)
    BY <2>2
  <2> QED BY <2>4, <2>5
<1> QED BY <1>3, <1>5, <1>7, <1>8
=============================================================================
