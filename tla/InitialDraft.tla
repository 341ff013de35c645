------------------------------ MODULE InitialDraft ------------------------------
(***************************************************************************)
(* The first draft of a chapter, from the approved outline to the author's  *)
(* gate.  InitialDraftLifecycle runs it in transactions of its own, each    *)
(* under the chapter's advisory lock:                                       *)
(*                                                                          *)
(*   replay     adopt a draft an earlier request has left (recover)         *)
(*   bootstrap  create the run, or find it untouched                        *)
(*   claim      put a provider attempt on the run, call with no lock held   *)
(*   persist    write the draft document if the attempt still stands        *)
(*   finalize   open the author's gate and drop the attempt                 *)
(*                                                                          *)
(* A request may die after each of them (Crash).  Meanwhile the author      *)
(* works on the outline, its settings and the new document, other requests  *)
(* start or resume the same run, and an operator acknowledges attempts.     *)
(*                                                                          *)
(* The run's key hashes the approved outline version, so the version stands *)
(* for the key (OperationKey).  No service cancels a run, so a chapter has  *)
(* one at most.                                                             *)
(* The document is created by the direct protocol of DocumentStore: its     *)
(* files are there when its row is.                                         *)
(***************************************************************************)
EXTENDS StudioOutline

CONSTANTS
    Workers,       \* concurrent requests
    MaxAttempts,   \* bound on the attempts ever claimed
    MaxSettings    \* bound on the edits of the setting documents
ASSUME InitialBounds == MaxAttempts \in Nat /\ MaxSettings \in Nat

VARIABLES
    draft,     \* the chapter's draft document, or None
    setting,   \* current version of the setting documents
    issued,    \* attempts issued; an attempt id is a fresh number
    worker     \* what each request in flight holds outside the database

initialVars == <<outline, approved, batch, run, hasDraft, draft, setting, issued, worker>>

Idle == [step |-> "idle", plan |-> None]
Drafting == "DRAFTING"

(* The attempt in the run's metadata, the run, and its draft document.      *)
AttemptRow == [id : Nat, idx : Nat, status : {"claimed", "failed"}]
RunRow == [key : Nat, status : {Drafting, "FAILED", "AUTHOR_REVISION"}, idx : Nat,
           attempt : AttemptRow \cup {None}]
DraftRow == [attempt : Nat, key : Nat, edited : BOOLEAN]
ASSUME RowAssumption == None \notin AttemptRow \cup RunRow \cup DraftRow

(* initial_operation_key *)
OperationKey == approved

(* A new run, an attempt on it, and what the claiming request keeps of it.  *)
NewRun(key) == [key |-> key, status |-> Drafting, idx |-> 0, attempt |-> None]
NewAttempt(n, i) == [id |-> n, idx |-> i, status |-> "claimed"]
Generation(n, i, contexts) == [id |-> n, idx |-> i, contexts |-> contexts]
NewDraft(n) == [attempt |-> n, key |-> OperationKey, edited |-> FALSE]

InitialInit ==
    /\ OutlineInit
    /\ run = None
    /\ hasDraft = FALSE
    /\ draft = None
    /\ setting = 0
    /\ issued = 0
    /\ worker = [w \in Workers |-> Idle]

-----------------------------------------------------------------------------
At(w, step) == worker[w].step = step
Go(w, step) == worker' = [worker EXCEPT ![w].step = step]
Return(w) == worker' = [worker EXCEPT ![w] = Idle]

(* ChapterProductionRepository.approved_outline and operation_run: the      *)
(* current outline is approved, and a run there is belongs to it.           *)
OutlineApproved == approved # 0 /\ approved = outline
RunFits == run # None => run.key = OperationKey

(* _InitialEvidencePhase.load: _history reads the checkpoints, _align the   *)
(* attempt against the last of them.                                        *)
Aligned(r) ==
    IF r.attempt = None THEN r.status = Drafting
    ELSE IF r.attempt.status = "claimed"
         THEN r.status = Drafting /\ r.attempt.idx = r.idx
         ELSE r.status = "FAILED" /\ r.attempt.idx = r.idx - 1

Readable(r) == r.status = IF r.idx % 2 = 0 THEN Drafting ELSE "FAILED"

Loaded ==
    OutlineApproved /\ run # None /\ run.key = OperationKey /\ Readable(run) /\ Aligned(run)

Claimed == run # None /\ run.attempt # None /\ run.attempt.status = "claimed"

(* ProviderAttemptStore._matches, at the latest checkpoint                  *)
Holds(w) ==
    /\ Claimed
    /\ run.attempt.id = worker[w].plan.id
    /\ run.attempt.idx = worker[w].plan.idx /\ run.attempt.idx = run.idx

(* ProviderAttemptStore: what each of its writes leaves on the run.         *)
Put(r, attempt) == [r EXCEPT !.attempt = attempt]
Dropped(r) == [r EXCEPT !.attempt = None]
MarkedFailed(r) == [r EXCEPT !.status = "FAILED", !.idx = @ + 1, !.attempt.status = "failed"]

(* _InitialEvidencePhase.load: the settings as they are now, or none at all  *)
(* if they cannot be resolved, for whatever reason.                         *)
Contexts == {{setting}, {}}

(* Mutant of Recovered: the recovered run gets no checkpoint.               *)
RecoveredInPlace(r) == [r EXCEPT !.status = Drafting, !.attempt = None]

(* recover_failed, with the checkpoint that takes the run back to DRAFTING  *)
Recovered(r) == [r EXCEPT !.status = Drafting, !.idx = @ + 1, !.attempt = None]

-----------------------------------------------------------------------------
(* _candidate: the one document of the run still has its first version,     *)
(* and its files are those of that version.                                 *)
Intact == draft # None /\ ~draft.edited

(* _FinalizationPhase.finalize: the draft's attempt is the run's.           *)
CanFinalize(id) ==
    /\ Loaded
    /\ Intact
    /\ Claimed /\ run.attempt.id = draft.attempt /\ draft.attempt = id
    /\ ~hasDraft

(* Mutant of OpenGate: the attempt stays on the run.                        *)
OpenGateKeepingAttempt ==
    /\ run' = [run EXCEPT !.status = "AUTHOR_REVISION", !.idx = @ + 1]
    /\ hasDraft' = TRUE

(* _Gate.create *)
OpenGate ==
    /\ run' = [run EXCEPT !.status = "AUTHOR_REVISION", !.idx = @ + 1, !.attempt = None]
    /\ hasDraft' = TRUE

(* Whatever _author_replay makes of an open gate, it writes nothing.        *)
GateOpen == run # None /\ run.status = "AUTHOR_REVISION"

(* What _FinalizationPhase.recover finds.                                   *)
NothingToRecover ==
    /\ OutlineApproved /\ RunFits /\ ~GateOpen
    /\ run # None =>
          /\ Readable(run) /\ Aligned(run)
          /\ draft = None /\ ~Claimed

(* A replay that finds a draft finalizes it; one that finds the gate open,  *)
(* a claimed attempt without a draft or a foreign run returns.              *)
Replay(w, from, next) ==
    /\ At(w, from)
    /\ \/ /\ NothingToRecover
          /\ Go(w, next)
          /\ UNCHANGED <<run, hasDraft>>
       \/ /\ ~NothingToRecover
          /\ IF draft # None /\ CanFinalize(draft.attempt)
             THEN OpenGate ELSE UNCHANGED <<run, hasDraft>>
          /\ Return(w)
    /\ UNCHANGED <<outline, approved, batch, draft, setting, issued>>

(* start_from_approved_outline, resume_drafting and reconcile_indeterminate *)
StartDraft(w) == Replay(w, "idle", "bootstrap")
ResumeDraft(w) == run # None /\ Replay(w, "idle", "claim")
ReplayAgain(w) == Replay(w, "replay", "claim")

(* _InitialRunPhase: a new run, or one that nothing has happened to.        *)
Pristine(r) == r.status = Drafting /\ r.idx = 0 /\ r.attempt = None

Bootstrap(w) ==
    /\ At(w, "bootstrap")
    /\ \/ /\ OutlineApproved /\ run = None
          /\ run' = NewRun(OperationKey)
          /\ Go(w, "replay")
       \/ /\ OutlineApproved /\ run # None /\ RunFits /\ Pristine(run)
          /\ Go(w, "replay")
          /\ UNCHANGED run
       \/ /\ ~(OutlineApproved /\ RunFits /\ (run # None => Pristine(run)))
          /\ Return(w)
          /\ UNCHANGED run
    /\ UNCHANGED <<outline, approved, batch, hasDraft, draft, setting, issued>>

-----------------------------------------------------------------------------
CanClaim == Loaded /\ ~Claimed

(* InitialProviderHandoff._claim: a failed attempt is recovered in the      *)
(* transaction that claims its successor.                                   *)
Claim(w) ==
    /\ At(w, "claim") /\ CanClaim
    /\ issued < MaxAttempts   \* bound
    /\ LET ready == IF run.attempt = None THEN run ELSE Recovered(run)
       IN  /\ run' = Put(ready, NewAttempt(issued + 1, ready.idx))
           /\ \E contexts \in Contexts : worker' = [worker EXCEPT ![w] =
                 [step |-> "calling", plan |-> Generation(issued + 1, ready.idx, contexts)]]
    /\ issued' = issued + 1
    /\ UNCHANGED <<outline, approved, batch, hasDraft, draft, setting>>

ClaimRefused(w) ==
    /\ At(w, "claim") /\ ~CanClaim
    /\ Return(w)
    /\ UNCHANGED <<outline, approved, batch, run, hasDraft, draft, setting, issued>>

(* writer_agent.initial_draft returns, raises, or is cancelled.             *)
ProviderReturns(w, answer) ==
    /\ At(w, "calling")
    /\ Go(w, answer)
    /\ UNCHANGED <<outline, approved, batch, run, hasDraft, draft, setting, issued>>

(* _cleanup: an attempt that is not the caller's is left alone.             *)
CanSettle(w) == Loaded /\ Holds(w)

(* ProviderAttemptStore.mark_failed with the FAILED checkpoint              *)
FailAttempt(w) ==
    /\ At(w, "failed")
    /\ run' = IF CanSettle(w) THEN MarkedFailed(run) ELSE run
    /\ Return(w)
    /\ UNCHANGED <<outline, approved, batch, hasDraft, draft, setting, issued>>

(* ProviderAttemptStore.release *)
ReleaseAttempt(w) ==
    /\ At(w, "cancelled")
    /\ run' = IF CanSettle(w) THEN Dropped(run) ELSE run
    /\ Return(w)
    /\ UNCHANGED <<outline, approved, batch, hasDraft, draft, setting, issued>>

(* Mutant of SameRequest: the request is not built again and compared.      *)
SameAsEver(w, contexts) == TRUE

(* The request, built again from the rows, would be the same.               *)
SameRequest(w, contexts) == worker[w].plan.contexts = contexts

(* _validate_live.  Each answer is persisted once, so a document that bears *)
(* the run is another request's.                                            *)
CanPersist(w, contexts) == Loaded /\ Holds(w) /\ SameRequest(w, contexts) /\ draft = None

(* InitialCandidatePersistence._persist.  A commit whose outcome is unknown *)
(* ends the request, whether the document is there or not.                  *)
Persist(w, next) ==
    /\ At(w, "persist")
    /\ \E contexts \in Contexts : CanPersist(w, contexts)
    /\ draft' = NewDraft(worker[w].plan.id)
    /\ IF next = "finalize" THEN Go(w, next) ELSE Return(w)
    /\ UNCHANGED <<outline, approved, batch, run, hasDraft, setting, issued>>

PersistRefused(w) ==
    /\ At(w, "persist")
    /\ \E contexts \in Contexts : ~CanPersist(w, contexts)
    /\ Return(w)
    /\ UNCHANGED <<outline, approved, batch, run, hasDraft, draft, setting, issued>>

(* _validate_result, _compose: an answer that is no chapter is refused      *)
(* before any transaction, and its attempt stays claimed.                   *)
ResultRefused(w) ==
    /\ At(w, "persist")
    /\ Return(w)
    /\ UNCHANGED <<outline, approved, batch, run, hasDraft, draft, setting, issued>>

Finalize(w) ==
    /\ At(w, "finalize")
    /\ IF CanFinalize(worker[w].plan.id) THEN OpenGate ELSE UNCHANGED <<run, hasDraft>>
    /\ Return(w)
    /\ UNCHANGED <<outline, approved, batch, draft, setting, issued>>

Crash(w) ==
    /\ ~At(w, "idle")
    /\ Return(w)
    /\ UNCHANGED <<outline, approved, batch, run, hasDraft, draft, setting, issued>>

-----------------------------------------------------------------------------
(* _acknowledge_locked: no document bears the run, its key or its attempt.  *)
NoVersion == draft = None

(* acknowledge_no_write_identity, by an operator who has read the attempt   *)
Acknowledge ==
    /\ Loaded /\ Claimed /\ NoVersion
    /\ run' = Dropped(run)
    /\ UNCHANGED <<outline, approved, batch, hasDraft, draft, setting, issued, worker>>

(* The document endpoints know nothing of the run.                          *)
EditDraft ==
    /\ draft # None /\ ~hasDraft /\ ~draft.edited
    /\ draft' = [draft EXCEPT !.edited = TRUE]
    /\ UNCHANGED <<outline, approved, batch, run, hasDraft, setting, issued, worker>>

EditSetting ==
    /\ setting < MaxSettings   \* bound
    /\ setting' = setting + 1
    /\ UNCHANGED <<outline, approved, batch, run, hasDraft, draft, issued, worker>>

Outline == OutlineNext /\ UNCHANGED <<run, hasDraft, draft, setting, issued, worker>>

InitialNext ==
    \/ Outline
    \/ \E w \in Workers :
          \/ StartDraft(w) \/ ResumeDraft(w) \/ Bootstrap(w) \/ ReplayAgain(w)
          \/ Claim(w) \/ ClaimRefused(w)
          \/ \E answer \in {"persist", "failed", "cancelled"} : ProviderReturns(w, answer)
          \/ FailAttempt(w) \/ ReleaseAttempt(w)
          \/ Persist(w, "finalize") \/ Persist(w, "lost") \/ PersistRefused(w)
          \/ ResultRefused(w) \/ Finalize(w) \/ Crash(w)
    \/ Acknowledge
    \/ EditDraft
    \/ EditSetting

InitialSpec == InitialInit /\ [][InitialNext]_initialVars

(* A request runs on until it returns or dies; the author keeps resuming a  *)
(* run whose draft is there, and an operator answers every attempt that is  *)
(* stuck.  Nobody need approve, edit or start anything.                     *)
FairInitialSpec ==
    /\ InitialSpec
    /\ \A w \in Workers :
          /\ WF_initialVars(\E answer \in {"persist", "failed", "cancelled"} : ProviderReturns(w, answer))
          /\ WF_initialVars(\/ Bootstrap(w) \/ ReplayAgain(w) \/ Claim(w) \/ ClaimRefused(w)
                            \/ FailAttempt(w) \/ ReleaseAttempt(w)
                            \/ Persist(w, "finalize") \/ PersistRefused(w)
                            \/ ResultRefused(w) \/ Finalize(w))
          /\ SF_initialVars(draft # None /\ ResumeDraft(w))
    /\ WF_initialVars(Acknowledge)

-----------------------------------------------------------------------------
(* What _history and _align demand of the rows holds of every run until its *)
(* gate opens: no order of failures, recoveries, releases, late answers and *)
(* acknowledgements leaves a run that every later request refuses.          *)
RunReadable ==
    run # None =>
        IF run.status = "AUTHOR_REVISION"
        THEN run.attempt = None /\ draft # None /\ hasDraft
        ELSE Readable(run) /\ Aligned(run)

(* A draft that is not yet offered to the author belongs to the attempt     *)
(* that stands on the run: recovery can tell whose it is, and nothing can   *)
(* start a second draft beside it.  And it stays the prose of the outline   *)
(* that is approved: the outline moves neither under a draft nor under the  *)
(* request that writes it.                                                  *)
DraftOwned ==
    /\ draft # None /\ ~hasDraft => Claimed /\ run.attempt.id = draft.attempt
    /\ draft # None => draft.key = approved /\ approved = outline

(* However long the provider takes and whatever the author edits meanwhile, *)
(* no draft is written on settings that have been replaced: the answer of a *)
(* request that was given settings is refused once they are edited.  A      *)
(* request whose settings could not be resolved was given none; if that     *)
(* fails again its draft is written, edited or not.                         *)
NotOnOldSettings ==
    [][draft = None /\ draft' # None =>
          \E w \in Workers : At(w, "persist") /\ worker[w].plan.id = draft'.attempt
                                             /\ worker[w].plan.contexts \subseteq {setting}]_draft

(* A claimed attempt is settled in the end, unless the author has edited    *)
(* the draft it left before anyone finalized it: that run is stuck.         *)
AttemptSettles ==
    \A n \in 1 .. MaxAttempts :
        (run # None /\ Claimed /\ run.attempt.id = n)
            ~> (~Claimed \/ run.attempt.id # n \/ (draft # None /\ draft.edited))
=============================================================================
