--------------------------- MODULE InitialDraftProofs ---------------------------
(***************************************************************************)
(* The first draft of a chapter for any number of requests, attempts,       *)
(* batches and outline versions.  A draft document is nobody's property:    *)
(* what ties it to the run is the attempt that stands on it.  Attempts are  *)
(* numbered as they are issued and each has one request, so the request     *)
(* that has written the draft is not there any more to fail or release its  *)
(* attempt, and as long as that attempt stands the outline is not writable. *)
(***************************************************************************)
EXTENDS InitialDraft, TLAPS

Statuses == {"none", "running", "uncertain", "completed", "failed", "cancelled"}
BatchRow == [status : Statuses, late : BOOLEAN, calling : BOOLEAN]
Plan == [id : Nat, idx : Nat, contexts : SUBSET Nat]
Working == {"calling", "persist", "failed", "cancelled"}
Step == {"idle", "bootstrap", "replay", "claim", "finalize"} \cup Working

Request == [step : Step, plan : Plan \cup {None}]

InitialTypeOK ==
    /\ outline \in Nat /\ approved \in Nat /\ setting \in Nat /\ issued \in Nat
    /\ batch \in [Batches -> BatchRow]
    /\ run \in RunRow \cup {None}
    /\ hasDraft \in BOOLEAN
    /\ draft \in DraftRow \cup {None}
    /\ worker \in [Workers -> Request]
    /\ \A w \in Workers : worker[w].step \in Working => worker[w].plan \in Plan

(* The gate is open from the moment the chapter has its draft.               *)
GateAndDraft == hasDraft => GateOpen

(* Whoever works on an attempt is the only one that does, and has not written *)
(* its draft: attempts are numbered by the order in which they were issued.  *)
AttemptsOwned ==
    /\ run # None /\ run.attempt # None => run.attempt.id <= issued
    /\ draft # None => draft.attempt <= issued
    /\ \A w \in Workers : worker[w].step \in Working =>
          /\ worker[w].plan.id <= issued
          /\ draft # None => worker[w].plan.id # draft.attempt
          /\ \A v \in Workers : worker[v].step \in Working /\ worker[v].plan.id = worker[w].plan.id => v = w

InitialInv ==
    /\ InitialTypeOK
    /\ RunReadable
    /\ DraftOwned
    /\ GateAndDraft
    /\ AttemptsOwned

-----------------------------------------------------------------------------
(* There is no run before the author starts one.                             *)
LEMMA InitialInitially == InitialInit => InitialInv
<1> SUFFICES ASSUME InitialInit
             PROVE  InitialInv
  OBVIOUS
<1>1. Idle \in Request
  BY DEF Idle, Request, Step, Working
<1>2. \A w \in Workers : worker[w].step \notin Working
  BY DEF InitialInit, Idle, Working
<1>3. batch \in [Batches -> BatchRow]
  BY DEF InitialInit, OutlineInit, BatchRow, Statuses
<1>4. InitialTypeOK
  BY <1>1, <1>2, <1>3 DEF InitialInit, OutlineInit, InitialTypeOK
<1>5. RunReadable /\ DraftOwned /\ GateAndDraft /\ AttemptsOwned
  BY <1>2 DEF InitialInit, RunReadable, DraftOwned, GateAndDraft, AttemptsOwned
<1> QED
  BY <1>4, <1>5 DEF InitialInv

(* A request that goes on keeps its plan, and takes up none.                 *)
Keeps(w) ==
    /\ worker' \in [Workers -> Request]
    /\ \A v \in Workers \ {w} : worker'[v] = worker[v]
    /\ worker'[w].step \in Working => worker[w].step \in Working /\ worker'[w].plan = worker[w].plan

LEMMA RequestGoesOn ==
    ASSUME InitialTypeOK, NEW w \in Workers,
           Return(w) \/ (\E s \in Step : Go(w, s) /\ (s \in Working => worker[w].step \in Working))
    PROVE  Keeps(w)
<1>0. worker \in [Workers -> Request] /\ Idle \in Request
  BY DEF InitialTypeOK, Idle, Request, Step, Working
<1>1. CASE Return(w)
  BY <1>0, <1>1 DEF Return, Keeps, Idle, Working
<1>2. CASE \E s \in Step : Go(w, s) /\ (s \in Working => worker[w].step \in Working)
  <2>1. PICK s \in Step : Go(w, s) /\ (s \in Working => worker[w].step \in Working)
    BY <1>2
  <2>2. worker' = [worker EXCEPT ![w].step = s]
    BY <2>1 DEF Go
  <2>3. [worker[w] EXCEPT !.step = s] \in Request
    BY <1>0, <2>1 DEF Request
  <2>4. worker' \in [Workers -> Request] /\ \A v \in Workers \ {w} : worker'[v] = worker[v]
    BY <1>0, <2>2, <2>3 DEF Request
  <2>5. worker'[w].step = s /\ worker'[w].plan = worker[w].plan
    BY <1>0, <2>2 DEF Request
  <2> QED
    BY <2>1, <2>4, <2>5 DEF Keeps
<1> QED
  BY <1>1, <1>2

(* As long as no attempt is issued, the requests keep what is theirs.        *)
LEMMA RequestsKept ==
    ASSUME InitialTypeOK, AttemptsOwned, NEW w, Keeps(w),
           UNCHANGED <<issued, draft>>,
           run' # None /\ run'.attempt # None => run'.attempt.id <= issued
    PROVE  /\ AttemptsOwned'
           /\ \A v \in Workers : worker'[v].step \in Working => worker'[v].plan \in Plan
<1>1. \A v \in Workers : worker'[v].step \in Working =>
          worker[v].step \in Working /\ worker'[v].plan = worker[v].plan
  BY DEF Keeps
<1> QED
  BY <1>1 DEF AttemptsOwned, InitialTypeOK

(* A step of the outline moves it only while no draft is written or to be.   *)
LEMMA OutlineStep ==
    ASSUME InitialInv, Outline
    PROVE  InitialInv'
<1> USE DEF InitialInv
<1>1. UNCHANGED <<run, hasDraft, draft, setting, issued, worker>>
  BY DEF Outline
<1>2. batch' \in [Batches -> BatchRow] /\ outline' \in Nat /\ approved' \in Nat
  <2>1. batch \in [Batches -> BatchRow] /\ outline \in Nat /\ approved \in Nat
    BY DEF InitialTypeOK
  <2>2. ASSUME NEW b \in Batches, NEW s \in Statuses
        PROVE  /\ [batch[b] EXCEPT !.status = s] \in BatchRow
               /\ [batch[b] EXCEPT !.status = s, !.calling = FALSE] \in BatchRow
               /\ [batch[b] EXCEPT !.status = s, !.calling = TRUE] \in BatchRow
               /\ [batch[b] EXCEPT !.calling = FALSE] \in BatchRow
               /\ [batch[b] EXCEPT !.late = TRUE] \in BatchRow
    BY <2>1 DEF BatchRow
  <2>3. ASSUME NEW b \in Batches,
               \/ CreateBatch(b) \/ Deadline(b) \/ BatchCompleted(b)
               \/ BatchRefused(b, "uncertain") \/ BatchRefused(b, "failed")
               \/ BatchLost(b) \/ CancelUncertain(b)
        PROVE  batch' \in [Batches -> BatchRow] /\ outline' = outline /\ approved' = approved
    BY <2>1, <2>2, <2>3 DEF CreateBatch, Deadline, BatchCompleted, BatchRefused, BatchLost,
       CancelUncertain, Settle, Statuses
  <2>4. ASSUME NewOutline \/ ApproveOutline
        PROVE  batch' = batch /\ outline' \in Nat /\ approved' \in Nat
    BY <2>1, <2>4 DEF NewOutline, ApproveOutline
  <2> QED
    BY <2>1, <2>3, <2>4 DEF Outline, OutlineNext, SelectCandidate, SaveOutline
<1>3. InitialTypeOK'
  BY <1>1, <1>2 DEF InitialTypeOK
<1>4. draft # None => UNCHANGED <<outline, approved>>
  <2> SUFFICES ASSUME draft # None
               PROVE  UNCHANGED <<outline, approved>>
    OBVIOUS
  <2>1. ~OutlineWritable
    BY DEF OutlineWritable, DraftOwned, Claimed, RunReadable, Aligned, Drafting, GateAndDraft, GateOpen
  <2>2. ~ApproveOutline
    BY DEF ApproveOutline, DraftOwned
  <2> QED
    BY <2>1, <2>2 DEF Outline, OutlineNext, CreateBatch, Deadline, BatchCompleted, BatchRefused,
       BatchLost, CancelUncertain, SelectCandidate, SaveOutline
<1>5. RunReadable' /\ GateAndDraft'
  BY <1>1 DEF RunReadable, Readable, Aligned, GateAndDraft, GateOpen
<1>6. DraftOwned'
  BY <1>1, <1>4 DEF DraftOwned, Claimed
<1>7. AttemptsOwned'
  BY <1>1 DEF AttemptsOwned
<1> QED
  BY <1>3, <1>5, <1>6, <1>7

-----------------------------------------------------------------------------
(* Only the requests change: nothing that the run, the draft or the outline  *)
(* is read for.                                                              *)
LEMMA RowsKept ==
    ASSUME InitialInv, NEW w \in Workers,
           UNCHANGED <<outline, approved, batch, run, hasDraft, draft, setting, issued>>,
           Return(w) \/ (\E s \in Step : Go(w, s) /\ (s \in Working => worker[w].step \in Working))
    PROVE  InitialInv'
<1> USE DEF InitialInv
<1>1. Keeps(w)
  BY RequestGoesOn
<1>2. /\ AttemptsOwned'
      /\ \A v \in Workers : worker'[v].step \in Working => worker'[v].plan \in Plan
  BY <1>1, RequestsKept DEF AttemptsOwned
<1>3. InitialTypeOK'
  BY <1>1, <1>2 DEF InitialTypeOK, Keeps
<1>4. RunReadable' /\ DraftOwned' /\ GateAndDraft'
  BY DEF RunReadable, Readable, Aligned, DraftOwned, Claimed, GateAndDraft, GateOpen
<1> QED
  BY <1>2, <1>3, <1>4

(* The gate is opened on the draft of the attempt that stands, and drops it. *)
LEMMA GateOpens ==
    ASSUME InitialInv, NEW w \in Workers, NEW id, CanFinalize(id), OpenGate, Return(w),
           UNCHANGED <<outline, approved, batch, draft, setting, issued>>
    PROVE  InitialInv'
<1> USE DEF InitialInv
<1>1. Keeps(w)
  BY RequestGoesOn
<1>2. run \in RunRow /\ draft # None /\ run.status # "AUTHOR_REVISION"
  BY DEF CanFinalize, Loaded, Intact, InitialTypeOK, Readable, Drafting
<1>3. /\ run' \in RunRow /\ run'.status = "AUTHOR_REVISION" /\ run'.attempt = None
      /\ hasDraft' = TRUE
  <2>1. run' = [run EXCEPT !.status = "AUTHOR_REVISION", !.idx = @ + 1, !.attempt = None] /\ hasDraft' = TRUE
    BY DEF OpenGate
  <2>2. run.idx \in Nat /\ run.idx + 1 \in Nat
    BY <1>2 DEF RunRow
  <2> QED
    BY <1>2, <2>1, <2>2 DEF RunRow
<1>4. /\ AttemptsOwned'
      /\ \A v \in Workers : worker'[v].step \in Working => worker'[v].plan \in Plan
  BY <1>1, <1>3, RequestsKept DEF AttemptsOwned
<1>5. InitialTypeOK'
  BY <1>1, <1>3, <1>4 DEF InitialTypeOK, Keeps
<1>6. run' # None
  BY <1>3, RowAssumption
<1>7. RunReadable' /\ DraftOwned' /\ GateAndDraft'
  BY <1>2, <1>3, <1>6 DEF RunReadable, DraftOwned, GateAndDraft, GateOpen
<1> QED
  BY <1>4, <1>5, <1>7

(* A replay opens the gate or changes no row.                                *)
LEMMA ReplayStep ==
    ASSUME InitialInv, NEW w \in Workers, NEW from, NEW next \in {"bootstrap", "claim"}, Replay(w, from, next)
    PROVE  InitialInv'
<1>1. CASE OpenGate /\ CanFinalize(draft.attempt) /\ Return(w)
  BY <1>1, GateOpens DEF Replay
<1>2. CASE UNCHANGED <<run, hasDraft>> /\ (Go(w, next) \/ Return(w))
  BY <1>2, RowsKept DEF Replay, Step, Working
<1> QED
  BY <1>1, <1>2 DEF Replay

(* A new run is at its first checkpoint, with no attempt.                    *)
LEMMA BootstrapStep ==
    ASSUME InitialInv, NEW w \in Workers, Bootstrap(w)
    PROVE  InitialInv'
<1> USE DEF InitialInv
<1>1. CASE UNCHANGED run
  BY <1>1, RowsKept DEF Bootstrap, Step, Working
<1>2. CASE /\ run = None /\ run' = NewRun(OperationKey) /\ Go(w, "replay")
  <2>1. Keeps(w)
    BY <1>2, RequestGoesOn DEF Step, Working
  <2>2. /\ run' \in RunRow /\ run'.status = Drafting /\ run'.idx = 0 /\ run'.attempt = None
    BY <1>2 DEF NewRun, OperationKey, RunRow, InitialTypeOK
  <2>3. UNCHANGED <<outline, approved, batch, hasDraft, draft, setting, issued>>
    BY DEF Bootstrap
  <2>4. /\ AttemptsOwned'
        /\ \A v \in Workers : worker'[v].step \in Working => worker'[v].plan \in Plan
    BY <2>1, <2>2, <2>3, RequestsKept DEF AttemptsOwned
  <2>5. InitialTypeOK'
    BY <2>1, <2>2, <2>3, <2>4 DEF InitialTypeOK, Keeps
  <2>6. ~hasDraft /\ draft = None
    BY <1>2 DEF GateAndDraft, GateOpen, DraftOwned, Claimed
  <2>7. RunReadable' /\ DraftOwned' /\ GateAndDraft'
    BY <2>2, <2>3, <2>6 DEF RunReadable, Readable, Aligned, DraftOwned, GateAndDraft, Drafting
  <2> QED
    BY <2>4, <2>5, <2>7
<1> QED
  BY <1>1, <1>2 DEF Bootstrap

-----------------------------------------------------------------------------
(* The checkpoints of a run alternate between drafting and failure.          *)
LEMMA Parity == \A i \in Nat : ((i + 1) % 2 = 0) = (i % 2 # 0)
OBVIOUS

(* A claim puts a fresh attempt on the run, with no draft beside it.         *)
LEMMA ClaimStep ==
    ASSUME InitialInv, NEW w \in Workers, Claim(w)
    PROVE  InitialInv'
<1> USE DEF InitialInv
<1>0. PICK contexts \in Contexts :
        worker' = [worker EXCEPT ![w] = [step |-> "calling", plan |-> Generation(issued + 1,
           (IF run.attempt = None THEN run ELSE Recovered(run)).idx, contexts)]]
  BY DEF Claim
<1> DEFINE ready == IF run.attempt = None THEN run ELSE Recovered(run)
           new == NewAttempt(issued + 1, ready.idx)
           plan == Generation(issued + 1, ready.idx, contexts)
<1>1. run \in RunRow /\ Readable(run) /\ Aligned(run) /\ ~Claimed /\ run.status # "AUTHOR_REVISION"
  BY DEF Claim, CanClaim, Loaded, InitialTypeOK, Readable, Drafting
<1>2. ready \in RunRow /\ ready.status = Drafting /\ ready.idx % 2 = 0
  <2>1. CASE run.attempt = None
    BY <1>1, <2>1 DEF Aligned, Readable, Drafting
  <2>2. CASE run.attempt # None
    <3>1. run.status = "FAILED" /\ run.idx \in Nat /\ run.idx + 1 \in Nat
      BY <1>1, <2>2 DEF Aligned, Claimed, Loaded, Claim, CanClaim, RunRow
    <3>2. (run.idx + 1) % 2 = 0
      BY <1>1, <3>1, Parity DEF Readable, Drafting
    <3>3. ready = [run EXCEPT !.status = Drafting, !.idx = @ + 1, !.attempt = None]
      BY <2>2 DEF Recovered
    <3>4. ready \in RunRow /\ ready.status = Drafting
      BY <1>1, <3>1, <3>3 DEF RunRow, Drafting
    <3>5. ready.idx = run.idx + 1
      BY <1>1, <3>3 DEF RunRow
    <3> QED
      BY <3>2, <3>4, <3>5
  <2> QED
    BY <2>1, <2>2
<1>3. new \in AttemptRow /\ new.id = issued + 1 /\ new.idx = ready.idx /\ new.status = "claimed"
  BY <1>2 DEF NewAttempt, AttemptRow, RunRow, InitialTypeOK
<1>4. plan \in Plan /\ plan.id = issued + 1
  BY <1>0, <1>2 DEF Contexts, Generation, Plan, RunRow, InitialTypeOK
<1>5. run' = [ready EXCEPT !.attempt = new]
  BY DEF Claim, Put
<1>6. worker' = [worker EXCEPT ![w] = [step |-> "calling", plan |-> plan]]
  BY <1>0
<1>7. issued' = issued + 1 /\ UNCHANGED <<outline, approved, batch, hasDraft, draft, setting>>
  BY DEF Claim
<1> HIDE DEF ready, new, plan
<1>8. /\ run' \in RunRow /\ run'.status = Drafting /\ run'.idx % 2 = 0
      /\ run'.attempt = new /\ run'.idx = new.idx
  BY <1>2, <1>3, <1>5 DEF RunRow
<1>9. draft = None /\ ~hasDraft
  BY <1>1 DEF DraftOwned, GateAndDraft, GateOpen
<1>10. /\ worker' \in [Workers -> Request] /\ worker'[w].plan = plan
       /\ \A v \in Workers \ {w} : worker'[v] = worker[v]
  <2>1. [step |-> "calling", plan |-> plan] \in Request
    BY <1>4 DEF Request, Step, Working
  <2> QED
    BY <1>6, <2>1 DEF InitialTypeOK
<1>11. issued \in Nat
  BY DEF InitialTypeOK
<1>12. InitialTypeOK'
  BY <1>4, <1>7, <1>8, <1>10, <1>11 DEF InitialTypeOK
<1>13. RunReadable' /\ DraftOwned' /\ GateAndDraft'
  BY <1>3, <1>7, <1>8, <1>9 DEF RunReadable, Readable, Aligned, DraftOwned, GateAndDraft, Drafting
<1>14. AttemptsOwned'
  <2>1. \A v \in Workers \ {w} : worker[v].step \in Working => worker[v].plan \in Plan /\ worker[v].plan.id <= issued
    BY DEF AttemptsOwned, InitialTypeOK
  <2>2. \A v \in Workers : worker'[v].step \in Working => worker'[v].plan.id <= issued + 1
    <3>1. \A v \in Workers \ {w} : worker[v].step \in Working => worker[v].plan.id \in Nat
      BY <2>1 DEF Plan
    <3> QED
      BY <1>4, <1>10, <1>11, <2>1, <3>1
  <2>3. \A v \in Workers \ {w} : worker'[v].step \in Working => worker'[v].plan.id # issued + 1
    <3>1. \A v \in Workers \ {w} : worker[v].step \in Working => worker[v].plan.id \in Nat
      BY <2>1 DEF Plan
    <3> QED
      BY <1>10, <1>11, <2>1, <3>1
  <2> QED
    BY <1>3, <1>4, <1>7, <1>8, <1>9, <1>10, <1>11, <2>2, <2>3 DEF AttemptsOwned
<1> QED
  BY <1>12, <1>13, <1>14

(* An attempt that still stands, without a draft, fails or is dropped: the   *)
(* run stays readable, and no draft is left without its attempt.             *)
LEMMA AttemptSettled ==
    ASSUME InitialInv, NEW w, Keeps(w), Loaded, Claimed, draft = None,
           run' = MarkedFailed(run) \/ run' = Dropped(run),
           UNCHANGED <<outline, approved, batch, hasDraft, draft, setting, issued>>
    PROVE  InitialInv'
<1> USE DEF InitialInv
<1>1. /\ run \in RunRow /\ run.idx \in Nat /\ Readable(run) /\ Aligned(run)
      /\ run.attempt \in AttemptRow /\ run.attempt.status = "claimed"
  BY DEF Loaded, Claimed, InitialTypeOK, RunRow
<1>2. run.status = Drafting /\ run.attempt.idx = run.idx /\ run.idx % 2 = 0 /\ ~hasDraft
  BY <1>1 DEF Aligned, Readable, Drafting, Claimed, GateAndDraft, GateOpen
<1>3. CASE run' = Dropped(run)
  <2>1. /\ run' \in RunRow /\ run'.status = Drafting /\ run'.idx = run.idx /\ run'.attempt = None
    BY <1>1, <1>2, <1>3 DEF Dropped, RunRow
  <2>2. /\ AttemptsOwned'
        /\ \A v \in Workers : worker'[v].step \in Working => worker'[v].plan \in Plan
    BY <2>1, RequestsKept DEF AttemptsOwned
  <2>3. InitialTypeOK'
    BY <2>1, <2>2 DEF InitialTypeOK, Keeps
  <2>4. RunReadable' /\ DraftOwned' /\ GateAndDraft'
    BY <1>2, <2>1 DEF RunReadable, Readable, Aligned, DraftOwned, GateAndDraft, Drafting
  <2> QED
    BY <2>2, <2>3, <2>4
<1>4. CASE run' = MarkedFailed(run)
  <2>1. run' = [run EXCEPT !.status = "FAILED", !.idx = @ + 1, !.attempt.status = "failed"]
    BY <1>4 DEF MarkedFailed
  <2>2. [run.attempt EXCEPT !.status = "failed"] \in AttemptRow
    BY <1>1 DEF AttemptRow
  <2>3. /\ run' \in RunRow /\ run'.status = "FAILED" /\ run'.idx = run.idx + 1
        /\ run'.attempt = [run.attempt EXCEPT !.status = "failed"]
    <3>1. run' = [run EXCEPT !.status = "FAILED", !.idx = run.idx + 1,
                             !.attempt = [run.attempt EXCEPT !.status = "failed"]]
      BY <1>1, <2>1 DEF RunRow
    <3>2. run.idx + 1 \in Nat
      BY <1>1
    <3> QED
      BY <1>1, <2>2, <3>1, <3>2 DEF RunRow
  <2>4. /\ run'.attempt # None /\ run'.attempt.status = "failed"
        /\ run'.attempt.id = run.attempt.id /\ run'.attempt.idx = run.idx
    BY <1>1, <1>2, <2>2, <2>3, RowAssumption DEF AttemptRow
  <2>5. /\ AttemptsOwned'
        /\ \A v \in Workers : worker'[v].step \in Working => worker'[v].plan \in Plan
    BY <2>4, RequestsKept DEF AttemptsOwned, Claimed
  <2>6. InitialTypeOK'
    BY <2>3, <2>5 DEF InitialTypeOK, Keeps
  <2>7. run'.idx % 2 # 0 /\ run'.attempt.idx = run'.idx - 1
    <3>1. (run.idx + 1) % 2 # 0
      BY <1>1, <1>2, Parity
    <3>2. run.idx = (run.idx + 1) - 1
      BY <1>1
    <3> QED
      BY <2>3, <2>4, <3>1, <3>2
  <2>8. Readable(run') /\ Aligned(run')
    BY <2>3, <2>4, <2>7 DEF Readable, Aligned, Drafting
  <2>9. RunReadable' /\ DraftOwned' /\ GateAndDraft'
    BY <1>2, <2>3, <2>8 DEF RunReadable, DraftOwned, GateAndDraft, Readable, Aligned
  <2> QED
    BY <2>5, <2>6, <2>9
<1> QED
  BY <1>3, <1>4

(* Whoever settles an attempt that stands has not written its draft, nor has *)
(* anyone else.                                                              *)
LEMMA SettleStep ==
    ASSUME InitialInv, NEW w \in Workers, FailAttempt(w) \/ ReleaseAttempt(w)
    PROVE  InitialInv'
<1>1. worker[w].step \in Working
  BY DEF FailAttempt, ReleaseAttempt, At, Working
<1>2. CASE ~CanSettle(w)
  BY <1>2, RowsKept DEF FailAttempt, ReleaseAttempt
<1>3. CASE CanSettle(w)
  <2>1. Loaded /\ Claimed /\ run.attempt.id = worker[w].plan.id
    BY <1>3 DEF CanSettle, Holds
  <2>2. draft = None
    BY <1>1, <2>1 DEF InitialInv, DraftOwned, AttemptsOwned, GateAndDraft, GateOpen, Loaded, Readable, Drafting
  <2>3. Keeps(w)
    BY RequestGoesOn DEF FailAttempt, ReleaseAttempt, InitialInv
  <2> QED
    BY <1>3, <2>1, <2>2, <2>3, AttemptSettled DEF FailAttempt, ReleaseAttempt
<1> QED
  BY <1>2, <1>3

(* The draft is written by the request that holds the attempt, on the        *)
(* approved outline.                                                         *)
LEMMA PersistStep ==
    ASSUME InitialInv, NEW w \in Workers, NEW next, Persist(w, next)
    PROVE  InitialInv'
<1> USE DEF InitialInv
<1>1. /\ worker[w].step \in Working /\ Claimed /\ run.attempt.id = worker[w].plan.id
      /\ OutlineApproved /\ ~hasDraft
  BY DEF Persist, At, Working, CanPersist, Holds, Loaded, GateAndDraft, GateOpen, Readable, Drafting
<1>2. UNCHANGED <<outline, approved, batch, run, hasDraft, setting, issued>>
  BY DEF Persist
<1>3. worker[w].plan \in Plan /\ worker[w].plan.id \in Nat /\ worker[w].plan.id <= issued
  BY <1>1 DEF InitialTypeOK, AttemptsOwned, Plan
<1>4. /\ draft' \in DraftRow /\ draft'.attempt = worker[w].plan.id /\ draft'.key = approved
  BY <1>3 DEF Persist, NewDraft, OperationKey, DraftRow, InitialTypeOK
<1>5. Keeps(w) /\ worker'[w].step \notin Working
  <2>1. Go(w, "finalize") \/ Return(w)
    BY DEF Persist
  <2>2. Keeps(w)
    BY <2>1, RequestGoesOn DEF Step, Working
  <2>3. worker \in [Workers -> Request]
    BY DEF InitialTypeOK
  <2> QED
    BY <2>1, <2>2, <2>3 DEF Go, Return, Idle, Working, Request
<1>6. InitialTypeOK'
  <2>1. \A v \in Workers : worker'[v].step \in Working => worker'[v].plan \in Plan
    BY <1>5 DEF Keeps, InitialTypeOK
  <2> QED
    BY <1>2, <1>4, <1>5, <2>1 DEF InitialTypeOK, Keeps
<1>7. RunReadable' /\ DraftOwned' /\ GateAndDraft'
  BY <1>1, <1>2, <1>4 DEF RunReadable, Readable, Aligned, DraftOwned, GateAndDraft, Claimed, OutlineApproved
<1>8. AttemptsOwned'
  <2>1. \A v \in Workers : worker'[v].step \in Working => v # w /\ worker'[v] = worker[v]
    BY <1>5 DEF Keeps
  <2> QED
    BY <1>1, <1>2, <1>3, <1>4, <2>1 DEF AttemptsOwned
<1> QED
  BY <1>6, <1>7, <1>8

(* An edit of the draft leaves it with its attempt.                          *)
LEMMA EditStep ==
    ASSUME InitialInv, EditDraft \/ EditSetting
    PROVE  InitialInv'
<1> USE DEF InitialInv
<1>1. CASE EditDraft
  <2>1. draft \in DraftRow /\ draft # None /\ ~hasDraft /\ draft' = [draft EXCEPT !.edited = TRUE]
    BY <1>1 DEF EditDraft, InitialTypeOK
  <2>2. draft' \in DraftRow /\ draft'.attempt = draft.attempt /\ draft'.key = draft.key
    BY <2>1 DEF DraftRow
  <2>3. UNCHANGED <<outline, approved, batch, run, hasDraft, setting, issued, worker>>
    BY <1>1 DEF EditDraft
  <2>4. InitialTypeOK'
    BY <2>2, <2>3 DEF InitialTypeOK
  <2>5. RunReadable' /\ DraftOwned' /\ GateAndDraft' /\ AttemptsOwned'
    BY <2>1, <2>2, <2>3, RowAssumption DEF RunReadable, Readable, Aligned, DraftOwned, Claimed, GateAndDraft, GateOpen,
       AttemptsOwned
  <2> QED
    BY <2>4, <2>5
<1>2. CASE EditSetting
  <2>1. InitialTypeOK'
    BY <1>2 DEF EditSetting, InitialTypeOK
  <2>2. RunReadable' /\ DraftOwned' /\ GateAndDraft' /\ AttemptsOwned'
    BY <1>2 DEF EditSetting, RunReadable, Readable, Aligned, DraftOwned, Claimed, GateAndDraft, GateOpen,
       AttemptsOwned
  <2> QED
    BY <2>1, <2>2
<1> QED
  BY <1>1, <1>2

-----------------------------------------------------------------------------
(* Every step keeps the invariant.                                           *)
LEMMA InitialStep ==
    ASSUME InitialInv, [InitialNext]_initialVars
    PROVE  InitialInv'
<1>1. CASE UNCHANGED initialVars
  BY <1>1 DEF initialVars, InitialInv, InitialTypeOK, RunReadable, Readable, Aligned, DraftOwned, Claimed,
     GateAndDraft, GateOpen, AttemptsOwned
<1>2. ASSUME NEW w \in Workers, StartDraft(w) \/ ResumeDraft(w) \/ ReplayAgain(w)
      PROVE  InitialInv'
  BY <1>2, ReplayStep DEF StartDraft, ResumeDraft, ReplayAgain
<1>3. ASSUME NEW w \in Workers,
             \/ ClaimRefused(w) \/ PersistRefused(w) \/ ResultRefused(w) \/ Crash(w)
             \/ \E answer \in {"persist", "failed", "cancelled"} : ProviderReturns(w, answer)
      PROVE  InitialInv'
  <2>1. Return(w) \/ (\E s \in Step : Go(w, s) /\ (s \in Working => worker[w].step \in Working))
    BY <1>3 DEF ClaimRefused, PersistRefused, ResultRefused, Crash, ProviderReturns, At, Step, Working
  <2>2. UNCHANGED <<outline, approved, batch, run, hasDraft, draft, setting, issued>>
    BY <1>3 DEF ClaimRefused, PersistRefused, ResultRefused, Crash, ProviderReturns
  <2> QED
    BY <2>1, <2>2, RowsKept
<1>4. ASSUME NEW w \in Workers, Finalize(w)
      PROVE  InitialInv'
  <2>1. CASE CanFinalize(worker[w].plan.id)
    BY <1>4, <2>1, GateOpens DEF Finalize
  <2>2. CASE ~CanFinalize(worker[w].plan.id)
    BY <1>4, <2>2, RowsKept DEF Finalize
  <2> QED
    BY <2>1, <2>2
<1>5. CASE Acknowledge
  <2>1. Loaded /\ Claimed /\ draft = None /\ run' = Dropped(run) /\ worker' = worker
    BY <1>5 DEF Acknowledge, NoVersion
  <2>2. UNCHANGED <<outline, approved, batch, hasDraft, draft, setting, issued>>
    BY <1>5 DEF Acknowledge
  <2>3. Keeps(None)
    BY <2>1 DEF Keeps, InitialInv, InitialTypeOK
  <2> QED
    BY <2>1, <2>2, <2>3, AttemptSettled
<1> QED
  BY <1>1, <1>2, <1>3, <1>4, <1>5, OutlineStep, BootstrapStep, ClaimStep, SettleStep, PersistStep, EditStep
     DEF InitialNext

(* The inductive invariant of the first draft.                               *)
THEOREM InitialInvariant == InitialSpec => []InitialInv
<1>1. InitialInit => InitialInv
  BY InitialInitially
<1>2. InitialInv /\ [InitialNext]_initialVars => InitialInv'
  BY InitialStep
<1> QED
  BY <1>1, <1>2, PTL DEF InitialSpec

(* No order of failures, recoveries, releases, late answers and              *)
(* acknowledgements leaves a run that every later request refuses.           *)
THEOREM RunsStayReadable == InitialSpec => []RunReadable
<1>1. InitialInv => RunReadable
  BY DEF InitialInv
<1> QED
  BY <1>1, InitialInvariant, PTL

(* A draft before its gate belongs to the attempt that stands on the run,    *)
(* and any draft is the prose of the outline that is approved.               *)
THEOREM DraftsAreOwned == InitialSpec => []DraftOwned
<1>1. InitialInv => DraftOwned
  BY DEF InitialInv
<1> QED
  BY <1>1, InitialInvariant, PTL

(* However long the provider takes, nothing is written by a request that was *)
(* given settings which have been replaced since; one that could not resolve *)
(* its settings was given none (initial_provider_handoff.py, load).          *)
THEOREM DraftsAreCurrent == InitialSpec => NotOnOldSettings
<1>1. [InitialNext]_initialVars =>
          [draft = None /\ draft' # None =>
              \E w \in Workers : At(w, "persist") /\ worker[w].plan.id = draft'.attempt
                                                 /\ worker[w].plan.contexts \subseteq {setting}]_draft
  <2> SUFFICES ASSUME [InitialNext]_initialVars, draft = None, draft' # None
               PROVE  \E w \in Workers : At(w, "persist") /\ worker[w].plan.id = draft'.attempt
                                                         /\ worker[w].plan.contexts \subseteq {setting}
    OBVIOUS
  <2>1. PICK w \in Workers, next \in {"finalize", "lost"} : Persist(w, next)
    BY DEF InitialNext, initialVars, Outline, StartDraft, ResumeDraft, ReplayAgain, Replay, Bootstrap, Claim,
       ClaimRefused, ProviderReturns, FailAttempt, ReleaseAttempt, PersistRefused, ResultRefused, Finalize,
       Crash, Acknowledge, EditDraft, EditSetting
  <2>2. PICK contexts \in Contexts : CanPersist(w, contexts)
    BY <2>1 DEF Persist
  <2>3. worker[w].plan.contexts \subseteq {setting}
    BY <2>2 DEF CanPersist, SameRequest, Contexts
  <2> QED
    BY <2>1, <2>3 DEF Persist, NewDraft
<1> QED
  BY <1>1, PTL DEF InitialSpec, NotOnOldSettings
=============================================================================
