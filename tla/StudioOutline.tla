----------------------------- MODULE StudioOutline -----------------------------
(***************************************************************************)
(* How a chapter gets the outline its prose is written from.  The author    *)
(* orders batches of alternatives from a provider, selects one, edits it    *)
(* and approves the version on the screen (studio_outline_generation.py,    *)
(* studio_outline.py).  Every request holds the chapter's advisory lock     *)
(* from its first read to its commit, except that create_batch commits the  *)
(* order, calls the provider with no lock, and takes the lock again for the *)
(* answer; the process may die in between (BatchLost).                      *)
(*                                                                          *)
(* A version of the selected outline is a number, fresh for every selection *)
(* and every save.  An order is named by its request_id: repeating it       *)
(* returns the stored batch and changes nothing, so it is no action.        *)
(* Left out: the idea and the context an order is made of, titles, and the  *)
(* files of the outline documents (DocumentStore).                          *)
(***************************************************************************)
EXTENDS Integers

CONSTANTS
    Batches,      \* request ids of the orders
    None,         \* no run, no attempt
    MaxOutlines   \* bound on the outline versions ever written
ASSUME OutlineBounds == MaxOutlines \in Nat /\ None \notin Nat

VARIABLES
    outline,    \* current version of chapter.current_outline_document, 0 none
    approved,   \* chapter.approved_outline_version_id, 0 none
    batch,      \* the outline runs: status, deadline passed, caller waiting
    run,        \* the production run, or None: moved by InitialDraft
    hasDraft    \* chapter.current_draft_document_id is set

outlineVars == <<outline, approved, batch>>

OutlineInit ==
    /\ outline = 0
    /\ approved = 0
    /\ batch = [b \in Batches |-> [status |-> "none", late |-> FALSE, calling |-> FALSE]]

-----------------------------------------------------------------------------
(* Mutant of OutlineWritable: only the draft document is looked at.         *)
WritableUntilDraft == ~hasDraft

(* ensure_outline_writable: a FAILED production run does not count.         *)
OutlineWritable == ~hasDraft /\ (run # None => run.status = "FAILED")

Open(b) == batch[b].status \in {"running", "uncertain"}

(* What the author is shown: a batch still running after its deadline is    *)
(* uncertain (batch_response).                                              *)
Shown(b) ==
    IF batch[b].status = "running" /\ batch[b].late THEN "uncertain" ELSE batch[b].status

Settle(b, status) == batch' = [batch EXCEPT ![b].status = status, ![b].calling = FALSE]

(* create_batch up to its first commit                                      *)
CreateBatch(b) ==
    /\ batch[b].status = "none"
    /\ OutlineWritable
    /\ ~\E other \in Batches : Open(other)
    /\ batch' = [batch EXCEPT ![b].status = "running", ![b].calling = TRUE]
    /\ UNCHANGED <<outline, approved>>

Deadline(b) ==
    /\ batch[b].status = "running" /\ ~batch[b].late
    /\ batch' = [batch EXCEPT ![b].late = TRUE]
    /\ UNCHANGED <<outline, approved>>

(* The answer counts only while the order is still running, late or not.    *)
Answered(b) == batch[b].calling /\ batch[b].status = "running" /\ OutlineWritable

BatchCompleted(b) ==
    /\ Answered(b)
    /\ Settle(b, "completed")
    /\ UNCHANGED <<outline, approved>>

(* A timeout or an unavailable provider leaves the result uncertain, any    *)
(* other error is a failure.                                                *)
BatchRefused(b, status) ==
    /\ batch[b].calling /\ batch[b].status = "running"
    /\ Settle(b, status)
    /\ UNCHANGED <<outline, approved>>

(* The caller is gone: its process died, the order was abandoned, or prose  *)
(* production began and the answer's transaction raised.  The row stays.    *)
BatchLost(b) ==
    /\ batch[b].calling
    /\ batch' = [batch EXCEPT ![b].calling = FALSE]
    /\ UNCHANGED <<outline, approved>>

(* cancel_uncertain_batch                                                   *)
CancelUncertain(b) ==
    /\ Shown(b) = "uncertain"
    /\ batch' = [batch EXCEPT ![b].status = "cancelled"]
    /\ UNCHANGED <<outline, approved>>

-----------------------------------------------------------------------------
NewOutline ==
    /\ outline < MaxOutlines   \* bound
    /\ outline' = outline + 1
    /\ approved' = 0
    /\ UNCHANGED batch

(* select_candidate with the outline version the author last saw            *)
SelectCandidate(b) == OutlineWritable /\ batch[b].status = "completed" /\ NewOutline

(* save_selected_outline *)
SaveOutline == OutlineWritable /\ outline # 0 /\ NewOutline

(* The query of approve_studio_outline over every run of the chapter        *)
ActiveRun ==
    ~(/\ \A b \in Batches : ~Open(b)
      /\ run # None => run.status = "FAILED")

(* approve_studio_outline: the version the author has read, while it is     *)
(* current.                                                                 *)
ApproveOutline ==
    /\ outline # 0 /\ approved # outline
    /\ ~ActiveRun /\ ~hasDraft
    /\ approved' = outline
    /\ UNCHANGED <<outline, batch>>

OutlineNext ==
    \/ \E b \in Batches :
          \/ CreateBatch(b) \/ Deadline(b) \/ BatchCompleted(b)
          \/ BatchRefused(b, "uncertain") \/ BatchRefused(b, "failed")
          \/ BatchLost(b) \/ CancelUncertain(b) \/ SelectCandidate(b)
    \/ SaveOutline
    \/ ApproveOutline
=============================================================================
