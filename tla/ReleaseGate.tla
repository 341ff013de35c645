----------------------------- MODULE ReleaseGate -----------------------------
(***************************************************************************)
(* What a chapter run promises about the text it releases, without         *)
(* checkpoints, actions, report rows or failures: there is one candidate   *)
(* version; the stages of the run's policy approve it in order; it is      *)
(* released only when all of them have; any other text starts again        *)
(* without approvals; and a candidate sent to rework is never offered      *)
(* again.                                                                  *)
(***************************************************************************)
EXTENDS Naturals

VARIABLES
    phase,      \* where the candidate stands
    candidate,  \* version number of the text under review, 0 before the first
    required,   \* the stages of the policy, fixed for the run
    approved    \* the stages that have approved this candidate

vars == <<phase, candidate, required, approved>>

Phases == {"writing", "review", "rework", "released", "completed", "cancelled"}
(* The stages that are asked before g, if the policy has them.              *)
Before(g) == CASE g = "editor" -> {}
               [] g = "chief_editor" -> {"editor"}
               [] g = "lore" -> {"editor", "chief_editor"}

Init ==
    /\ phase = "writing"
    /\ candidate = 0
    /\ required \in {{"editor", "lore"}, {"editor", "chief_editor", "lore"}}
    /\ approved = {}

(* Version numbers only grow; a restored text is a new version.             *)
NewCandidate == candidate' \in Nat /\ candidate' > candidate

OfferDraft ==
    /\ phase = "writing"
    /\ NewCandidate
    /\ UNCHANGED <<phase, required, approved>>

OpenReview ==
    /\ phase = "writing" /\ candidate # 0
    /\ phase' = "review"
    /\ UNCHANGED <<candidate, required, approved>>

ReplaceCandidate ==
    /\ phase \in {"writing", "review", "rework", "released"} /\ candidate # 0
    /\ NewCandidate
    /\ phase' = "review"
    /\ approved' = {}
    /\ UNCHANGED required

(* The last approval may release the candidate in the same transaction.    *)
Approve(g) ==
    /\ phase = "review"
    /\ g \in required \ approved
    /\ Before(g) \cap required \subseteq approved
    /\ approved' = approved \cup {g}
    /\ phase' \in {"review"} \cup (IF approved' = required THEN {"released"} ELSE {})
    /\ UNCHANGED <<candidate, required>>

(* Only the last stage is asked again before the release.                  *)
Reconsider ==
    /\ phase = "review"
    /\ approved' = approved \ {"lore"}
    /\ UNCHANGED <<phase, candidate, required>>

Release ==
    /\ phase = "review"
    /\ approved = required
    /\ phase' = "released"
    /\ UNCHANGED <<candidate, required, approved>>

SendBack ==
    /\ phase \in {"review", "released"}
    /\ phase' = "rework"
    /\ approved' = {}
    /\ UNCHANGED <<candidate, required>>

Complete ==
    /\ phase = "released"
    /\ phase' = "completed"
    /\ UNCHANGED <<candidate, required, approved>>

Cancel ==
    /\ phase \in {"writing", "review", "rework"}
    /\ phase' = "cancelled"
    /\ approved' = {}
    /\ UNCHANGED <<candidate, required>>

Next ==
    \/ OfferDraft
    \/ ReplaceCandidate
    \/ OpenReview
    \/ \E g \in required : Approve(g)
    \/ Reconsider
    \/ Release
    \/ SendBack
    \/ Complete
    \/ Cancel

Spec == Init /\ [][Next]_vars

-----------------------------------------------------------------------------
(* A text that is released carries the approval of every stage of the       *)
(* run's policy (validate_live_readiness, __post_init__).                   *)
ReleasedIsApproved ==
    phase \in {"released", "completed"} => approved = required
=============================================================================
