---------------------------- MODULE ProjectCreation ----------------------------
(***************************************************************************)
(* The creation of a project (ProjectCreationService): an agent proposes     *)
(* concepts, the chief editor reviews them, the author selects one, writes a *)
(* concept of their own or, when the review blocks them, has new ones made.  *)
(*                                                                          *)
(* The concepts are a document of the project, pitch/concept_options.md,     *)
(* which the author may also edit or delete.  Providers are called with      *)
(* nothing locked; the rows and the version commit together, the files are   *)
(* written afterwards.  Run and latest checkpoint always change together and *)
(* are one record; a review is part of the action row it is bound to.  The   *)
(* files of the selected concept are left out: nothing here reads them.      *)
(***************************************************************************)
EXTENDS Naturals, Sequences, FiniteSets

CONSTANTS
    Workers,     \* concurrent requests
    Legacy,      \* whether the entry points without agents are used
    MaxRuns, MaxGates, MaxVersions, MaxChanges,   \* bounds
    None
ASSUME CreationBounds ==
    /\ Legacy \in BOOLEAN /\ None \notin Nat
    /\ {MaxRuns, MaxGates, MaxVersions, MaxChanges} \subseteq Nat

VARIABLES
    run,       \* the creation runs of the project, by their latest checkpoint
    action,    \* ActionRequest rows
    concept,   \* which document is at pitch/concept_options.md, and its versions
    selected,  \* the versions of pitch/selected_concept.md
    worker,    \* what each request holds outside the database
    changes    \* changes of the concept document and lost requests so far

rows == <<run, action, concept, selected>>
creationVars == <<rows, worker, changes>>

Idle == [step |-> "idle"]
Terminal == {"concept_selected", "completed", "rejected"}
Waiting == {"concept_options", "revision_required"}
Verdicts == {"clean", "warning", "blocking"}

CreationInit ==
    /\ run = <<>> /\ action = <<>> /\ selected = <<>>
    /\ concept = [id |-> 1, versions |-> <<>>]
    /\ worker = [w \in Workers |-> Idle]
    /\ changes = 0

-----------------------------------------------------------------------------
At(w, step) == worker[w].step = step
Go(w, next) == worker' = [worker EXCEPT ![w] = next]

(* ProjectCreationState.__post_init__                                       *)
ValidState(s) == (s.status \in Waiting) <=> (s.gate # None)

(* _latest_state_locked: the run waits for exactly its one pending action.   *)
PendingOf(r) == {a \in DOMAIN action : action[a].run = r /\ action[a].status = "pending"}
Readable(r) ==
    /\ ValidState(run[r])
    /\ PendingOf(r) = IF run[r].status \in Waiting THEN {run[r].gate} ELSE {}

(* Mutant of MayStart: the project is not looked at again after the answer.  *)
MayStartAnyway == TRUE

(* _validate_existing_runs_before_start                                     *)
MayStart ==
    \A r \in DOMAIN run :
        /\ Readable(r) /\ run[r].status \in Terminal
        /\ \E a \in DOMAIN action : action[a].run = r /\ action[a].status \in {"approved", "rejected"}

Latest == Len(concept.versions)
Current == <<concept.id, Latest>>

(* Mutant of Bound: the version is only asked for, not whether it is current. *)
BoundToAnyVersion(a) ==
    LET v == action[a].version
    IN  v[1] = concept.id /\ v[2] \in DOMAIN concept.versions /\ concept.versions[v[2]].saved

(* _load_issue65_binding: the reviewed version is current, of this run, and   *)
(* its snapshot is there.                                                    *)
Bound(a) ==
    /\ action[a].version = Current /\ Latest > 0
    /\ concept.versions[Latest].run = action[a].run
    /\ concept.versions[Latest].saved

(* _load_locked_issue65_action                                              *)
Offered(status) == IF status = "concept_options" THEN "select" ELSE "regenerate"
CanAnswer(a) ==
    LET r == action[a].run
    IN  /\ action[a].kind \in {"select", "regenerate"}
        /\ Readable(r) /\ run[r].status \in Waiting
        /\ run[r].gate = a
        /\ action[a].kind = Offered(run[r].status)
        /\ Bound(a)

(* _is_exact_legacy_pending_action, in a run that has been read.             *)
LegacyGate(a) ==
    LET r == action[a].run
    IN  /\ action[a].kind = "legacy" /\ action[a].status = "pending"
        /\ run[r] = [status |-> "concept_options", gate |-> a]

(* get_project_creation_run shows a run, with its gate.                      *)
CanShow(r) ==
    LET a == run[r].gate
    IN  /\ Readable(r)
        /\ run[r].status \in Waiting =>
              LegacyGate(a) \/ (action[a].kind = Offered(run[r].status) /\ Bound(a))

(* The same, after the providers have answered.                             *)
StillOpen(a) == CanAnswer(a)

-----------------------------------------------------------------------------
(* Staged for run r in answer to gate a; its snapshot is not written yet.    *)
NewVersion(r, a, verdict) ==
    /\ Latest < MaxVersions   \* bound
    /\ concept' = [concept EXCEPT !.versions =
           Append(@, [run |-> r, gate |-> a, verdict |-> verdict, saved |-> FALSE])]

(* _record_review_and_gate                                                  *)
GateKind(verdict) == IF verdict = "blocking" THEN "regenerate" ELSE "select"

(* Mutant of NewGate: the gate names the version before.                     *)
NewGateOfParent(r, verdict, version) ==
    [run |-> r, kind |-> GateKind(verdict), status |-> "pending",
     version |-> <<version[1], version[2] - 1>>]

NewGate(r, verdict, version) ==
    [run |-> r, kind |-> GateKind(verdict), status |-> "pending", version |-> version]
StateAt(gate) ==
    [status |-> IF gate.kind = "regenerate" THEN "revision_required" ELSE "concept_options",
     gate |-> Len(action) + 1]
(* _persist_transition: the run and a new checkpoint.                        *)
Transition(r, state) == run' = [run EXCEPT ![r] = state]
More == Len(run) < MaxRuns /\ Len(action) < MaxGates   \* bounds

(* start: concepts and their review come first, in no transaction; then the   *)
(* project is locked and everything is checked and recorded.                 *)
BeginStart(w) ==
    /\ At(w, "idle")
    /\ Go(w, [step |-> "start"])
    /\ UNCHANGED <<rows, changes>>

Start(w, verdict) ==
    LET r == Len(run) + 1
        version == <<concept.id, Latest + 1>>
        gate == NewGate(r, verdict, version)
    IN  /\ At(w, "start")
        /\ MayStart /\ More
        /\ NewVersion(r, None, verdict)
        /\ action' = Append(action, gate)
        /\ run' = Append(run, StateAt(gate))
        /\ Go(w, [step |-> "files", version |-> version])
        /\ UNCHANGED <<selected, changes>>

(* A provider has failed, or the project has an open run.                    *)
StartRefused(w) ==
    /\ At(w, "start")
    /\ Go(w, Idle)
    /\ UNCHANGED <<rows, changes>>

(* write_staged_files, after the commit, into whatever document it was.      *)
WriteFiles(w) ==
    LET v == worker[w].version
    IN  /\ At(w, "files")
        /\ concept' = IF v[1] = concept.id THEN [concept EXCEPT !.versions[v[2]].saved = TRUE] ELSE concept
        /\ Go(w, Idle)
        /\ UNCHANGED <<run, action, selected, changes>>

(* The process dies, a file cannot be written, or the commit succeeds and     *)
(* its answer is lost: what is committed stays, the files are never written. *)
Crash(w) ==
    /\ ~At(w, "idle")
    /\ changes < MaxChanges /\ changes' = changes + 1   \* bound
    /\ Go(w, Idle)
    /\ UNCHANGED rows

(* resolve_action of a selection, in one transaction.  A concept of the       *)
(* author's own counts as None.                                              *)
Select(a, how) ==
    LET r == action[a].run
    IN  /\ CanAnswer(a) /\ action[a].kind = "select"
        /\ action' = [action EXCEPT ![a].status = "approved"]
        /\ selected' = Append(selected,
               [run |-> r, from |-> IF how = "select" THEN action[a].version ELSE None])
        /\ Transition(r, [status |-> "concept_selected", gate |-> None])
        /\ UNCHANGED <<concept, worker, changes>>

(* resolve_action of a blocked review: the gate is checked, released, and     *)
(* checked again with the new concepts in hand.                              *)
BeginRegenerate(w, a) ==
    /\ At(w, "idle")
    /\ CanAnswer(a) /\ action[a].kind = "regenerate"
    /\ Go(w, [step |-> "regenerate", gate |-> a])
    /\ UNCHANGED <<rows, changes>>

Regenerate(w, verdict) ==
    LET a == worker[w].gate
        r == action[a].run
        version == <<concept.id, Latest + 1>>
        gate == NewGate(r, verdict, version)
    IN  /\ At(w, "regenerate")
        /\ StillOpen(a) /\ Len(action) < MaxGates
        /\ NewVersion(r, a, verdict)
        /\ action' = Append([action EXCEPT ![a].status = "revised"], gate)
        /\ Transition(r, StateAt(gate))
        /\ Go(w, [step |-> "files", version |-> version])
        /\ UNCHANGED <<selected, changes>>

RegenerateRefused(w) ==
    /\ At(w, "regenerate")
    /\ Go(w, Idle)
    /\ UNCHANGED <<rows, changes>>

-----------------------------------------------------------------------------
(* The entry points without agents: one transaction each.                   *)
StartLegacy ==
    /\ MayStart /\ Len(run) < MaxRuns
    /\ run' = Append(run, [status |-> "user_idea", gate |-> None])
    /\ UNCHANGED <<action, concept, selected, worker, changes>>

(* persist_concept_generation_output: only for a run that has just been       *)
(* started, and only when there are no concepts yet.                         *)
Generating(r) == r = Len(run) /\ Readable(r) /\ run[r].status = "user_idea"
PersistConcepts(r) ==
    /\ Generating(r) /\ Latest = 0
    /\ concept' = [concept EXCEPT !.versions =
           <<[run |-> r, gate |-> None, verdict |-> None, saved |-> TRUE]>>]
    /\ UNCHANGED <<run, action, selected, worker, changes>>

RequestReview(r) ==
    /\ Readable(r) /\ run[r].status = "user_idea"
    /\ Len(action) < MaxGates
    /\ action' = Append(action, [run |-> r, kind |-> "legacy", status |-> "pending", version |-> None])
    /\ Transition(r, [status |-> "concept_options", gate |-> Len(action) + 1])
    /\ UNCHANGED <<concept, selected, worker, changes>>

ResolveReview(a, decision) ==
    LET r == action[a].run
    IN  /\ Readable(r) /\ LegacyGate(a)
        /\ action' = [action EXCEPT ![a].status = decision]
        /\ Transition(r,
               [status |-> IF decision = "approved" THEN "concept_reviewed" ELSE "rejected", gate |-> None])
        /\ UNCHANGED <<concept, selected, worker, changes>>

CompleteLegacy(r) ==
    /\ Readable(r) /\ run[r].status = "concept_reviewed"
    /\ Transition(r, [status |-> "completed", gate |-> None])
    /\ UNCHANGED <<action, concept, selected, worker, changes>>

-----------------------------------------------------------------------------
(* The author at the document endpoints: a save, a restore or a new document  *)
(* at the free path; and a deletion.                                         *)
EditConcept ==
    /\ changes < MaxChanges /\ Latest < MaxVersions   \* bounds
    /\ changes' = changes + 1
    /\ concept' = [concept EXCEPT !.versions =
           Append(@, [run |-> None, gate |-> None, verdict |-> None, saved |-> TRUE])]
    /\ UNCHANGED <<run, action, selected, worker>>

DeleteConcept ==
    /\ Latest > 0
    /\ changes < MaxChanges /\ changes' = changes + 1   \* bound
    /\ concept' = [id |-> concept.id + 1, versions |-> <<>>]
    /\ UNCHANGED <<run, action, selected, worker>>

CreationNext ==
    \/ \E w \in Workers :
          \/ BeginStart(w) \/ StartRefused(w) \/ RegenerateRefused(w)
          \/ WriteFiles(w) \/ Crash(w)
          \/ \E verdict \in Verdicts : Start(w, verdict) \/ Regenerate(w, verdict)
          \/ \E a \in DOMAIN action : BeginRegenerate(w, a)
    \/ \E a \in DOMAIN action, how \in {"select", "fuse"} : Select(a, how)
    \/ /\ Legacy
       /\ \/ StartLegacy
          \/ \E r \in DOMAIN run : PersistConcepts(r) \/ RequestReview(r) \/ CompleteLegacy(r)
          \/ \E a \in DOMAIN action, decision \in {"approved", "rejected"} : ResolveReview(a, decision)
    \/ EditConcept \/ DeleteConcept

CreationSpec == CreationInit /\ [][CreationNext]_creationVars

-----------------------------------------------------------------------------
(* Requests that start, select and regenerate at once leave one story: at    *)
(* most one run is open, every run can be read, a gate is answered with at    *)
(* most one new set of concepts and a run selects at most one concept.       *)
OneStory ==
    LET open == {r \in DOMAIN run : run[r].status \notin Terminal}
        answers(a) == {n \in DOMAIN concept.versions : concept.versions[n].gate = a}
    IN  /\ Cardinality(open) <= 1
        /\ \A r \in DOMAIN run : Readable(r)
        /\ \A a \in DOMAIN action : Cardinality(answers(a)) <= 1
        /\ \A i, j \in DOMAIN selected : selected[i].run = selected[j].run => i = j

(* The author selects from what was reviewed: the chosen concepts are the     *)
(* current version, made by this run, and no review has blocked them --      *)
(* whatever was regenerated, edited or deleted since they were first shown.  *)
SelectedIsReviewed ==
    [][\A n \in DOMAIN selected' \ DOMAIN selected :
          LET s == selected'[n]
          IN  /\ Latest > 0 /\ concept.versions[Latest].run = s.run
              /\ concept.versions[Latest].verdict \in {"clean", "warning"}
              /\ s.from \in {None, Current}]_creationVars

(* As long as the author leaves the concept document alone and its files are  *)
(* written, the open run is shown and its gate can be answered.              *)
OpenGateAnswerable ==
    \A r \in DOMAIN run :
        LET a == run[r].gate
            last == concept.versions[Latest]
        IN  (a # None /\ Latest > 0) =>
                (action[a].kind # "legacy" /\ last.run = r /\ last.saved => CanShow(r) /\ CanAnswer(a))
=============================================================================
