------------------------- MODULE ProjectCreationProofs -------------------------
(***************************************************************************)
(* The creation of a project for any number of requests, runs, gates and    *)
(* versions.  Only the newest run can be open, since a start is refused     *)
(* beside an open one, and everything that moves a run finds it open.  Its  *)
(* one pending row is its gate, so the second of two answers finds another  *)
(* gate or none.  What a gate names was reviewed, because a version keeps   *)
(* its number, its run and its verdict as long as its document exists.      *)
(***************************************************************************)
EXTENDS ProjectCreation, FiniteSetTheorems, SequenceTheorems, TLAPS

Statuses == Waiting \cup Terminal \cup {"user_idea", "concept_reviewed"}
Kinds == {"select", "regenerate", "legacy"}
Decisions == {"pending", "approved", "rejected", "revised"}
Number == Nat \cup {None}

RunRow == [status : Statuses, gate : Number]
ActionRow == [run : Nat, kind : Kinds, status : Decisions, version : (Nat \X Nat) \cup {None}]
VersionRow == [run : Number, gate : Number, verdict : Verdicts \cup {None}, saved : BOOLEAN]
SelectedRow == [run : Nat, from : (Nat \X Nat) \cup {None}]
Request ==
    [step : {"idle", "start"}] \cup [step : {"files"}, version : Nat \X Nat]
        \cup [step : {"regenerate"}, gate : Nat]

CreationTypeOK ==
    /\ run \in Seq(RunRow)
    /\ action \in Seq(ActionRow)
    /\ concept \in [id : Nat, versions : Seq(VersionRow)]
    /\ selected \in Seq(SelectedRow)
    /\ worker \in [Workers -> Request]

(* Rows are of runs that exist, and a request answers a gate that exists.    *)
RowsHaveRuns ==
    /\ \A a \in 1 .. Len(action) : action[a].run \in 1 .. Len(run)
    /\ \A w \in Workers : worker[w].step = "regenerate" => worker[w].gate \in 1 .. Len(action)

(* Every run but the newest has ended, and its one pending row is its gate.  *)
RunsInTurn ==
    /\ \A r \in 1 .. Len(run) : Readable(r) /\ (r < Len(run) => run[r].status \in Terminal)
    /\ \A r \in 1 .. Len(run) : run[r].status \in Waiting =>
          LET a == run[r].gate
          IN  /\ a \in 1 .. Len(action)
              /\ \/ action[a].kind = Offered(run[r].status)
                 \/ action[a].kind = "legacy" /\ run[r].status = "concept_options"

(* A gate is answered with one set of concepts, and a run has one selection. *)
AnswersUnique ==
    /\ \A n \in 1 .. Len(concept.versions) :
          LET a == concept.versions[n].gate
          IN  a # None =>
                 /\ a \in 1 .. Len(action) /\ action[a].status = "revised"
                 /\ \A m \in 1 .. Len(concept.versions) : concept.versions[m].gate = a => m = n
    /\ \A i \in 1 .. Len(selected) :
          /\ selected[i].run \in 1 .. Len(run)
          /\ run[selected[i].run].status = "concept_selected"
          /\ \A j \in 1 .. Len(selected) : selected[j].run = selected[i].run => j = i

(* A gate names a version with the verdict it was opened for, unless the     *)
(* document it was in is gone.                                               *)
GatesReviewed ==
    \A a \in 1 .. Len(action) : action[a].kind # "legacy" =>
        LET v == action[a].version
        IN  /\ v \in Nat \X Nat /\ v[1] <= concept.id
            /\ v[1] = concept.id =>
                  /\ v[2] \in 1 .. Len(concept.versions)
                  /\ concept.versions[v[2]].verdict \in Verdicts
                  /\ action[a].kind = GateKind(concept.versions[v[2]].verdict)

(* No version of a run is later than the one its open gate names.            *)
GatesLatest ==
    \A r \in 1 .. Len(run) : run[r].status \in Waiting /\ action[run[r].gate].kind # "legacy" =>
        \A n \in 1 .. Len(concept.versions) : concept.versions[n].run = r =>
            LET v == action[run[r].gate].version
            IN  v[1] = concept.id /\ n <= v[2]

CreationInv ==
    /\ CreationTypeOK
    /\ RowsHaveRuns
    /\ RunsInTurn
    /\ AnswersUnique
    /\ GatesReviewed
    /\ GatesLatest

-----------------------------------------------------------------------------
(* What the operators of the service are when a step is taken.              *)

(* The answer to a gate finds an open run, whose only pending row it is.     *)
LEMMA OpenGate ==
    ASSUME CreationInv, NEW r \in 1 .. Len(run), run[r].status \notin Terminal
    PROVE  r = Len(run)
BY DEF CreationInv, CreationTypeOK, RunsInTurn

LEMMA AnswerableGate ==
    ASSUME CreationInv, NEW a \in 1 .. Len(action), CanAnswer(a)
    PROVE  LET r == action[a].run
           IN  /\ r \in 1 .. Len(run) /\ r = Len(run)
               /\ run[r].status \in Waiting /\ run[r].gate = a
               /\ action[a].status = "pending" /\ PendingOf(r) = {a}
               /\ action[a].kind = Offered(run[r].status)
               /\ Bound(a)
<1> DEFINE r == action[a].run
<1>1. r \in 1 .. Len(run) /\ Readable(r)
  BY DEF CreationInv, RowsHaveRuns, RunsInTurn
<1>2. run[r].status \in Waiting /\ run[r].gate = a /\ action[a].kind = Offered(run[r].status) /\ Bound(a)
  BY DEF CanAnswer
<1>3. PendingOf(r) = {a}
  BY <1>1, <1>2 DEF Readable
<1>4. action[a].status = "pending"
  BY <1>3 DEF PendingOf
<1>5. r = Len(run)
  BY <1>1, <1>2, OpenGate DEF Waiting, Terminal
<1> QED
  BY <1>1, <1>2, <1>3, <1>4, <1>5

(* No run is open when a new one may start.                                 *)
LEMMA NothingOpen ==
    ASSUME CreationInv, MayStart
    PROVE  \A r \in 1 .. Len(run) : run[r].status \in Terminal
BY DEF CreationInv, CreationTypeOK, MayStart

-----------------------------------------------------------------------------
(* Steps that leave the rows alone.                                         *)

LEMMA RowsUnchanged ==
    ASSUME CreationInv, UNCHANGED rows, worker' \in [Workers -> Request],
           \A w \in Workers : worker'[w].step = "regenerate" => worker'[w].gate \in 1 .. Len(action)
    PROVE  CreationInv'
<1>1. CreationTypeOK' /\ RowsHaveRuns'
  BY DEF CreationInv, CreationTypeOK, RowsHaveRuns, rows
<1>2. RunsInTurn'
  BY DEF CreationInv, RunsInTurn, Readable, ValidState, PendingOf, Offered, rows
<1>3. AnswersUnique' /\ GatesReviewed' /\ GatesLatest'
  BY DEF CreationInv, AnswersUnique, GatesReviewed, GatesLatest, GateKind, rows
<1> QED
  BY <1>1, <1>2, <1>3 DEF CreationInv

LEMMA WorkersStay ==
    ASSUME CreationInv, NEW w \in Workers, NEW next \in Request,
           worker' = [worker EXCEPT ![w] = next],
           next.step = "regenerate" => next.gate \in 1 .. Len(action)
    PROVE  /\ worker' \in [Workers -> Request]
           /\ \A v \in Workers : worker'[v].step = "regenerate" => worker'[v].gate \in 1 .. Len(action)
BY DEF CreationInv, CreationTypeOK, RowsHaveRuns

LEMMA RequestSteps ==
    ASSUME CreationInv, NEW w \in Workers,
           \/ BeginStart(w) \/ StartRefused(w) \/ RegenerateRefused(w) \/ Crash(w)
           \/ \E a \in DOMAIN action : BeginRegenerate(w, a)
    PROVE  CreationInv'
<1>1. PICK next \in Request :
         /\ worker' = [worker EXCEPT ![w] = next]
         /\ next.step = "regenerate" => next.gate \in 1 .. Len(action)
         /\ UNCHANGED rows
  <2>1. CASE BeginStart(w)
    BY <2>1 DEF BeginStart, Go, Request
  <2>2. CASE StartRefused(w) \/ RegenerateRefused(w) \/ Crash(w)
    BY <2>2 DEF StartRefused, RegenerateRefused, Crash, Go, Idle, Request
  <2>3. CASE \E a \in DOMAIN action : BeginRegenerate(w, a)
    <3>1. PICK a \in DOMAIN action : BeginRegenerate(w, a)
      BY <2>3
    <3>2. a \in 1 .. Len(action)
      BY DEF CreationInv, CreationTypeOK
    <3> DEFINE next == [step |-> "regenerate", gate |-> a]
    <3>3. next \in Request
      BY <3>2 DEF Request
    <3> QED
      BY <3>1, <3>2, <3>3 DEF BeginRegenerate, Go
  <2> QED
    BY <2>1, <2>2, <2>3
<1> QED
  BY <1>1, WorkersStay, RowsUnchanged

-----------------------------------------------------------------------------
(* Steps of the concept document.                                           *)

(* Versions keep their number, run, answer and verdict; new ones answer no   *)
(* gate, and belong to no run or to one that does not wait.                 *)
LEMMA VersionsGrow ==
    ASSUME CreationInv, UNCHANGED <<run, action, selected>>,
           worker' \in [Workers -> Request],
           \A w \in Workers : worker'[w].step = "regenerate" => worker'[w].gate \in 1 .. Len(action),
           concept' \in [id : Nat, versions : Seq(VersionRow)], concept'.id = concept.id,
           Len(concept.versions) <= Len(concept'.versions),
           \A n \in 1 .. Len(concept.versions) :
              /\ concept'.versions[n].run = concept.versions[n].run
              /\ concept'.versions[n].gate = concept.versions[n].gate
              /\ concept'.versions[n].verdict = concept.versions[n].verdict,
           \A n \in 1 .. Len(concept'.versions) : n > Len(concept.versions) =>
              /\ concept'.versions[n].gate = None
              /\ \A r \in 1 .. Len(run) : concept'.versions[n].run = r => run[r].status \notin Waiting
    PROVE  CreationInv'
<1>1. CreationTypeOK' /\ RowsHaveRuns'
  BY DEF CreationInv, CreationTypeOK, RowsHaveRuns
<1>2. RunsInTurn'
  BY DEF CreationInv, RunsInTurn, Readable, ValidState, PendingOf, Offered
<1> DEFINE old == 1 .. Len(concept.versions)
           new == 1 .. Len(concept'.versions)
<1>3. old \subseteq new /\ \A n \in new : n \in old \/ n > Len(concept.versions)
  BY DEF CreationInv, CreationTypeOK
<1>4. AnswersUnique'
  BY <1>3 DEF CreationInv, AnswersUnique
<1>5. GatesReviewed'
  BY <1>3 DEF CreationInv, GatesReviewed, GateKind
<1>6. GatesLatest'
  BY <1>3 DEF CreationInv, GatesLatest
<1> QED
  BY <1>1, <1>2, <1>4, <1>5, <1>6 DEF CreationInv

LEMMA FilesWritten ==
    ASSUME CreationInv, NEW w \in Workers, WriteFiles(w)
    PROVE  CreationInv'
<1> DEFINE v == worker[w].version
           id == concept.id
           vs == concept.versions
<1>1. v \in Nat \X Nat /\ id \in Nat /\ vs \in Seq(VersionRow)
  BY DEF CreationInv, CreationTypeOK, WriteFiles, At, Request
<1>2. /\ worker' \in [Workers -> Request]
      /\ \A u \in Workers : worker'[u].step = "regenerate" => worker'[u].gate \in 1 .. Len(action)
  BY WorkersStay DEF WriteFiles, Go, Idle, Request
<1>3. CASE v[1] # id \/ v[2] \notin DOMAIN vs
  <2>1. concept' = concept
    BY <1>3, <1>1 DEF WriteFiles, CreationInv, CreationTypeOK
  <2> QED
    BY <2>1, <1>2, RowsUnchanged DEF WriteFiles, rows
<1>4. CASE v[1] = id /\ v[2] \in DOMAIN vs
  <2> DEFINE next == [vs EXCEPT ![v[2]].saved = TRUE]
  <2>1. concept' = [id |-> id, versions |-> next]
    BY <1>4, <1>1 DEF WriteFiles, CreationInv, CreationTypeOK
  <2>2. /\ next \in Seq(VersionRow) /\ Len(next) = Len(vs)
        /\ \A n \in 1 .. Len(vs) : /\ next[n].run = vs[n].run /\ next[n].gate = vs[n].gate
                                   /\ next[n].verdict = vs[n].verdict
    <3> DEFINE new == [vs[v[2]] EXCEPT !.saved = TRUE]
    <3>1. v[2] \in 1 .. Len(vs) /\ vs[v[2]] \in VersionRow
      BY <1>1, <1>4
    <3>2. /\ new \in VersionRow /\ new.run = vs[v[2]].run /\ new.gate = vs[v[2]].gate
          /\ new.verdict = vs[v[2]].verdict
      BY <3>1 DEF VersionRow
    <3>3. next = [vs EXCEPT ![v[2]] = new]
      OBVIOUS
    <3> HIDE DEF new
    <3>4. /\ [vs EXCEPT ![v[2]] = new] \in Seq(VersionRow)
          /\ Len([vs EXCEPT ![v[2]] = new]) = Len(vs)
          /\ \A n \in 1 .. Len(vs) : [vs EXCEPT ![v[2]] = new][n] = IF n = v[2] THEN new ELSE vs[n]
      BY <1>1, <3>1, <3>2, ExceptSeq
    <3> HIDE DEF next
    <3> QED
      BY <3>2, <3>3, <3>4
  <2> HIDE DEF next
  <2>3. /\ concept' \in [id : Nat, versions : Seq(VersionRow)] /\ concept'.id = concept.id
        /\ concept'.versions = next
    BY <2>1, <2>2, <1>1
  <2>4. Len(vs) \in Nat
    BY <1>1
  <2> QED
    BY <2>2, <2>3, <2>4, <1>2, VersionsGrow DEF WriteFiles
<1> QED
  BY <1>3, <1>4

LEMMA Appended ==
    ASSUME CreationInv, NEW v \in VersionRow, concept' = [concept EXCEPT !.versions = Append(@, v)]
    PROVE  /\ concept' \in [id : Nat, versions : Seq(VersionRow)]
           /\ concept'.id = concept.id /\ Len(concept'.versions) = Len(concept.versions) + 1
           /\ \A n \in 1 .. Len(concept.versions) : concept'.versions[n] = concept.versions[n]
           /\ concept'.versions[Len(concept.versions) + 1] = v
           /\ Len(concept.versions) \in Nat
<1>1. concept \in [id : Nat, versions : Seq(VersionRow)] /\ Len(concept.versions) \in Nat
  BY DEF CreationInv, CreationTypeOK
<1>2. /\ Append(concept.versions, v) \in Seq(VersionRow)
      /\ Len(Append(concept.versions, v)) = Len(concept.versions) + 1
      /\ \A n \in 1 .. Len(concept.versions) : Append(concept.versions, v)[n] = concept.versions[n]
      /\ Append(concept.versions, v)[Len(concept.versions) + 1] = v
  BY <1>1, AppendProperties
<1>3. concept' = [id |-> concept.id, versions |-> Append(concept.versions, v)]
  BY <1>1
<1> QED
  BY <1>1, <1>2, <1>3

LEMMA ConceptEdited ==
    ASSUME CreationInv, EditConcept
    PROVE  CreationInv'
<1> DEFINE v == [run |-> None, gate |-> None, verdict |-> None, saved |-> TRUE]
<1>1. v \in VersionRow
  BY DEF VersionRow, Number
<1>2. concept' = [concept EXCEPT !.versions = Append(@, v)]
  BY DEF EditConcept
<1>3. \A r \in 1 .. Len(run) : v.run # r
  BY CreationBounds DEF CreationInv, CreationTypeOK
<1>4. v.gate = None
  OBVIOUS
<1> HIDE DEF v
<1>5. UNCHANGED <<run, action, selected, worker>>
  BY DEF EditConcept
<1>6. /\ worker' \in [Workers -> Request]
      /\ \A w \in Workers : worker'[w].step = "regenerate" => worker'[w].gate \in 1 .. Len(action)
  BY <1>5 DEF CreationInv, CreationTypeOK, RowsHaveRuns
<1>7. \A n \in 1 .. Len(concept'.versions) : n > Len(concept.versions) => concept'.versions[n] = v
  BY <1>1, <1>2, Appended
<1> QED
  BY <1>1, <1>2, <1>3, <1>4, <1>5, <1>6, <1>7, Appended, VersionsGrow

LEMMA ConceptsPersisted ==
    ASSUME CreationInv, NEW r \in 1 .. Len(run), PersistConcepts(r)
    PROVE  CreationInv'
<1> DEFINE v == [run |-> r, gate |-> None, verdict |-> None, saved |-> TRUE]
<1>1. v \in VersionRow
  BY DEF VersionRow, Number
<1>2. concept' = [id |-> concept.id, versions |-> <<v>>] /\ Len(concept.versions) = 0
  BY DEF PersistConcepts, Latest, CreationInv, CreationTypeOK
<1>3. \A q \in 1 .. Len(run) : v.run = q => run[q].status \notin Waiting
  BY DEF PersistConcepts, Generating, Waiting
<1>4. v.gate = None
  OBVIOUS
<1> HIDE DEF v
<1>5. UNCHANGED <<run, action, selected, worker>>
  BY DEF PersistConcepts
<1>6. /\ worker' \in [Workers -> Request]
      /\ \A w \in Workers : worker'[w].step = "regenerate" => worker'[w].gate \in 1 .. Len(action)
  BY <1>5 DEF CreationInv, CreationTypeOK, RowsHaveRuns
<1>7. /\ concept' \in [id : Nat, versions : Seq(VersionRow)] /\ concept'.id = concept.id
      /\ Len(concept'.versions) = 1 /\ concept'.versions[1] = v
  BY <1>1, <1>2 DEF CreationInv, CreationTypeOK
<1> QED
  BY <1>2, <1>3, <1>4, <1>5, <1>6, <1>7, VersionsGrow

LEMMA ConceptDeleted ==
    ASSUME CreationInv, DeleteConcept
    PROVE  CreationInv'
<1>1. /\ concept' \in [id : Nat, versions : Seq(VersionRow)] /\ concept'.id = concept.id + 1
      /\ Len(concept'.versions) = 0 /\ concept.id \in Nat
      /\ UNCHANGED <<run, action, selected, worker>>
  BY DEF DeleteConcept, CreationInv, CreationTypeOK
<1>2. CreationTypeOK' /\ RowsHaveRuns'
  BY <1>1 DEF CreationInv, CreationTypeOK, RowsHaveRuns
<1>3. RunsInTurn'
  BY <1>1 DEF CreationInv, RunsInTurn, Readable, ValidState, PendingOf, Offered
<1>4. AnswersUnique' /\ GatesLatest'
  BY <1>1 DEF CreationInv, AnswersUnique, GatesLatest
<1>5. GatesReviewed'
  <2> SUFFICES ASSUME NEW a \in 1 .. Len(action), action[a].kind # "legacy"
               PROVE  LET v == action[a].version
                      IN  v \in Nat \X Nat /\ v[1] <= concept'.id /\ v[1] # concept'.id
    BY <1>1 DEF GatesReviewed
  <2>1. action[a].version \in Nat \X Nat /\ action[a].version[1] <= concept.id
    BY DEF CreationInv, GatesReviewed
  <2> QED
    BY <1>1, <2>1
<1> QED
  BY <1>2, <1>3, <1>4, <1>5 DEF CreationInv

-----------------------------------------------------------------------------
(* Steps of a run.                                                          *)

(* Run r, the newest, has moved or is new: its rows have changed, or some     *)
(* were added, and it is left readable.                                     *)
Moved(r) ==
    /\ run' \in Seq(RunRow) /\ Len(run') = r /\ r \in 1 .. r
    /\ r \in {Len(run), Len(run) + 1}
    /\ r = Len(run) => run[r].status \notin Terminal
    /\ \A q \in 1 .. Len(run) : q # r => run'[q] = run[q] /\ run[q].status \in Terminal
    /\ action' \in Seq(ActionRow) /\ Len(action) <= Len(action')
    /\ \A a \in 1 .. Len(action) :
          /\ action'[a].run = action[a].run /\ action'[a].kind = action[a].kind
          /\ action'[a].version = action[a].version
          /\ action'[a].status = action[a].status \/ (action[a].run = r /\ action[a].status = "pending")
    /\ \A a \in 1 .. Len(action') : a > Len(action) => action'[a].run = r
    /\ worker' \in [Workers -> Request]
    /\ \A w \in Workers : worker'[w].step = "regenerate" => worker'[w].gate \in 1 .. Len(action)
    /\ Readable(r)'
    /\ run'[r].status \in Waiting =>
          LET a == run'[r].gate
          IN  /\ a \in 1 .. Len(action')
              /\ \/ action'[a].kind = Offered(run'[r].status)
                 \/ action'[a].kind = "legacy" /\ run'[r].status = "concept_options"

LEMMA RunsMove ==
    ASSUME CreationInv, NEW r \in Nat, Moved(r)
    PROVE  RowsHaveRuns' /\ RunsInTurn'
<1> DEFINE old == 1 .. Len(action)
           new == 1 .. Len(action')
<1>0. /\ Len(run) \in Nat /\ Len(action) \in Nat /\ Len(action') \in Nat
      /\ DOMAIN action = old /\ DOMAIN action' = new
      /\ \A a \in old : action[a].run \in 1 .. Len(run)
  BY DEF CreationInv, CreationTypeOK, RowsHaveRuns, Moved
<1>1. old \subseteq new /\ \A a \in new : a \in old \/ a > Len(action)
  BY <1>0 DEF Moved
<1>2. RowsHaveRuns'
  <2>1. \A a \in new : action'[a].run \in 1 .. Len(run')
    <3>1. \A a \in old : action'[a].run = action[a].run
      BY DEF Moved
    <3>2. \A a \in new : a > Len(action) => action'[a].run = r
      BY DEF Moved
    <3>3. Len(run') = r /\ r \in 1 .. r /\ Len(run) <= r
      BY <1>0 DEF Moved
    <3> QED
      BY <1>0, <1>1, <3>1, <3>2, <3>3
  <2>2. \A w \in Workers : worker'[w].step = "regenerate" => worker'[w].gate \in new
    BY <1>1 DEF Moved
  <2> QED
    BY <2>1, <2>2 DEF RowsHaveRuns
<1>3. ASSUME NEW q \in 1 .. Len(run), q # r
      PROVE  Readable(q)' /\ run'[q].status \in Terminal
  <2>1. run'[q] = run[q] /\ run[q].status \in Terminal /\ Readable(q)
    BY <1>3 DEF Moved, CreationInv, RunsInTurn
  <2>2. PendingOf(q)' = PendingOf(q)
    BY <1>0, <1>1, <1>3 DEF PendingOf, Moved
  <2> QED
    BY <2>1, <2>2 DEF Readable, ValidState
<1>4. \A q \in 1 .. Len(run') : q = r \/ (q \in 1 .. Len(run) /\ q # r)
  BY <1>0 DEF Moved
<1>5. \A q \in 1 .. Len(run') : Readable(q)' /\ (q < Len(run') => run'[q].status \in Terminal)
  BY <1>3, <1>4 DEF Moved
<1>6. ASSUME NEW q \in 1 .. Len(run'), run'[q].status \in Waiting
      PROVE  q = r
  BY <1>3, <1>4, <1>6 DEF Waiting, Terminal
<1>7. RunsInTurn'
  BY <1>5, <1>6 DEF RunsInTurn, Moved, Readable, ValidState, PendingOf, Offered
<1> QED
  BY <1>2, <1>7

(* What has been selected stays; a run selects at most once, as it ends.      *)
Selects(r) ==
    \/ selected' = selected
    \/ /\ run'[r].status = "concept_selected"
       /\ \E s \in SelectedRow : s.run = r /\ selected' = Append(selected, s)

LEMMA SelectionsUnique ==
    ASSUME CreationInv, NEW r \in Nat, Moved(r), Selects(r)
    PROVE  /\ selected' \in Seq(SelectedRow)
           /\ \A i \in 1 .. Len(selected') :
                 /\ selected'[i].run \in 1 .. Len(run')
                 /\ run'[selected'[i].run].status = "concept_selected"
                 /\ \A j \in 1 .. Len(selected') : selected'[j].run = selected'[i].run => j = i
<1>0. Len(run) \in Nat /\ selected \in Seq(SelectedRow)
  BY DEF CreationInv, CreationTypeOK
<1>1. ASSUME NEW i \in 1 .. Len(selected)
      PROVE  /\ selected[i].run \in 1 .. Len(run) /\ selected[i].run # r
             /\ run'[selected[i].run].status = "concept_selected"
             /\ selected[i].run \in 1 .. Len(run')
             /\ \A j \in 1 .. Len(selected) : selected[j].run = selected[i].run => j = i
  <2>1. /\ selected[i].run \in 1 .. Len(run) /\ run[selected[i].run].status = "concept_selected"
        /\ \A j \in 1 .. Len(selected) : selected[j].run = selected[i].run => j = i
    BY DEF CreationInv, AnswersUnique
  <2>2. selected[i].run # r
    BY <2>1, <1>0 DEF Moved, Terminal
  <2> QED
    BY <2>1, <2>2, <1>0 DEF Moved
<1>2. CASE selected' = selected
  BY <1>0, <1>1, <1>2
<1>3. CASE selected' # selected
  <2>1. PICK s \in SelectedRow : s.run = r /\ selected' = Append(selected, s)
    BY <1>3 DEF Selects
  <2>2. /\ selected' \in Seq(SelectedRow) /\ Len(selected') = Len(selected) + 1
        /\ \A i \in 1 .. Len(selected) : selected'[i] = selected[i]
        /\ selected'[Len(selected) + 1].run = r /\ Len(selected) \in Nat
    BY <1>0, <2>1, AppendProperties
  <2>3. \A i \in 1 .. Len(selected') : i \in 1 .. Len(selected) \/ i = Len(selected) + 1
    BY <2>2
  <2>4. r \in 1 .. Len(run') /\ run'[r].status = "concept_selected"
    BY <1>3 DEF Selects, Moved
  <2> QED
    BY <1>1, <2>2, <2>3, <2>4
<1> QED
  BY <1>2, <1>3

(* A run that stops to wait, or waits at a gate without agents, needs nothing *)
(* of the concepts.                                                         *)
LEMMA ConceptsLeft ==
    ASSUME CreationInv, NEW r \in Nat, Moved(r), Selects(r), UNCHANGED concept,
           \A a \in 1 .. Len(action') : a > Len(action) => action'[a].kind = "legacy",
           \A a \in 1 .. Len(action) : action[a].status = "revised" => action'[a].status = "revised",
           run'[r].status \in Waiting => action'[run'[r].gate].kind = "legacy"
    PROVE  CreationInv'
<1>0. /\ Len(action) \in Nat /\ Len(action') \in Nat
      /\ \A a \in 1 .. Len(action') : a \in 1 .. Len(action) \/ a > Len(action)
      /\ \A a \in 1 .. Len(action) : a \in 1 .. Len(action')
  BY DEF CreationInv, CreationTypeOK, Moved
<1>1. CreationTypeOK'
  BY SelectionsUnique DEF CreationInv, CreationTypeOK, Moved
<1>2. RowsHaveRuns' /\ RunsInTurn'
  BY RunsMove
<1>3. AnswersUnique'
  BY <1>0, SelectionsUnique DEF CreationInv, AnswersUnique
<1>4. GatesReviewed'
  BY <1>0 DEF CreationInv, GatesReviewed, GateKind, Moved
<1>5. GatesLatest'
  <2>1. ASSUME NEW q \in 1 .. Len(run'), run'[q].status \in Waiting
        PROVE  q = r
    BY <2>1, <1>2 DEF RunsInTurn, Moved, Waiting, Terminal
  <2> QED
    BY <2>1 DEF GatesLatest
<1> QED
  BY <1>1, <1>2, <1>3, <1>4, <1>5 DEF CreationInv

(* The rows of a run that has moved, as most actions leave them: one entry of *)
(* each sequence replaced, or one row added.                                *)
LEMMA RunReplaced ==
    ASSUME CreationInv, NEW r \in 1 .. Len(run), run[r].status \notin Terminal,
           NEW s \in RunRow, run' = [run EXCEPT ![r] = s]
    PROVE  /\ r \in Nat /\ r = Len(run) /\ run' \in Seq(RunRow) /\ Len(run') = r /\ r \in 1 .. r
           /\ run'[r] = s
           /\ \A q \in 1 .. Len(run) : q # r => run'[q] = run[q] /\ run[q].status \in Terminal
<1>1. run \in Seq(RunRow) /\ Len(run) \in Nat
  BY DEF CreationInv, CreationTypeOK
<1>2. /\ run' \in Seq(RunRow) /\ Len(run') = Len(run)
      /\ \A q \in 1 .. Len(run) : run'[q] = IF q = r THEN s ELSE run[q]
  BY <1>1, ExceptSeq
<1>3. r = Len(run)
  BY OpenGate
<1>4. \A q \in 1 .. Len(run) : q # r => run[q].status \in Terminal
  BY <1>1, <1>3 DEF CreationInv, RunsInTurn
<1> QED
  BY <1>1, <1>2, <1>3, <1>4

LEMMA ActionReplaced ==
    ASSUME CreationInv, NEW a \in 1 .. Len(action), NEW decision \in Decisions
    PROVE  LET rest == [action EXCEPT ![a].status = decision] IN
           /\ rest \in Seq(ActionRow) /\ Len(rest) = Len(action) /\ Len(action) \in Nat
           /\ \A b \in 1 .. Len(action) :
                 /\ rest[b].run = action[b].run /\ rest[b].kind = action[b].kind
                 /\ rest[b].version = action[b].version
                 /\ rest[b].status = IF b = a THEN decision ELSE action[b].status
<1> DEFINE row == [action[a] EXCEPT !.status = decision]
           rest == [action EXCEPT ![a].status = decision]
<1>1. action \in Seq(ActionRow) /\ Len(action) \in Nat /\ action[a] \in ActionRow
  BY DEF CreationInv, CreationTypeOK
<1>2. /\ row \in ActionRow /\ row.run = action[a].run /\ row.kind = action[a].kind
      /\ row.version = action[a].version /\ row.status = decision
  BY <1>1 DEF ActionRow
<1>3. rest = [action EXCEPT ![a] = row]
  OBVIOUS
<1> HIDE DEF row
<1>4. /\ [action EXCEPT ![a] = row] \in Seq(ActionRow) /\ Len([action EXCEPT ![a] = row]) = Len(action)
      /\ \A b \in 1 .. Len(action) : [action EXCEPT ![a] = row][b] = IF b = a THEN row ELSE action[b]
  BY <1>1, <1>2, ExceptSeq
<1> HIDE DEF rest
<1>5. /\ rest \in Seq(ActionRow) /\ Len(rest) = Len(action) /\ Len(action) \in Nat
      /\ \A b \in 1 .. Len(action) :
            /\ rest[b].run = action[b].run /\ rest[b].kind = action[b].kind
            /\ rest[b].version = action[b].version
            /\ rest[b].status = IF b = a THEN decision ELSE action[b].status
  BY <1>1, <1>2, <1>3, <1>4
<1> QED
  BY <1>5 DEF rest

LEMMA SelectPreserves ==
    ASSUME CreationInv, NEW a \in 1 .. Len(action), NEW how, Select(a, how)
    PROVE  CreationInv'
<1>0. PICK r \in 1 .. Len(run) : r = action[a].run
  BY DEF CreationInv, RowsHaveRuns
<1> DEFINE s == [status |-> "concept_selected", gate |-> None]
           choice == [run |-> r, from |-> IF how = "select" THEN action[a].version ELSE None]
<1>1. /\ r \in 1 .. Len(run) /\ run[r].status \in Waiting /\ run[r].gate = a
      /\ action[a].status = "pending" /\ PendingOf(r) = {a} /\ run[r].status \notin Terminal
  BY <1>0, AnswerableGate DEF Select, Waiting, Terminal
<1>2. s \in RunRow
  BY DEF RunRow, Statuses, Terminal, Number
<1>3. /\ action' = [action EXCEPT ![a].status = "approved"]
      /\ run' = [run EXCEPT ![r] = s] /\ selected' = Append(selected, choice)
      /\ UNCHANGED <<concept, worker>>
  BY <1>0 DEF Select, Transition
<1>4. choice \in SelectedRow
  <2>1. action[a] \in ActionRow /\ r \in Nat
    BY DEF CreationInv, CreationTypeOK
  <2> QED
    BY <2>1 DEF SelectedRow, ActionRow
<1>5. /\ r \in Nat /\ r = Len(run) /\ run' \in Seq(RunRow) /\ Len(run') = r /\ r \in 1 .. r
      /\ run'[r] = s
      /\ \A q \in 1 .. Len(run) : q # r => run'[q] = run[q] /\ run[q].status \in Terminal
  BY <1>1, <1>2, <1>3, RunReplaced
<1>6. /\ action' \in Seq(ActionRow) /\ Len(action') = Len(action) /\ Len(action) \in Nat
      /\ \A b \in 1 .. Len(action) :
            /\ action'[b].run = action[b].run /\ action'[b].kind = action[b].kind
            /\ action'[b].version = action[b].version
            /\ action'[b].status = IF b = a THEN "approved" ELSE action[b].status
  <2>1. "approved" \in Decisions
    BY DEF Decisions
  <2> QED
    BY <1>3, <2>1, ActionReplaced
<1>7. PendingOf(r)' = {}
  BY <1>0, <1>1, <1>6 DEF PendingOf
<1>8. Readable(r)' /\ run'[r].status \notin Waiting
  BY <1>5, <1>7 DEF Readable, ValidState, Waiting
<1>9. Selects(r)
  BY <1>3, <1>4, <1>5 DEF Selects
<1>10. /\ worker' \in [Workers -> Request]
       /\ \A w \in Workers : worker'[w].step = "regenerate" => worker'[w].gate \in 1 .. Len(action)
  BY <1>3 DEF CreationInv, CreationTypeOK, RowsHaveRuns
<1>11. Moved(r)
  <2>1. \A b \in 1 .. Len(action) : action'[b].status = action[b].status
                                    \/ (action[b].run = r /\ action[b].status = "pending")
    BY <1>0, <1>1, <1>6
  <2>2. Len(action) <= Len(action') /\ \A b \in 1 .. Len(action') : ~(b > Len(action))
    BY <1>6
  <2>3. run'[r].status \notin Waiting
    BY <1>8
  <2> QED
    BY <1>1, <1>5, <1>6, <1>8, <1>10, <2>1, <2>2, <2>3 DEF Moved
<1> QED
  BY <1>1, <1>3, <1>5, <1>6, <1>8, <1>9, <1>11, ConceptsLeft

LEMMA ResolveReviewPreserves ==
    ASSUME CreationInv, NEW a \in 1 .. Len(action), NEW decision \in {"approved", "rejected"},
           ResolveReview(a, decision)
    PROVE  CreationInv'
<1>0. PICK r \in 1 .. Len(run) : r = action[a].run
  BY DEF CreationInv, RowsHaveRuns
<1> DEFINE s == [status |-> IF decision = "approved" THEN "concept_reviewed" ELSE "rejected", gate |-> None]
<1>1. /\ r \in 1 .. Len(run) /\ run[r].status \in Waiting /\ run[r].gate = a
      /\ action[a].status = "pending" /\ PendingOf(r) = {a} /\ run[r].status \notin Terminal
  BY <1>0 DEF ResolveReview, LegacyGate, Readable, Waiting, Terminal
<1>2. s \in RunRow
  BY DEF RunRow, Statuses, Terminal, Number
<1>3. /\ action' = [action EXCEPT ![a].status = decision]
      /\ run' = [run EXCEPT ![r] = s]
      /\ UNCHANGED <<concept, selected, worker>>
  BY <1>0 DEF ResolveReview, Transition
<1>5. /\ r \in Nat /\ r = Len(run) /\ run' \in Seq(RunRow) /\ Len(run') = r /\ r \in 1 .. r
      /\ run'[r] = s
      /\ \A q \in 1 .. Len(run) : q # r => run'[q] = run[q] /\ run[q].status \in Terminal
  BY <1>1, <1>2, <1>3, RunReplaced
<1>6. /\ action' \in Seq(ActionRow) /\ Len(action') = Len(action) /\ Len(action) \in Nat
      /\ \A b \in 1 .. Len(action) :
            /\ action'[b].run = action[b].run /\ action'[b].kind = action[b].kind
            /\ action'[b].version = action[b].version
            /\ action'[b].status = IF b = a THEN decision ELSE action[b].status
  <2>1. decision \in Decisions
    BY DEF Decisions
  <2> QED
    BY <1>3, <2>1, ActionReplaced
<1>7. PendingOf(r)' = {}
  BY <1>0, <1>1, <1>6 DEF PendingOf
<1>8. Readable(r)' /\ run'[r].status \notin Waiting
  BY <1>5, <1>7 DEF Readable, ValidState, Waiting
<1>9. Selects(r)
  BY <1>3 DEF Selects
<1>10. /\ worker' \in [Workers -> Request]
       /\ \A w \in Workers : worker'[w].step = "regenerate" => worker'[w].gate \in 1 .. Len(action)
  BY <1>3 DEF CreationInv, CreationTypeOK, RowsHaveRuns
<1>11. Moved(r)
  <2>1. \A b \in 1 .. Len(action) : action'[b].status = action[b].status
                                    \/ (action[b].run = r /\ action[b].status = "pending")
    BY <1>0, <1>1, <1>6
  <2>2. Len(action) <= Len(action') /\ \A b \in 1 .. Len(action') : ~(b > Len(action))
    BY <1>6
  <2>3. run'[r].status \notin Waiting
    BY <1>8
  <2> QED
    BY <1>1, <1>5, <1>6, <1>8, <1>10, <2>1, <2>2, <2>3 DEF Moved
<1> QED
  BY <1>1, <1>3, <1>5, <1>6, <1>8, <1>9, <1>11, ConceptsLeft

LEMMA CompletePreserves ==
    ASSUME CreationInv, NEW r \in 1 .. Len(run), CompleteLegacy(r)
    PROVE  CreationInv'
<1> DEFINE s == [status |-> "completed", gate |-> None]
<1>1. run[r].status \notin Terminal /\ PendingOf(r) = {}
  BY DEF CompleteLegacy, Readable, Waiting, Terminal
<1>2. s \in RunRow
  BY DEF RunRow, Statuses, Terminal, Number
<1>3. run' = [run EXCEPT ![r] = s] /\ UNCHANGED <<action, concept, selected, worker>>
  BY DEF CompleteLegacy, Transition
<1>5. /\ r \in Nat /\ r = Len(run) /\ run' \in Seq(RunRow) /\ Len(run') = r /\ r \in 1 .. r
      /\ run'[r] = s
      /\ \A q \in 1 .. Len(run) : q # r => run'[q] = run[q] /\ run[q].status \in Terminal
  BY <1>1, <1>2, <1>3, RunReplaced
<1>7. PendingOf(r)' = {}
  BY <1>1, <1>3 DEF PendingOf
<1>8. Readable(r)' /\ run'[r].status \notin Waiting
  BY <1>5, <1>7 DEF Readable, ValidState, Waiting
<1>9. Selects(r)
  BY <1>3 DEF Selects
<1>10. Moved(r)
  BY <1>1, <1>3, <1>5, <1>8 DEF Moved, CreationInv, CreationTypeOK, RowsHaveRuns
<1> QED
  BY <1>3, <1>5, <1>8, <1>9, <1>10, ConceptsLeft DEF CreationInv, CreationTypeOK

LEMMA RequestReviewPreserves ==
    ASSUME CreationInv, NEW r \in 1 .. Len(run), RequestReview(r)
    PROVE  CreationInv'
<1> DEFINE g == Len(action) + 1
           s == [status |-> "concept_options", gate |-> g]
           row == [run |-> r, kind |-> "legacy", status |-> "pending", version |-> None]
<1>1. run[r].status \notin Terminal /\ PendingOf(r) = {}
  BY DEF RequestReview, Readable, Waiting, Terminal
<1>2. action \in Seq(ActionRow) /\ Len(action) \in Nat /\ s \in RunRow /\ row \in ActionRow
  BY DEF RunRow, Statuses, Waiting, Number, ActionRow, Kinds, Decisions, CreationInv, CreationTypeOK
<1>3. /\ action' = Append(action, row) /\ run' = [run EXCEPT ![r] = s]
      /\ UNCHANGED <<concept, selected, worker>>
  BY DEF RequestReview, Transition
<1>5. /\ r \in Nat /\ r = Len(run) /\ run' \in Seq(RunRow) /\ Len(run') = r /\ r \in 1 .. r
      /\ run'[r] = s
      /\ \A q \in 1 .. Len(run) : q # r => run'[q] = run[q] /\ run[q].status \in Terminal
  BY <1>1, <1>2, <1>3, RunReplaced
<1>6. /\ action' \in Seq(ActionRow) /\ Len(action') = g /\ action'[g] = row
      /\ \A b \in 1 .. Len(action) : action'[b] = action[b]
      /\ \A b \in 1 .. Len(action') : b > Len(action) => b = g
  BY <1>2, <1>3, AppendProperties
<1>7. PendingOf(r)' = {g}
  BY <1>1, <1>2, <1>6 DEF PendingOf
<1>8. Readable(r)'
  BY <1>2, <1>5, <1>7, CreationBounds DEF Readable, ValidState, Waiting
<1>9. Selects(r)
  BY <1>3 DEF Selects
<1>10. Moved(r)
  BY <1>1, <1>2, <1>3, <1>5, <1>6, <1>8 DEF Moved, CreationInv, CreationTypeOK, RowsHaveRuns
<1> QED
  BY <1>2, <1>3, <1>5, <1>6, <1>9, <1>10, ConceptsLeft

(* New concepts, staged with their review and the gate for its verdict.      *)
LEMMA ConceptsOffered ==
    ASSUME CreationInv, NEW r \in Nat, Moved(r), UNCHANGED selected,
           NEW v \in VersionRow, concept' = [concept EXCEPT !.versions = Append(@, v)],
           v.run = r, v.verdict \in Verdicts,
           v.gate = None \/ (/\ v.gate \in 1 .. Len(action) /\ action[v.gate].status = "pending"
                             /\ action'[v.gate].status = "revised"),
           NEW g \in Nat, g = Len(action) + 1, Len(action') = g,
           action'[g].version = <<concept.id, Len(concept.versions) + 1>>,
           action'[g].kind = GateKind(v.verdict), run'[r].gate = g
    PROVE  CreationInv'
<1> DEFINE vs == concept.versions
           top == Len(vs) + 1
<1>0. /\ concept' \in [id : Nat, versions : Seq(VersionRow)] /\ concept'.id = concept.id
      /\ Len(concept'.versions) = top /\ Len(vs) \in Nat /\ concept.id \in Nat
      /\ concept'.versions[top] = v
      /\ \A n \in 1 .. Len(vs) : concept'.versions[n] = vs[n]
      /\ \A n \in 1 .. top : n = top \/ n \in 1 .. Len(vs)
  <2>1. concept.id \in Nat
    BY DEF CreationInv, CreationTypeOK
  <2>2. /\ concept' \in [id : Nat, versions : Seq(VersionRow)]
        /\ concept'.id = concept.id /\ Len(concept'.versions) = Len(concept.versions) + 1
        /\ \A n \in 1 .. Len(concept.versions) : concept'.versions[n] = concept.versions[n]
        /\ concept'.versions[Len(concept.versions) + 1] = v
        /\ Len(concept.versions) \in Nat
    BY Appended
  <2>3. \A n \in 1 .. top : n = top \/ n \in 1 .. Len(vs)
    BY <2>2
  <2> QED
    BY <2>1, <2>2, <2>3
<1>1. /\ Len(action) \in Nat
      /\ \A a \in 1 .. Len(action') : a \in 1 .. Len(action) \/ a = g
      /\ \A a \in 1 .. Len(action) : a \in 1 .. Len(action') /\ a # g
  BY DEF CreationInv, CreationTypeOK
<1>2. CreationTypeOK'
  BY <1>0 DEF CreationInv, CreationTypeOK, Moved
<1>3. RowsHaveRuns' /\ RunsInTurn'
  BY RunsMove
<1>4. AnswersUnique'
  <2>1. ASSUME NEW n \in 1 .. Len(vs), vs[n].gate # None
        PROVE  /\ vs[n].gate \in 1 .. Len(action) /\ action[vs[n].gate].status = "revised"
               /\ action'[vs[n].gate].status = "revised" /\ vs[n].gate # v.gate
               /\ \A m \in 1 .. Len(vs) : vs[m].gate = vs[n].gate => m = n
    <3>1. /\ vs[n].gate \in 1 .. Len(action) /\ action[vs[n].gate].status = "revised"
          /\ \A m \in 1 .. Len(vs) : vs[m].gate = vs[n].gate => m = n
      BY <2>1 DEF CreationInv, AnswersUnique
    <3>2. action'[vs[n].gate].status = "revised"
      BY <3>1 DEF Moved
    <3>3. vs[n].gate # v.gate
      BY <2>1, <3>1
    <3> QED
      BY <3>1, <3>2, <3>3
  <2>2. \A n \in 1 .. Len(concept'.versions) :
           LET a == concept'.versions[n].gate
           IN  a # None =>
                  /\ a \in 1 .. Len(action') /\ action'[a].status = "revised"
                  /\ \A m \in 1 .. Len(concept'.versions) : concept'.versions[m].gate = a => m = n
    BY <1>0, <1>1, <2>1
  <2>3. Selects(r)
    BY DEF Selects
  <2> QED
    BY <2>2, <2>3, SelectionsUnique DEF AnswersUnique
<1>5. GatesReviewed'
  <2>1. ASSUME NEW a \in 1 .. Len(action), action[a].kind # "legacy"
        PROVE  LET x == action[a].version
               IN  /\ x \in Nat \X Nat /\ x[1] <= concept.id
                   /\ x[1] = concept.id =>
                         /\ x[2] \in 1 .. Len(vs) /\ vs[x[2]].verdict \in Verdicts
                         /\ action[a].kind = GateKind(vs[x[2]].verdict)
    BY <2>1 DEF CreationInv, GatesReviewed
  <2>2. \A a \in 1 .. Len(action) : action'[a].kind = action[a].kind /\ action'[a].version = action[a].version
    BY DEF Moved
  <2>3. ASSUME NEW a \in 1 .. Len(action), action'[a].kind # "legacy"
        PROVE  LET x == action'[a].version
               IN  /\ x \in Nat \X Nat /\ x[1] <= concept'.id
                   /\ x[1] = concept'.id =>
                         /\ x[2] \in 1 .. Len(concept'.versions)
                         /\ concept'.versions[x[2]].verdict \in Verdicts
                         /\ action'[a].kind = GateKind(concept'.versions[x[2]].verdict)
    BY <1>0, <2>1, <2>2, <2>3 DEF GateKind
  <2>4. LET x == action'[g].version
        IN  /\ x \in Nat \X Nat /\ x[1] = concept'.id /\ x[1] <= concept'.id
            /\ x[2] \in 1 .. Len(concept'.versions)
            /\ concept'.versions[x[2]].verdict \in Verdicts
            /\ action'[g].kind = GateKind(concept'.versions[x[2]].verdict)
    BY <1>0 DEF GateKind
  <2> QED
    BY <1>1, <2>3, <2>4 DEF GatesReviewed, GateKind
<1>6. GatesLatest'
  <2>1. ASSUME NEW q \in 1 .. Len(run'), run'[q].status \in Waiting
        PROVE  q = r
    <3>1. Len(run') = r
      BY DEF Moved
    <3>2. q < Len(run') => run'[q].status \in Terminal
      BY <1>3 DEF RunsInTurn
    <3>3. ~(q < Len(run'))
      BY <2>1, <3>2 DEF Waiting, Terminal
    <3> QED
      BY <3>1, <3>3
  <2>2. action'[g].version[1] = concept'.id /\ \A n \in 1 .. Len(concept'.versions) : n <= action'[g].version[2]
    BY <1>0
  <2> QED
    BY <2>1, <2>2 DEF GatesLatest
<1> QED
  BY <1>2, <1>3, <1>4, <1>5, <1>6 DEF CreationInv

(* A new run is the newest, and all the others have ended.                  *)
LEMMA RunAdded ==
    ASSUME CreationInv, MayStart, NEW s \in RunRow, run' = Append(run, s), NEW r \in Nat, r = Len(run) + 1
    PROVE  /\ run' \in Seq(RunRow) /\ Len(run') = r /\ r \in 1 .. r /\ run'[r] = s /\ r # Len(run)
           /\ \A q \in 1 .. Len(run) : q # r /\ run'[q] = run[q] /\ run[q].status \in Terminal
           /\ PendingOf(r) = {} /\ \A a \in 1 .. Len(action) : action[a].run # r
<1>1. run \in Seq(RunRow) /\ Len(run) \in Nat /\ DOMAIN action = 1 .. Len(action)
  BY DEF CreationInv, CreationTypeOK
<1>2. /\ run' \in Seq(RunRow) /\ Len(run') = r /\ run'[r] = s
      /\ \A q \in 1 .. Len(run) : run'[q] = run[q]
  BY <1>1, AppendProperties
<1>3. \A a \in 1 .. Len(action) : action[a].run \in 1 .. Len(run)
  BY DEF CreationInv, RowsHaveRuns
<1>4. \A a \in 1 .. Len(action) : action[a].run # r
  BY <1>1, <1>3
<1>5. PendingOf(r) = {}
  BY <1>1, <1>4 DEF PendingOf
<1> QED
  BY <1>1, <1>2, <1>4, <1>5, NothingOpen

LEMMA StartLegacyPreserves ==
    ASSUME CreationInv, StartLegacy
    PROVE  CreationInv'
<1> DEFINE s == [status |-> "user_idea", gate |-> None]
<1>0. PICK r \in Nat : r = Len(run) + 1
  BY DEF CreationInv, CreationTypeOK
<1>1. s \in RunRow
  BY DEF RunRow, Statuses, Number
<1>2. run' = Append(run, s) /\ UNCHANGED <<action, concept, selected, worker>> /\ MayStart
  BY DEF StartLegacy
<1>3. /\ run' \in Seq(RunRow) /\ Len(run') = r /\ r \in 1 .. r /\ run'[r] = s /\ r # Len(run)
      /\ \A q \in 1 .. Len(run) : q # r /\ run'[q] = run[q] /\ run[q].status \in Terminal
      /\ PendingOf(r) = {}
  BY <1>0, <1>1, <1>2, RunAdded
<1>4. PendingOf(r)' = {}
  BY <1>2, <1>3 DEF PendingOf
<1>5. Readable(r)' /\ run'[r].status \notin Waiting
  BY <1>3, <1>4 DEF Readable, ValidState, Waiting
<1>6. Selects(r)
  BY <1>2 DEF Selects
<1>7. Moved(r)
  BY <1>0, <1>2, <1>3, <1>5 DEF Moved, CreationInv, CreationTypeOK, RowsHaveRuns
<1> QED
  <2>1. Len(action) \in Nat /\ action' = action
    BY <1>2 DEF CreationInv, CreationTypeOK
  <2>2. \A a \in 1 .. Len(action') : ~(a > Len(action))
    BY <2>1
  <2> QED
    BY <1>2, <1>5, <1>6, <1>7, <2>1, <2>2, ConceptsLeft

(* The gate that a review opens.                                            *)
LEMMA GateFits ==
    ASSUME CreationInv, NEW r \in Nat, NEW verdict \in Verdicts, NEW v \in Nat \X Nat
    PROVE  LET gate == NewGate(r, verdict, v)
           IN  /\ gate \in ActionRow /\ gate.run = r /\ gate.kind = GateKind(verdict)
               /\ gate.status = "pending" /\ gate.version = v
               /\ StateAt(gate) \in RunRow /\ StateAt(gate).status \in Waiting
               /\ StateAt(gate).gate = Len(action) + 1
               /\ gate.kind = Offered(StateAt(gate).status)
<1>1. Len(action) + 1 \in Nat
  BY DEF CreationInv, CreationTypeOK
<1> QED
  BY <1>1 DEF NewGate, GateKind, StateAt, ActionRow, RunRow, Kinds, Decisions, Statuses, Waiting, Number, Offered

LEMMA StartPreserves ==
    ASSUME CreationInv, NEW w \in Workers, NEW verdict \in Verdicts, Start(w, verdict)
    PROVE  CreationInv'
<1>0. PICK r \in Nat, g \in Nat : r = Len(run) + 1 /\ g = Len(action) + 1
  BY DEF CreationInv, CreationTypeOK
<1> DEFINE version == <<concept.id, Len(concept.versions) + 1>>
           gate == NewGate(r, verdict, version)
           s == StateAt(gate)
           v == [run |-> r, gate |-> None, verdict |-> verdict, saved |-> FALSE]
           next == [step |-> "files", version |-> version]
<1>1. version \in Nat \X Nat /\ action \in Seq(ActionRow) /\ Len(action) \in Nat
  BY DEF CreationInv, CreationTypeOK
<1>2. /\ gate \in ActionRow /\ gate.run = r /\ gate.kind = GateKind(verdict) /\ gate.status = "pending"
      /\ gate.version = version /\ gate.kind = Offered(s.status)
      /\ s \in RunRow /\ s.status \in Waiting /\ s.gate = g
  BY <1>0, <1>1, GateFits
<1>3. v \in VersionRow /\ v.run = r /\ v.gate = None /\ v.verdict = verdict
  BY DEF VersionRow, Number
<1>4. next \in Request /\ next.step # "regenerate"
  BY <1>1 DEF Request
<1>5. /\ MayStart /\ action' = Append(action, gate) /\ run' = Append(run, s)
      /\ concept' = [concept EXCEPT !.versions = Append(@, v)]
      /\ worker' = [worker EXCEPT ![w] = next] /\ selected' = selected
  BY <1>0 DEF Start, Latest, NewVersion, Go
<1> HIDE DEF gate, s, v, next
<1>6. /\ run' \in Seq(RunRow) /\ Len(run') = r /\ r \in 1 .. r /\ run'[r] = s /\ r # Len(run)
      /\ \A q \in 1 .. Len(run) : q # r /\ run'[q] = run[q] /\ run[q].status \in Terminal
      /\ PendingOf(r) = {}
  BY <1>0, <1>2, <1>5, RunAdded
<1>7. /\ action' \in Seq(ActionRow) /\ Len(action') = g /\ action'[g] = gate
      /\ \A a \in 1 .. Len(action) : action'[a] = action[a]
      /\ \A a \in 1 .. Len(action') : a > Len(action) => a = g
      /\ Len(action) <= Len(action') /\ g \in 1 .. Len(action')
  BY <1>0, <1>1, <1>2, <1>5, AppendProperties
<1>8. PendingOf(r)' = {g}
  <2>1. DOMAIN action = 1 .. Len(action) /\ DOMAIN action' = 1 .. Len(action')
    BY <1>1, <1>7
  <2>2. \A a \in 1 .. Len(action') : a \in 1 .. Len(action) \/ a = g
    BY <1>1, <1>7
  <2>3. g \in PendingOf(r)'
    BY <1>2, <1>7, <2>1 DEF PendingOf
  <2>4. \A a \in PendingOf(r)' : a = g
    BY <1>6, <1>7, <2>1, <2>2 DEF PendingOf
  <2> QED
    BY <2>3, <2>4
<1>9. Readable(r)'
  BY <1>0, <1>2, <1>6, <1>8, CreationBounds DEF Readable, ValidState
<1>10. /\ worker' \in [Workers -> Request]
       /\ \A u \in Workers : worker'[u].step = "regenerate" => worker'[u].gate \in 1 .. Len(action)
  BY <1>4, <1>5, WorkersStay
<1>11. Moved(r)
  BY <1>0, <1>2, <1>6, <1>7, <1>9, <1>10 DEF Moved
<1>12. /\ action'[g].version = <<concept.id, Len(concept.versions) + 1>>
       /\ action'[g].kind = GateKind(v.verdict) /\ run'[r].gate = g
  BY <1>2, <1>3, <1>6, <1>7
<1>13. UNCHANGED selected /\ v.verdict \in Verdicts
  BY <1>3, <1>5
<1> HIDE DEF version
<1> QED
  BY <1>0, <1>3, <1>5, <1>7, <1>11, <1>12, <1>13, ConceptsOffered

LEMMA RegeneratePreserves ==
    ASSUME CreationInv, NEW w \in Workers, NEW verdict \in Verdicts, Regenerate(w, verdict)
    PROVE  CreationInv'
<1>0. PICK a \in 1 .. Len(action) : a = worker[w].gate
  BY DEF CreationInv, RowsHaveRuns, Regenerate, At
<1>1. PICK r \in 1 .. Len(run), g \in Nat : r = action[a].run /\ g = Len(action) + 1
  BY DEF CreationInv, CreationTypeOK, RowsHaveRuns
<1> DEFINE version == <<concept.id, Len(concept.versions) + 1>>
           gate == NewGate(r, verdict, version)
           s == StateAt(gate)
           v == [run |-> r, gate |-> a, verdict |-> verdict, saved |-> FALSE]
           next == [step |-> "files", version |-> version]
           rest == [action EXCEPT ![a].status = "revised"]
<1>2. /\ version \in Nat \X Nat /\ action \in Seq(ActionRow) /\ Len(action) \in Nat /\ r \in Nat
      /\ Len(action) + 1 \in Nat
  BY DEF CreationInv, CreationTypeOK
<1>3. /\ run[r].status \in Waiting /\ run[r].status \notin Terminal /\ run[r].gate = a
      /\ action[a].status = "pending" /\ PendingOf(r) = {a}
  BY <1>0, <1>1, AnswerableGate DEF Regenerate, StillOpen, Waiting, Terminal
<1>4. /\ gate \in ActionRow /\ gate.run = r /\ gate.kind = GateKind(verdict) /\ gate.status = "pending"
      /\ gate.version = version /\ gate.kind = Offered(s.status)
      /\ s \in RunRow /\ s.status \in Waiting /\ s.gate = g
  BY <1>1, <1>2, GateFits
<1>5. v \in VersionRow /\ v.run = r /\ v.gate = a /\ v.verdict = verdict
  BY <1>2 DEF VersionRow, Number
<1>6. next \in Request /\ next.step # "regenerate"
  BY <1>2 DEF Request
<1>7. /\ action' = Append(rest, gate) /\ run' = [run EXCEPT ![r] = s]
      /\ concept' = [concept EXCEPT !.versions = Append(@, v)]
      /\ worker' = [worker EXCEPT ![w] = next] /\ selected' = selected
  BY <1>0, <1>1 DEF Regenerate, Latest, NewVersion, Go, Transition
<1>8. /\ rest \in Seq(ActionRow) /\ Len(rest) = Len(action)
      /\ \A b \in 1 .. Len(action) :
            /\ rest[b].run = action[b].run /\ rest[b].kind = action[b].kind
            /\ rest[b].version = action[b].version
            /\ rest[b].status = IF b = a THEN "revised" ELSE action[b].status
  <2>1. "revised" \in Decisions
    BY DEF Decisions
  <2> QED
    BY <2>1, ActionReplaced
<1> HIDE DEF gate, s, v, next, rest
<1>9. /\ run' \in Seq(RunRow) /\ Len(run') = r /\ r \in 1 .. r /\ run'[r] = s /\ r = Len(run)
      /\ \A q \in 1 .. Len(run) : q # r => run'[q] = run[q] /\ run[q].status \in Terminal
  BY <1>3, <1>4, <1>7, RunReplaced
<1>10. /\ action' \in Seq(ActionRow) /\ Len(action') = g /\ action'[g] = gate
       /\ \A b \in 1 .. Len(action) : action'[b] = rest[b]
       /\ \A b \in 1 .. Len(action') : b > Len(action) => b = g
       /\ Len(action) <= Len(action') /\ g \in 1 .. Len(action')
  BY <1>1, <1>2, <1>4, <1>7, <1>8, AppendProperties
<1>11. PendingOf(r)' = {g}
  <2>1. DOMAIN action = 1 .. Len(action) /\ DOMAIN action' = 1 .. Len(action')
    BY <1>2, <1>10
  <2>2. \A b \in 1 .. Len(action') : b \in 1 .. Len(action) \/ b = g
    BY <1>2, <1>10
  <2>3. g \in PendingOf(r)'
    BY <1>4, <1>10, <2>1 DEF PendingOf
  <2>4. ASSUME NEW b \in PendingOf(r)', b # g
        PROVE  FALSE
    <3>1. b \in 1 .. Len(action) /\ rest[b].run = r /\ rest[b].status = "pending"
      BY <2>1, <2>2, <2>4, <1>10 DEF PendingOf
    <3>2. b # a /\ action[b].run = r /\ action[b].status = "pending"
      BY <3>1, <1>8
    <3>3. b \in PendingOf(r)
      BY <3>1, <3>2, <2>1 DEF PendingOf
    <3> QED
      BY <3>2, <3>3, <1>3
  <2> QED
    BY <2>3, <2>4
<1>12. Readable(r)'
  BY <1>1, <1>4, <1>9, <1>11, CreationBounds DEF Readable, ValidState
<1>13. /\ worker' \in [Workers -> Request]
       /\ \A u \in Workers : worker'[u].step = "regenerate" => worker'[u].gate \in 1 .. Len(action)
  BY <1>6, <1>7, WorkersStay
<1>14. Moved(r)
  <2>1. \A b \in 1 .. Len(action) :
           /\ action'[b].run = action[b].run /\ action'[b].kind = action[b].kind
           /\ action'[b].version = action[b].version
           /\ action'[b].status = action[b].status \/ (action[b].run = r /\ action[b].status = "pending")
    BY <1>1, <1>3, <1>8, <1>10
  <2> QED
    BY <1>2, <1>3, <1>4, <1>9, <1>10, <1>12, <1>13, <2>1 DEF Moved
<1>15. action'[a].status = "revised"
  BY <1>8, <1>10
<1>16. /\ action'[g].version = <<concept.id, Len(concept.versions) + 1>>
       /\ action'[g].kind = GateKind(v.verdict) /\ run'[r].gate = g
  BY <1>4, <1>5, <1>9, <1>10
<1>17. UNCHANGED selected /\ v.verdict \in Verdicts
  BY <1>5, <1>7
<1>18. v.gate \in 1 .. Len(action) /\ action[v.gate].status = "pending" /\ action'[v.gate].status = "revised"
  BY <1>3, <1>5, <1>15
<1> HIDE DEF version
<1> QED
  BY <1>1, <1>2, <1>5, <1>7, <1>10, <1>14, <1>16, <1>17, <1>18, ConceptsOffered

-----------------------------------------------------------------------------
(* The theorems.                                                            *)

LEMMA CreationStep ==
    ASSUME CreationInv, [CreationNext]_creationVars
    PROVE  CreationInv'
<1>1. CASE \E w \in Workers :
             \/ BeginStart(w) \/ StartRefused(w) \/ RegenerateRefused(w) \/ Crash(w)
             \/ \E a \in DOMAIN action : BeginRegenerate(w, a)
  BY <1>1, RequestSteps
<1>2. CASE \E w \in Workers : WriteFiles(w) \/ \E verdict \in Verdicts : Start(w, verdict) \/ Regenerate(w, verdict)
  BY <1>2, FilesWritten, StartPreserves, RegeneratePreserves
<1>3. DOMAIN action = 1 .. Len(action) /\ DOMAIN run = 1 .. Len(run)
  BY DEF CreationInv, CreationTypeOK
<1>4. CASE \E a \in DOMAIN action, how \in {"select", "fuse"} : Select(a, how)
  BY <1>3, <1>4, SelectPreserves
<1>5. CASE StartLegacy \/ \E r \in DOMAIN run : PersistConcepts(r) \/ RequestReview(r) \/ CompleteLegacy(r)
  BY <1>3, <1>5, StartLegacyPreserves, ConceptsPersisted, RequestReviewPreserves, CompletePreserves
<1>6. CASE \E a \in DOMAIN action, decision \in {"approved", "rejected"} : ResolveReview(a, decision)
  BY <1>3, <1>6, ResolveReviewPreserves
<1>7. CASE EditConcept \/ DeleteConcept
  BY <1>7, ConceptEdited, ConceptDeleted
<1>8. CASE UNCHANGED creationVars
  <2>1. UNCHANGED rows /\ worker' = worker
    BY <1>8 DEF creationVars
  <2> QED
    BY <2>1, RowsUnchanged DEF CreationInv, CreationTypeOK, RowsHaveRuns
<1> QED
  BY <1>1, <1>2, <1>4, <1>5, <1>6, <1>7, <1>8 DEF CreationNext

LEMMA CreationStarts ==
    ASSUME CreationInit
    PROVE  CreationInv
<1>1. run = <<>> /\ action = <<>> /\ selected = <<>> /\ concept = [id |-> 1, versions |-> <<>>]
      /\ worker = [w \in Workers |-> Idle]
  BY DEF CreationInit
<1>2. CreationTypeOK /\ RowsHaveRuns
  BY <1>1 DEF CreationTypeOK, RowsHaveRuns, Request, Idle
<1>3. RunsInTurn /\ AnswersUnique /\ GatesReviewed /\ GatesLatest
  BY <1>1 DEF RunsInTurn, AnswersUnique, GatesReviewed, GatesLatest
<1> QED
  BY <1>2, <1>3 DEF CreationInv

(* The strengthened invariant: only the newest run is open, its one pending   *)
(* row is its gate, and what a gate names was reviewed.                     *)
THEOREM CreationInvariant == CreationSpec => []CreationInv
<1>1. CreationInit => CreationInv
  BY CreationStarts
<1>2. CreationInv /\ [CreationNext]_creationVars => CreationInv'
  BY CreationStep
<1> QED
  BY <1>1, <1>2, PTL DEF CreationSpec

(* Requests that race to start, to answer a gate or to select leave one open   *)
(* run, one answer to each gate and one selection of each run.              *)
THEOREM CreationIsOneStory == CreationSpec => []OneStory
<1>1. CreationInv => OneStory
  <2> SUFFICES ASSUME CreationInv PROVE OneStory
    OBVIOUS
  <2> DEFINE open == {r \in DOMAIN run : run[r].status \notin Terminal}
             answers(a) == {n \in DOMAIN concept.versions : concept.versions[n].gate = a}
  <2>1. /\ DOMAIN run = 1 .. Len(run) /\ DOMAIN action = 1 .. Len(action)
        /\ DOMAIN selected = 1 .. Len(selected)
        /\ DOMAIN concept.versions = 1 .. Len(concept.versions) /\ Len(action) \in Nat
    BY DEF CreationInv, CreationTypeOK
  <2>2. Cardinality(open) <= 1
    <3>1. open \subseteq {Len(run)}
      BY <2>1, OpenGate
    <3>2. open = {} \/ open = {Len(run)}
      BY <3>1
    <3> HIDE DEF open
    <3>3. CASE open = {}
      BY <3>3, FS_EmptySet
    <3>4. CASE open = {Len(run)}
      <4>1. Cardinality({Len(run)}) = 1
        BY FS_Singleton
      <4> QED
        BY <3>4, <4>1
    <3> QED
      BY <3>2, <3>3, <3>4
  <2>3. \A r \in DOMAIN run : Readable(r)
    BY <2>1 DEF CreationInv, RunsInTurn
  <2>4. ASSUME NEW a \in DOMAIN action
        PROVE  Cardinality(answers(a)) <= 1
    <3>1. a # None
      BY <2>1, CreationBounds
    <3>2. \A n, m \in answers(a) : m = n
      BY <2>1, <3>1 DEF CreationInv, AnswersUnique
    <3>3. CASE answers(a) = {}
      BY <3>3, FS_EmptySet
    <3>4. CASE answers(a) # {}
      <4>1. PICK n : n \in answers(a)
        BY <3>4
      <4>2. answers(a) = {n}
        BY <4>1, <3>2
      <4>3. Cardinality({n}) = 1
        BY FS_Singleton
      <4> QED
        BY <4>2, <4>3
    <3> QED
      BY <3>3, <3>4
  <2>5. \A i, j \in DOMAIN selected : selected[i].run = selected[j].run => i = j
    BY <2>1 DEF CreationInv, AnswersUnique
  <2> QED
    BY <2>2, <2>3, <2>4, <2>5 DEF OneStory
<1> QED
  BY <1>1, CreationInvariant, PTL

(* Where the author leaves the concepts alone and their files are written,    *)
(* the open run is shown and its gate can be answered.                      *)
THEOREM OpenGatesAreAnswerable == CreationSpec => []OpenGateAnswerable
<1>1. CreationInv => OpenGateAnswerable
  <2> SUFFICES ASSUME CreationInv, NEW r \in DOMAIN run, run[r].gate # None, Latest > 0,
                      action[run[r].gate].kind # "legacy", concept.versions[Latest].run = r,
                      concept.versions[Latest].saved
               PROVE  CanShow(r) /\ CanAnswer(run[r].gate)
    BY DEF OpenGateAnswerable
  <2> DEFINE a == run[r].gate
             v == action[a].version
  <2>1. r \in 1 .. Len(run) /\ Latest \in Nat
    BY DEF CreationInv, CreationTypeOK, Latest
  <2>2. /\ Readable(r) /\ run[r].status \in Waiting /\ a \in 1 .. Len(action)
        /\ action[a].kind = Offered(run[r].status)
    BY <2>1 DEF CreationInv, RunsInTurn, Readable, ValidState
  <2>3. action[a].run = r
    BY <2>2 DEF Readable, PendingOf
  <2>4. Latest \in 1 .. Len(concept.versions)
    BY <2>1 DEF Latest
  <2>5. v[1] = concept.id /\ Latest <= v[2]
    BY <2>1, <2>2, <2>4 DEF CreationInv, GatesLatest
  <2>6. v \in Nat \X Nat /\ v[2] \in 1 .. Len(concept.versions)
    BY <2>2, <2>5 DEF CreationInv, GatesReviewed
  <2>7. v = Current
    BY <2>1, <2>5, <2>6 DEF Current, Latest
  <2>8. Bound(a)
    BY <2>3, <2>7 DEF Bound
  <2>9. Offered(run[r].status) \in {"select", "regenerate"}
    BY DEF Offered
  <2> QED
    BY <2>2, <2>3, <2>8, <2>9 DEF CanShow, CanAnswer
<1> QED
  BY <1>1, CreationInvariant, PTL

(* The author selects from the current concepts, made by this run, that no    *)
(* review has blocked.                                                      *)
THEOREM SelectionsAreReviewed == CreationSpec => SelectedIsReviewed
<1> DEFINE Choice ==
      \A n \in DOMAIN selected' \ DOMAIN selected :
          LET s == selected'[n]
          IN  /\ Latest > 0 /\ concept.versions[Latest].run = s.run
              /\ concept.versions[Latest].verdict \in {"clean", "warning"}
              /\ s.from \in {None, Current}
<1>1. CreationInv /\ [CreationNext]_creationVars => [Choice]_creationVars
  <2> SUFFICES ASSUME CreationInv, [CreationNext]_creationVars
               PROVE  Choice
    OBVIOUS
  <2>1. CASE selected' = selected
    BY <2>1
  <2>2. ASSUME NEW a \in DOMAIN action, NEW how \in {"select", "fuse"}, Select(a, how)
        PROVE  Choice
    <3> DEFINE s == [run |-> action[a].run, from |-> IF how = "select" THEN action[a].version ELSE None]
    <3>1. a \in 1 .. Len(action) /\ action[a].kind = "select" /\ CanAnswer(a) /\ selected' = Append(selected, s)
      BY <2>2 DEF Select, CreationInv, CreationTypeOK
    <3>2. Bound(a)
      BY <3>1 DEF CanAnswer
    <3>3. concept.versions[Latest].verdict \in {"clean", "warning"}
      <4>1. action[a].version[1] = concept.id /\ action[a].version[2] = Latest
        BY <3>2 DEF Bound, Current
      <4>2. concept.versions[Latest].verdict \in Verdicts /\ GateKind(concept.versions[Latest].verdict) = "select"
        BY <3>1, <4>1 DEF CreationInv, GatesReviewed
      <4> QED
        BY <4>2 DEF GateKind, Verdicts
    <3>4. s \in SelectedRow /\ selected \in Seq(SelectedRow)
      <4>1. action[a] \in ActionRow
        BY <3>1 DEF CreationInv, CreationTypeOK
      <4> QED
        BY <4>1 DEF SelectedRow, ActionRow, CreationInv, CreationTypeOK
    <3>5. /\ selected' \in Seq(SelectedRow) /\ Len(selected') = Len(selected) + 1
          /\ selected'[Len(selected) + 1] = s
      BY <3>1, <3>4, AppendProperties
    <3>6. \A n \in DOMAIN selected' \ DOMAIN selected : selected'[n] = s
      BY <3>4, <3>5
    <3>7. s.from \in {None, Current}
      BY <3>2 DEF Bound
    <3> QED
      BY <3>2, <3>3, <3>6, <3>7 DEF Bound
  <2>3. selected' = selected \/ \E a \in DOMAIN action, how \in {"select", "fuse"} : Select(a, how)
    BY DEF CreationNext, BeginStart, StartRefused, RegenerateRefused, WriteFiles, Crash, Start, Regenerate,
       BeginRegenerate, StartLegacy, PersistConcepts, RequestReview, CompleteLegacy, ResolveReview,
       EditConcept, DeleteConcept, creationVars, rows
  <2> QED
    BY <2>1, <2>2, <2>3
<1> QED
  BY <1>1, CreationInvariant, PTL DEF CreationSpec, SelectedIsReviewed
=============================================================================
