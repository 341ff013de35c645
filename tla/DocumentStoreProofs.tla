-------------------------- MODULE DocumentStoreProofs --------------------------
(***************************************************************************)
(* One document for any number of requests and versions, whatever fails.    *)
(* The row lock makes each version the child of the last one, so no accepted *)
(* write replaces another one's.  The snapshots follow: whoever commits a    *)
(* direct version has its text in the snapshot path, or an undo took it, so  *)
(* the readable versions are the texts of the rows and only grow.           *)
(***************************************************************************)
EXTENDS DocumentStore, SequenceTheorems, TLAPS

Locked == {"file", "snapshot", "flush", "commit"}
Undoing == {"undo snapshot", "undo file"}
Late == {"late file", "late snapshot"}

Row == [text : Text, base : 0 .. MaxVersion - 1, restores : 0 .. MaxVersion, mode : {"direct", "staged"}]

Step == {"idle", "waiting"} \cup Locked \cup Undoing \cup Late
Request == [step : Step, base : 0 .. MaxVersion, row : Row \cup {None},
            old : Text \cup {None}, oldSnap : Text \cup {None}]

StoreTypeOK ==
    /\ current \in 0 .. MaxVersion
    /\ rows \in [Version -> Row \cup {None}]
    /\ lock \in Writers \cup {None}
    /\ file \in Text \cup {None}
    /\ snap \in [Version -> Text \cup {None}]
    /\ issued \in 0 .. MaxText
    /\ overtaken \subseteq Version
    /\ writer \in [Writers -> Request]
    /\ \A w \in Writers : writer[w].step \in Locked \cup Undoing \cup Late => writer[w].row \in Row

(* Whoever has staged a version holds the document row until it commits or   *)
(* rolls back, and its version is the next one as long as it does.           *)
LockHeld ==
    \A w \in Writers : writer[w].step \in Locked => lock = w /\ writer[w].row.base = current

(* A request that undoes has written its files before the commit, one that   *)
(* is late has committed its row, and rows stay as they were committed.      *)
RowsCommitted ==
    /\ \A n \in 1 .. current : rows[n] \in Row
    /\ \A w \in Writers :
          /\ writer[w].step \in {"file", "snapshot", "flush"} \cup Undoing => writer[w].row.mode = "direct"
          /\ writer[w].step \in Late =>
                writer[w].row.mode = "staged" /\ Number(w) <= current /\ rows[Number(w)] = writer[w].row

(* The snapshot of a direct version is its text, from before the commit.     *)
SnapshotsKept ==
    /\ \A n \in 1 .. current :
          rows[n].mode = "direct" /\ n \notin overtaken => snap[n] = rows[n].text
    /\ \A w \in Writers :
          At(w, "flush") \/ (At(w, "commit") /\ writer[w].row.mode = "direct") =>
              Number(w) \in overtaken \/ snap[Number(w)] = writer[w].row.text

StoreInv ==
    /\ StoreTypeOK
    /\ LockHeld
    /\ RowsCommitted
    /\ SnapshotsKept

-----------------------------------------------------------------------------
(* The store begins empty.                                                   *)
LEMMA StoreInitially == Init => StoreInv
<1> SUFFICES ASSUME Init
             PROVE  StoreInv
  OBVIOUS
<1> USE StoreBounds
<1>1. current \in 0 .. MaxVersion /\ issued \in 0 .. MaxText
  BY DEF Init, MaxText
<1>2. rows \in [Version -> Row \cup {None}] /\ snap \in [Version -> Text \cup {None}]
  BY DEF Init
<1>3. lock \in Writers \cup {None} /\ file \in Text \cup {None} /\ overtaken \subseteq Version
  BY DEF Init
<1>4. Idle \in Request
  BY DEF Idle, Request, Step
<1>5. \A w \in Writers : writer[w].step = "idle"
  BY DEF Init, Idle
<1>6. StoreTypeOK
  BY <1>1, <1>2, <1>3, <1>4, <1>5 DEF Init, StoreTypeOK, Locked, Undoing, Late
<1>7. LockHeld
  BY <1>5 DEF LockHeld, Locked
<1>8. RowsCommitted
  <2>1. \A n \in 1 .. current : FALSE
    BY DEF Init
  <2> QED
    BY <1>5, <2>1 DEF RowsCommitted, Undoing, Late
<1>9. SnapshotsKept
  BY <1>5 DEF SnapshotsKept, At, Init
<1> QED
  BY <1>6, <1>7, <1>8, <1>9 DEF StoreInv

(* Where a request goes, and what it takes along.                            *)
LEMMA RequestTyping ==
    ASSUME StoreTypeOK, NEW w \in Writers
    PROVE  /\ writer[w] \in Request
           /\ Idle \in Request
           /\ Return(w) => writer' \in [Writers -> Request] /\ writer'[w] = Idle
           /\ \A s \in Step : Go(w, s) =>
                 /\ writer' \in [Writers -> Request]
                 /\ writer'[w].step = s /\ writer'[w].row = writer[w].row
                 /\ writer'[w].old = writer[w].old /\ writer'[w].oldSnap = writer[w].oldSnap
           /\ \A v \in Writers \ {w} : Return(w) \/ (\E s \in Step : Go(w, s)) => writer'[v] = writer[v]
           /\ writer[w].step \in Locked \cup Undoing \cup Late =>
                 Number(w) \in Version /\ writer[w].row.text \in Text
<1>1. writer[w] \in Request /\ Idle \in Request
  BY StoreBounds DEF StoreTypeOK, Request, Step, Idle
<1>2. ASSUME NEW s \in Step, Go(w, s)
      PROVE  /\ writer' \in [Writers -> Request]
             /\ writer'[w].step = s /\ writer'[w].row = writer[w].row
             /\ writer'[w].old = writer[w].old /\ writer'[w].oldSnap = writer[w].oldSnap
  <2>1. [writer[w] EXCEPT !.step = s] \in Request
    BY <1>1 DEF Request
  <2> QED
    BY <1>1, <1>2, <2>1 DEF Go, StoreTypeOK, Request
<1>3. writer[w].step \in Locked \cup Undoing \cup Late =>
          Number(w) \in Version /\ writer[w].row.text \in Text
  BY StoreBounds DEF StoreTypeOK, Number, Row, Version
<1> QED
  BY <1>1, <1>2, <1>3 DEF Return, Go, StoreTypeOK

(* Every step keeps the types.                                               *)
LEMMA StoreTyping ==
    ASSUME StoreTypeOK, [Next]_storeVars
    PROVE  StoreTypeOK'
<1> DEFINE Placed(w) == writer[w].step \in Locked \cup Undoing \cup Late => writer[w].row \in Row
<1>0. \A w \in Writers : writer[w] \in Request
  BY DEF StoreTypeOK
<1>1. CASE UNCHANGED storeVars
  BY <1>1 DEF storeVars, StoreTypeOK
<1>2. ASSUME NEW w \in Writers, Open(w) \/ Conflict(w)
      PROVE  StoreTypeOK'
  <2>1. writer' \in [Writers -> Request] /\ writer'[w].step \in {"idle", "waiting"}
    <3>1. CASE Open(w)
      <4>1. [writer[w] EXCEPT !.step = "waiting", !.base = current] \in Request
        BY <1>0 DEF Request, Step, StoreTypeOK
      <4> QED
        BY <3>1, <4>1 DEF Open, StoreTypeOK, Request
    <3>2. CASE Conflict(w)
      BY <3>2, RequestTyping DEF Conflict, Idle
    <3> QED
      BY <1>2, <3>1, <3>2
  <2>2. \A v \in Writers \ {w} : writer'[v] = writer[v]
    BY <1>2 DEF Open, Conflict, Return, StoreTypeOK
  <2> QED
    BY <1>2, <2>1, <2>2 DEF Open, Conflict, StoreTypeOK, Locked, Undoing, Late
<1>3. ASSUME NEW w \in Writers, NEW text \in Text, NEW n \in 0 .. MaxVersion,
             NEW mode \in {"direct", "staged"}, Stage(w, text, n, mode), issued' \in 0 .. MaxText
      PROVE  StoreTypeOK'
  <2> DEFINE new == [text |-> text, base |-> writer[w].base, restores |-> n, mode |-> mode]
             to == IF mode = "direct" THEN "file" ELSE "commit"
  <2>1. new \in Row
    BY <1>3, StoreBounds DEF Stage, ExpectedCurrent, Row, StoreTypeOK
  <2>2. to \in Step
    BY DEF Step, Locked
  <2>3. [writer[w] EXCEPT !.step = to, !.row = new] \in Request
    BY <1>0, <2>1, <2>2 DEF Request
  <2>4. writer' = [writer EXCEPT ![w] = [writer[w] EXCEPT !.step = to, !.row = new]]
    BY <1>3 DEF Stage, StoreTypeOK
  <2> HIDE DEF new, to
  <2>5. /\ writer' \in [Writers -> Request]
        /\ \A v \in Writers \ {w} : writer'[v] = writer[v]
        /\ writer'[w].row = new
    BY <2>3, <2>4, RequestTyping DEF StoreTypeOK, Request
  <2> QED
    BY <1>3, <2>1, <2>5 DEF Stage, StoreTypeOK
<1>4. ASSUME NEW w \in Writers, NEW mode \in Modes, StageWrite(w, mode)
      PROVE  StoreTypeOK'
  <2>1. issued + 1 \in Text /\ issued + 1 \in 0 .. MaxText /\ 0 \in 0 .. MaxVersion
    BY <1>4, StoreBounds DEF StageWrite, MaxText, Text, StoreTypeOK
  <2> QED
    BY <1>3, <1>4, <2>1, StoreBounds DEF StageWrite
<1>5. ASSUME NEW w \in Writers, NEW n \in Version, StageRestore(w, n)
      PROVE  StoreTypeOK'
  BY <1>3, <1>5 DEF StageRestore, StoreTypeOK, Version
<1>6. ASSUME NEW w \in Writers, WriteFile(w) \/ WriteSnapshot(w)
      PROVE  StoreTypeOK'
  <2>1. [writer[w] EXCEPT !.step = "snapshot", !.old = file] \in Request
    BY <1>0 DEF Request, Step, Locked, StoreTypeOK
  <2>2. writer[w].step \in Locked
    BY <1>6 DEF WriteFile, WriteSnapshot, At, Locked
  <2>3. Number(w) \in Version /\ writer[w].row.text \in Text
    BY <2>2, RequestTyping
  <2>4. [writer[w] EXCEPT !.step = "flush", !.oldSnap = snap[Number(w)]] \in Request
    BY <1>0, <2>3 DEF Request, Step, Locked, StoreTypeOK
  <2>5. /\ writer' \in [Writers -> Request]
        /\ \A v \in Writers \ {w} : writer'[v] = writer[v]
        /\ writer'[w].row = writer[w].row
    <3>1. CASE WriteFile(w)
      BY <1>0, <2>1, <3>1 DEF WriteFile, StoreTypeOK, Request
    <3>2. CASE WriteSnapshot(w)
      BY <1>0, <2>4, <3>2 DEF WriteSnapshot, StoreTypeOK, Request
    <3> QED
      BY <1>6, <3>1, <3>2
  <2> QED
    BY <1>6, <2>2, <2>3, <2>5 DEF WriteFile, WriteSnapshot, StoreTypeOK
<1>7. ASSUME NEW w \in Writers, NEW s \in Step, Return(w) \/ Go(w, s),
             writer[w].step \in Locked \cup Undoing \cup Late,
             rows' \in [Version -> Row \cup {None}], current' \in 0 .. MaxVersion,
             lock' \in {lock, None}, file' \in Text \cup {None},
             snap' \in [Version -> Text \cup {None}],
             issued' = issued, overtaken' \subseteq Version
      PROVE  StoreTypeOK'
  <2>1. /\ writer' \in [Writers -> Request]
        /\ \A v \in Writers \ {w} : writer'[v] = writer[v]
        /\ writer'[w].row = writer[w].row \/ writer'[w].step = "idle"
    BY <1>7, RequestTyping DEF Idle
  <2> QED
    BY <1>7, <2>1 DEF StoreTypeOK, Locked, Undoing, Late
<1> USE DEF Step, Locked, Undoing, Late
<1>8. ASSUME NEW w \in Writers, LateFile(w) \/ LateSnapshot(w)
      PROVE  StoreTypeOK'
  <2>1. writer[w].step \in Late
    BY <1>8 DEF LateFile, LateSnapshot, At
  <2>2. Number(w) \in Version /\ writer[w].row.text \in Text
    BY <2>1, RequestTyping
  <2> QED
    BY <1>7, <1>8, <2>1, <2>2 DEF LateFile, LateSnapshot, StoreTypeOK
<1>9. ASSUME NEW w \in Writers, UndoSnapshot(w) \/ UndoFile(w)
      PROVE  StoreTypeOK'
  <2>1. writer[w].old \in Text \cup {None} /\ writer[w].oldSnap \in Text \cup {None}
    BY <1>0 DEF Request
  <2>2. writer[w].step \in Undoing
    BY <1>9 DEF UndoSnapshot, UndoFile, At
  <2>3. Number(w) \in Version
    BY <2>2, RequestTyping
  <2> QED
    BY <1>7, <1>9, <2>1, <2>2, <2>3 DEF UndoSnapshot, UndoFile, StoreTypeOK
<1>10. ASSUME NEW w \in Writers, Commit(w)
       PROVE  StoreTypeOK'
  <2>1. writer[w].step \in Locked
    BY <1>10 DEF Commit, At
  <2>2. Number(w) \in Version
    BY <2>1, RequestTyping
  <2>3. Number(w) \in 0 .. MaxVersion
    BY <2>2, StoreBounds DEF Version
  <2>4. writer[w].row \in Row
    BY <2>1 DEF StoreTypeOK
  <2> QED
    BY <1>7, <1>10, <2>1, <2>2, <2>3, <2>4 DEF Commit, StoreTypeOK
<1>11. ASSUME NEW w \in Writers, Flush(w) \/ Abort(w) \/ CommitLost(w)
       PROVE  StoreTypeOK'
  BY <1>7, <1>11 DEF Flush, Abort, CommitLost, At, StoreTypeOK
<1>12. ASSUME NEW w \in Writers, Crash(w)
       PROVE  StoreTypeOK'
  <2>1. /\ writer' \in [Writers -> Request] /\ writer'[w] = Idle
        /\ \A v \in Writers \ {w} : writer'[v] = writer[v]
    BY <1>12, RequestTyping DEF Crash
  <2>2. lock' \in Writers \cup {None}
    BY <1>12 DEF Crash, Free, StoreTypeOK
  <2>3. writer'[w].step = "idle"
    BY <2>1 DEF Idle
  <2> QED
    BY <1>12, <2>1, <2>2, <2>3 DEF Crash, StoreTypeOK
<1> QED
  BY <1>1, <1>2, <1>4, <1>5, <1>6, <1>8, <1>9, <1>10, <1>11, <1>12 DEF Next

-----------------------------------------------------------------------------
(* The invariant, step by step of a request, given where the step leaves it: *)
(* whoever holds the row is alone in front of its version, and the snapshot  *)
(* of a version that is not committed is nobody's but its holder's.          *)
LEMMA StoreStep ==
    ASSUME StoreInv, [Next]_storeVars
    PROVE  StoreInv'
<1> USE DEF Locked, Undoing, Late, Number
<1>0. StoreTypeOK' /\ StoreTypeOK
  BY StoreTyping DEF StoreInv
<1>bound. current \in Nat /\ MaxVersion \in Nat /\ current <= MaxVersion
  <2>1. current \in 0 .. MaxVersion
    BY <1>0 DEF StoreTypeOK
  <2> QED
    BY <2>1, StoreBounds
<1>versions. \A n \in 1 .. current : n \in Version /\ n # current + 1
  BY <1>bound DEF Version
<1>bases. \A n \in 0 .. MaxVersion - 1 : n \in Nat
  BY <1>bound
<1>placed. \A w \in Writers : writer[w].step \in Locked \cup Undoing \cup Late =>
               writer[w].row \in Row /\ writer[w].row.base \in Nat /\ Number(w) \in Version
  <2> SUFFICES ASSUME NEW w \in Writers, writer[w].step \in Locked \cup Undoing \cup Late
               PROVE  writer[w].row \in Row /\ writer[w].row.base \in Nat /\ Number(w) \in Version
    OBVIOUS
  <2>1. writer[w].row \in Row
    BY <1>0 DEF StoreTypeOK
  <2>2. writer[w].row.base \in 0 .. MaxVersion - 1
    BY <2>1 DEF Row
  <2>3. writer[w].row.base \in Nat
    BY <1>bases, <2>2
  <2>4. Number(w) \in Version
    BY <1>0, RequestTyping
  <2> QED
    BY <2>1, <2>3, <2>4
<1>1. CASE UNCHANGED storeVars
  BY <1>0, <1>1 DEF storeVars, StoreInv, LockHeld, RowsCommitted, SnapshotsKept, At
<1>2. ASSUME NEW w \in Writers, Return(w) \/ Open(w), UNCHANGED <<current, rows, snap, overtaken>>,
             \A v \in Writers \ {w} : writer[v].step \in Locked => lock' = lock
      PROVE  StoreInv'
  <2>1. \A v \in Writers :
           \/ v = w /\ writer'[v].step \in {"idle", "waiting"}
           \/ v # w /\ writer'[v] = writer[v]
    <3>1. CASE Return(w)
      BY <1>0, <3>1 DEF Return, Idle, StoreTypeOK
    <3>2. CASE Open(w)
      BY <1>0, <3>2 DEF Open, StoreTypeOK, Request
    <3> QED
      BY <1>2, <3>1, <3>2
  <2>2. LockHeld'
    BY <1>2, <2>1 DEF StoreInv, LockHeld
  <2>3. RowsCommitted'
    BY <1>2, <2>1 DEF StoreInv, RowsCommitted
  <2>4. SnapshotsKept'
    BY <1>2, <2>1 DEF StoreInv, SnapshotsKept, At
  <2> QED
    BY <1>0, <2>2, <2>3, <2>4 DEF StoreInv
<1>3. ASSUME NEW w \in Writers, Open(w) \/ Conflict(w) \/ CommitLost(w) \/ Crash(w) \/ UndoFile(w)
                                \/ (At(w, "file") /\ Abort(w))
      PROVE  StoreInv'
  <2>1. Return(w) \/ Open(w)
    BY <1>3 DEF Conflict, CommitLost, Crash, UndoFile, Abort, At
  <2>2. UNCHANGED <<current, rows, snap, overtaken>>
    BY <1>3 DEF Open, Conflict, CommitLost, Crash, UndoFile, Abort
  <2>3. \A v \in Writers \ {w} : writer[v].step \in Locked => lock' = lock
    BY <1>3 DEF Open, Conflict, CommitLost, Crash, UndoFile, Abort, At, Free, StoreInv, LockHeld
  <2> QED
    BY <1>2, <2>1, <2>2, <2>3
<1>4. ASSUME NEW w \in Writers, NEW text, NEW n, NEW mode \in {"direct", "staged"}, Stage(w, text, n, mode)
      PROVE  StoreInv'
  <2>1. \A v \in Writers : writer[v].step \notin Locked
    BY <1>4, StoreBounds DEF Stage, StoreInv, LockHeld
  <2>2. \A v \in Writers \ {w} : writer'[v] = writer[v]
    BY <1>0, <1>4 DEF Stage, StoreTypeOK
  <2>3. /\ writer'[w].step = IF mode = "direct" THEN "file" ELSE "commit"
        /\ writer'[w].row.mode = mode /\ writer'[w].row.base = current
    BY <1>0, <1>4 DEF Stage, StoreTypeOK, Request, ExpectedCurrent
  <2>4. LockHeld'
    BY <1>4, <2>1, <2>2, <2>3 DEF Stage, LockHeld
  <2>5. UNCHANGED <<current, rows, snap, overtaken>>
    BY <1>4 DEF Stage
  <2>6. RowsCommitted'
    BY <2>2, <2>3, <2>5 DEF StoreInv, RowsCommitted
  <2>7. SnapshotsKept'
    BY <2>1, <2>2, <2>3, <2>5 DEF StoreInv, SnapshotsKept, At
  <2> QED
    BY <1>0, <2>4, <2>6, <2>7 DEF StoreInv
<1>5. ASSUME NEW w \in Writers,
             (\E mode \in Modes : StageWrite(w, mode)) \/ (\E n \in Version : StageRestore(w, n))
      PROVE  StoreInv'
  BY <1>4, <1>5, StoreBounds DEF StageWrite, StageRestore
<1>6. ASSUME NEW w \in Writers, WriteFile(w) \/ WriteSnapshot(w) \/ Flush(w)
      PROVE  StoreInv'
  <2>1. /\ writer[w].step \in Locked /\ lock = w /\ lock' = w
        /\ Number(w) = current + 1 /\ writer[w].row.base = current /\ Number(w) \in Version
        /\ writer[w].row.mode = "direct" 
    BY <1>6, <1>placed DEF WriteFile, WriteSnapshot, Flush, At, StoreInv, LockHeld, RowsCommitted
  <2>2. /\ \A v \in Writers \ {w} : writer'[v] = writer[v]
        /\ writer'[w].row = writer[w].row
        /\ writer'[w].step \in {"snapshot", "flush", "commit"}
    <3>1. CASE WriteFile(w)
      BY <1>0, <3>1 DEF WriteFile, StoreTypeOK, Request
    <3>2. CASE WriteSnapshot(w)
      BY <1>0, <3>2 DEF WriteSnapshot, StoreTypeOK, Request
    <3>3. CASE Flush(w)
      BY <1>0, <3>3 DEF Flush, Go, StoreTypeOK, Request
    <3> QED
      BY <1>6, <3>1, <3>2, <3>3
  <2>3. UNCHANGED <<current, rows>>
    BY <1>6 DEF WriteFile, WriteSnapshot, Flush
  <2>4. LockHeld'
    BY <2>1, <2>2, <2>3 DEF StoreInv, LockHeld
  <2>5. RowsCommitted'
    BY <2>1, <2>2, <2>3 DEF StoreInv, RowsCommitted
  <2>6. \A n \in 1 .. current : snap'[n] = snap[n] /\ (n \in overtaken' <=> n \in overtaken)
    <3>1. CASE WriteSnapshot(w)
      <4>1. \A n \in 1 .. current : n \in Version /\ n # Number(w)
        BY <1>versions, <2>1
      <4> QED
        BY <1>0, <3>1, <4>1 DEF WriteSnapshot, StoreTypeOK
    <3> QED
      BY <1>6, <3>1 DEF WriteFile, Flush
  <2>7. \A v \in Writers \ {w} : writer[v].step \notin Locked
    BY <2>1 DEF StoreInv, LockHeld
  <2>8. At(w, "flush")' \/ At(w, "commit")' => snap'[Number(w)] = writer[w].row.text
                                              \/ (Number(w) \in overtaken' )
    <3>1. CASE WriteFile(w)
      BY <1>0, <3>1 DEF WriteFile, At, StoreTypeOK, Request
    <3>2. CASE WriteSnapshot(w)
      BY <1>0, <2>1, <3>2 DEF WriteSnapshot, StoreTypeOK
    <3>3. CASE Flush(w)
      BY <3>3 DEF Flush, StoreInv, SnapshotsKept, At
    <3> QED
      BY <1>6, <3>1, <3>2, <3>3
  <2>9. SnapshotsKept'
    BY <2>2, <2>3, <2>6, <2>7, <2>8 DEF StoreInv, SnapshotsKept, At
  <2> QED
    BY <1>0, <2>4, <2>5, <2>9 DEF StoreInv
<1>7. ASSUME NEW w \in Writers, Abort(w), ~At(w, "file")
      PROVE  StoreInv'
  <2>1. /\ writer[w].step \in {"snapshot", "flush"} /\ lock = w /\ writer[w].row.mode = "direct"
        /\ \A v \in Writers \ {w} : writer[v].step \notin Locked
    BY <1>7 DEF Abort, At, StoreInv, LockHeld, RowsCommitted
  <2>2. /\ \A v \in Writers \ {w} : writer'[v] = writer[v]
        /\ writer'[w].row = writer[w].row /\ writer'[w].step \in Undoing
    <3>1. PICK s \in Undoing : Go(w, s)
      BY <1>7, <2>1 DEF Abort, At
    <3> QED
      BY <1>0, <3>1 DEF Go, StoreTypeOK, Request
  <2>3. UNCHANGED <<current, rows, snap, overtaken>>
    BY <1>7 DEF Abort
  <2>4. LockHeld'
    BY <2>1, <2>2 DEF LockHeld
  <2>5. RowsCommitted'
    BY <2>1, <2>2, <2>3 DEF StoreInv, RowsCommitted
  <2>6. SnapshotsKept'
    BY <2>1, <2>2, <2>3 DEF StoreInv, SnapshotsKept, At
  <2> QED
    BY <1>0, <2>4, <2>5, <2>6 DEF StoreInv
<1>8. ASSUME NEW w \in Writers, UndoSnapshot(w)
      PROVE  StoreInv'
  <2>1. /\ writer[w].step \in Undoing /\ writer[w].row.mode = "direct" /\ Number(w) \in Version
    BY <1>8, <1>placed DEF UndoSnapshot, At, StoreInv, RowsCommitted
  <2>2. /\ \A v \in Writers \ {w} : writer'[v] = writer[v]
        /\ writer'[w].row = writer[w].row /\ writer'[w].step \in Undoing
    BY <1>0, <1>8 DEF UndoSnapshot, At, Go, StoreTypeOK, Request
  <2>3. UNCHANGED <<current, rows, lock>>
    BY <1>8 DEF UndoSnapshot
  <2>4. LockHeld'
    BY <2>1, <2>2, <2>3 DEF StoreInv, LockHeld
  <2>5. RowsCommitted'
    BY <2>1, <2>2, <2>3 DEF StoreInv, RowsCommitted
  <2>6. \A n \in Version : n # Number(w) => snap'[n] = snap[n]
    BY <1>0, <1>8, <2>1 DEF UndoSnapshot, StoreTypeOK
  <2>7. /\ \A n \in Version : n # Number(w) => (n \in overtaken' <=> n \in overtaken)
        /\ Number(w) <= current \/ lock # None => Number(w) \in overtaken'
    BY <1>8 DEF UndoSnapshot
  <2>8. \A n \in 1 .. current : rows'[n].mode = "direct" /\ n \notin overtaken' => snap'[n] = rows'[n].text
    <3> SUFFICES ASSUME NEW n \in 1 .. current, rows[n].mode = "direct", n \notin overtaken'
                 PROVE  snap'[n] = rows[n].text
      BY <2>3
    <3>1. n \in Version
      BY <1>versions
    <3>2. writer[w].row.base \in Nat
      BY <1>placed, <2>1
    <3>3. n # Number(w)
      BY <1>bound, <2>7, <3>2
    <3> QED
      BY <2>6, <2>7, <3>1, <3>3 DEF StoreInv, SnapshotsKept
  <2>9. \A v \in Writers : writer[v].step \in Locked => lock # None /\ Number(v) \in Version
    BY <1>placed, StoreBounds DEF StoreInv, LockHeld
  <2>10. \A v \in Writers :
          At(v, "flush") \/ (At(v, "commit") /\ writer[v].row.mode = "direct") =>
              Number(v) \in overtaken' \/ snap'[Number(v)] = writer[v].row.text
    BY <2>6, <2>7, <2>9 DEF StoreInv, SnapshotsKept, At
  <2>11. SnapshotsKept'
    BY <2>2, <2>3, <2>8, <2>10 DEF SnapshotsKept, At
  <2> QED
    BY <1>0, <2>4, <2>5, <2>11 DEF StoreInv
<1>9. ASSUME NEW w \in Writers, Commit(w)
      PROVE  StoreInv'
  <2>row. writer[w].row \in Row /\ writer[w].row.base \in Nat /\ writer[w].row.base = current /\ lock = w
    BY <1>9, <1>placed DEF Commit, At, StoreInv, LockHeld
  <2>next. current' = current + 1
    BY <1>9, <2>row DEF Commit
  <2>free. current + 1 \in Version
    BY <1>9, <1>placed, <2>row DEF Commit, At
  <2>1. \A v \in Writers \ {w} : writer[v].step \notin Locked
    BY <2>row DEF StoreInv, LockHeld
  <2>2. /\ \A v \in Writers \ {w} : writer'[v] = writer[v]
        /\ \/ writer'[w].step = "idle"
           \/ /\ writer'[w].step = "late file" /\ writer'[w].row = writer[w].row
              /\ writer[w].row.mode = "staged"
    <3>1. writer[w].row.mode \in {"direct", "staged"}
      BY <2>row DEF Row
    <3>2. CASE writer[w].row.mode = "direct"
      <4>1. writer' = [writer EXCEPT ![w] = Idle]
        BY <1>9, <2>row, <3>2 DEF Commit, Return
      <4> QED
        BY <1>0, <4>1 DEF Idle, StoreTypeOK
    <3>3. CASE writer[w].row.mode # "direct"
      <4>1. writer' = [writer EXCEPT ![w].step = "late file"]
        BY <1>9, <2>row, <3>3 DEF Commit, Go
      <4>2. writer \in [Writers -> Request]
        BY <1>0 DEF StoreTypeOK
      <4>3. /\ \A v \in Writers \ {w} : writer'[v] = writer[v]
            /\ writer'[w].step = "late file" /\ writer'[w].row = writer[w].row
        BY <4>1, <4>2 DEF Request
      <4> QED
        BY <3>1, <3>3, <4>3
    <3> QED
      BY <3>2, <3>3
  <2>3. /\ rows'[current + 1] = writer[w].row
        /\ \A n \in Version : n # current + 1 => rows'[n] = rows[n]
    <3>1. rows' = [rows EXCEPT ![current + 1] = writer[w].row]
      BY <1>9, <2>row DEF Commit
    <3> QED
      BY <1>0, <2>free, <3>1 DEF StoreTypeOK
  <2>4. UNCHANGED <<snap, overtaken>>
    BY <1>9 DEF Commit
  <2>5. LockHeld'
    BY <2>1, <2>2 DEF LockHeld
  <2>6. \A n \in 1 .. current' : n \in Version /\ (n = current + 1 \/ n \in 1 .. current)
    BY <1>bound, <2>next, <2>free DEF Version
  <2>7. \A n \in 1 .. current' : rows'[n] \in Row
    BY <2>row, <2>3, <2>6 DEF StoreInv, RowsCommitted
  <2>8. \A v \in Writers \ {w} : writer[v].step \in Late => Number(v) <= current /\ Number(v) \in Version
    BY <1>placed DEF StoreInv, RowsCommitted
  <2>9. RowsCommitted'
    <3>1. \A v \in Writers \ {w} : writer'[v].step \in {"file", "snapshot", "flush"} \cup Undoing =>
              writer'[v].row.mode = "direct"
      BY <2>2 DEF StoreInv, RowsCommitted
    <3>2. \A v \in Writers \ {w} : writer'[v].step \in Late =>
              /\ writer'[v].row.mode = "staged" /\ Number(v)' <= current'
              /\ rows'[Number(v)'] = writer'[v].row
      <4> HIDE DEF Late
      <4> SUFFICES ASSUME NEW v \in Writers \ {w}, writer'[v].step \in Late
                   PROVE  /\ writer'[v].row.mode = "staged" /\ Number(v)' <= current'
                          /\ rows'[Number(v)'] = writer'[v].row
        OBVIOUS
      <4>1. writer'[v] = writer[v]
        BY <2>2
      <4>2. writer[v].row.base \in Nat
        BY <1>placed, <4>1
      <4>3. Number(v) \in Version /\ Number(v) <= current
        BY <2>8, <4>1
      <4>4. Number(v) # current + 1 /\ Number(v) <= current'
        BY <1>bound, <2>next, <4>2, <4>3
      <4>5. writer[v].row.mode = "staged" /\ rows[Number(v)] = writer[v].row
        BY <4>1 DEF StoreInv, RowsCommitted, Late
      <4>6. rows'[Number(v)] = rows[Number(v)]
        BY <2>3, <4>2, <4>3, <4>4
      <4> QED
        BY <4>1, <4>2, <4>4, <4>5, <4>6
    <3>3. writer'[w].step \in Late =>
              /\ writer'[w].row.mode = "staged" /\ Number(w)' <= current'
              /\ rows'[Number(w)'] = writer'[w].row
      <4> HIDE DEF Late
      <4> SUFFICES ASSUME writer'[w].step \in Late
                   PROVE  /\ writer'[w].row.mode = "staged" /\ Number(w)' <= current'
                          /\ rows'[Number(w)'] = writer'[w].row
        OBVIOUS
      <4>1. writer'[w].row = writer[w].row /\ writer[w].row.mode = "staged"
        BY <2>2 DEF Late
      <4>2. writer'[w].row.base \in Nat /\ writer'[w].row.base = current
        BY <2>row, <4>1
      <4> QED
        <5>1. writer'[w].row.base + 1 = current + 1 /\ current + 1 <= current'
          BY <1>bound, <2>next, <4>2
        <5> QED
          BY <2>3, <4>1, <5>1
    <3> QED
      BY <2>2, <2>7, <3>1, <3>2, <3>3 DEF RowsCommitted
  <2>10. writer[w].row.mode = "direct" /\ current + 1 \notin overtaken => snap[current + 1] = writer[w].row.text
    BY <1>9, <2>row DEF Commit, StoreInv, SnapshotsKept
  <2>11. \A n \in 1 .. current' : rows'[n].mode = "direct" /\ n \notin overtaken => snap[n] = rows'[n].text
    BY <2>3, <2>6, <2>10 DEF StoreInv, SnapshotsKept
  <2>12. \A v \in Writers : ~At(v, "flush")' /\ ~At(v, "commit")'
    BY <2>1, <2>2 DEF At
  <2>13. SnapshotsKept'
    BY <2>4, <2>11, <2>12 DEF SnapshotsKept
  <2> QED
    BY <1>0, <2>5, <2>9, <2>13 DEF StoreInv
<1>10. ASSUME NEW w \in Writers, LateFile(w)
       PROVE  StoreInv'
  <2>1. /\ \A v \in Writers \ {w} : writer'[v] = writer[v]
        /\ writer'[w].row = writer[w].row
        /\ writer[w].step \in Late /\ writer'[w].step = "late snapshot"
    BY <1>0, <1>10 DEF LateFile, Go, At, StoreTypeOK, Request
  <2>2. UNCHANGED <<current, rows, lock, snap, overtaken>>
    BY <1>10 DEF LateFile
  <2>3. LockHeld'
    BY <2>1, <2>2 DEF StoreInv, LockHeld
  <2>4. RowsCommitted'
    BY <2>1, <2>2 DEF StoreInv, RowsCommitted
  <2>5. SnapshotsKept'
    BY <2>1, <2>2 DEF StoreInv, SnapshotsKept, At
  <2> QED
    BY <1>0, <2>3, <2>4, <2>5 DEF StoreInv
<1>11. ASSUME NEW w \in Writers, LateSnapshot(w)
       PROVE  StoreInv'
  <2>1. /\ \A v \in Writers \ {w} : writer'[v] = writer[v]
        /\ writer'[w].step = "idle"
        /\ Number(w) \in Version /\ Number(w) <= current /\ rows[Number(w)] = writer[w].row
    BY <1>0, <1>11, <1>placed DEF LateSnapshot, Return, Idle, At, StoreTypeOK, StoreInv, RowsCommitted
  <2>2. UNCHANGED <<current, rows, lock>>
    BY <1>11 DEF LateSnapshot
  <2>3. LockHeld'
    BY <2>1, <2>2 DEF StoreInv, LockHeld
  <2>4. RowsCommitted'
    BY <2>1, <2>2 DEF StoreInv, RowsCommitted
  <2>5. /\ snap'[Number(w)] = rows[Number(w)].text
        /\ \A n \in Version : n # Number(w) => snap'[n] = snap[n] /\ (n \in overtaken' <=> n \in overtaken)
    BY <1>0, <1>11, <2>1 DEF LateSnapshot, StoreTypeOK
  <2>6. \A v \in Writers : writer[v].step \in Locked => Number(v) # Number(w) /\ Number(v) \in Version
    <3> SUFFICES ASSUME NEW v \in Writers, writer[v].step \in Locked
                 PROVE  Number(v) # Number(w) /\ Number(v) \in Version
      OBVIOUS
    <3>1. writer[w].row.base \in Nat /\ writer[v].row.base = current /\ Number(v) \in Version
      BY <1>placed, <1>11 DEF LateSnapshot, At, StoreInv, LockHeld
    <3> QED
      BY <1>bound, <2>1, <3>1
  <2>7. SnapshotsKept'
    BY <1>versions, <2>1, <2>2, <2>5, <2>6 DEF StoreInv, SnapshotsKept, At
  <2> QED
    BY <1>0, <2>3, <2>4, <2>7 DEF StoreInv
<1> QED
  BY <1>1, <1>3, <1>5, <1>6, <1>7, <1>8, <1>9, <1>10, <1>11 DEF Next

(* The inductive invariant of the store: types, the lock, the rows that are  *)
(* committed and the snapshots, for any number of requests.                  *)
THEOREM StoreInvariant == Spec => []StoreInv
<1>1. Init => StoreInv
  BY StoreInitially
<1>2. StoreInv /\ [Next]_storeVars => StoreInv'
  BY StoreStep
<1> QED
  BY <1>1, <1>2, PTL DEF Spec

-----------------------------------------------------------------------------
(* Only a commit changes the rows: it adds the next one.                      *)
LEMMA RowsGrow ==
    ASSUME StoreInv, [Next]_storeVars
    PROVE  \/ UNCHANGED <<current, rows>>
           \/ /\ current' = current + 1
              /\ rows'[current + 1] \in Row /\ rows'[current + 1].base = current
              /\ \A n \in 1 .. current : rows'[n] = rows[n]
<1>1. CASE \E w \in Writers : Commit(w)
  <2>1. PICK w \in Writers : Commit(w)
    BY <1>1
  <2>2. writer[w].row \in Row /\ writer[w].row.base = current
    BY <2>1 DEF Commit, At, StoreInv, StoreTypeOK, LockHeld, Locked
  <2>3. current \in 0 .. MaxVersion /\ rows \in [Version -> Row \cup {None}]
    BY DEF StoreInv, StoreTypeOK
  <2>4. current + 1 \in Version
    BY <2>1, <2>2, StoreBounds, RequestTyping DEF Commit, At, StoreInv, Locked, Number
  <2>5. current' = current + 1 /\ rows' = [rows EXCEPT ![current + 1] = writer[w].row]
    BY <2>1, <2>2 DEF Commit, Number
  <2>6. \A n \in 1 .. current : n \in Version /\ n # current + 1
    BY <2>3, StoreBounds DEF Version
  <2> QED
    BY <2>2, <2>3, <2>4, <2>5, <2>6
<1>2. CASE ~\E w \in Writers : Commit(w)
  BY <1>2 DEF Next, storeVars, Open, Conflict, StageWrite, StageRestore, Stage, WriteFile, WriteSnapshot,
     Flush, Abort, UndoSnapshot, UndoFile, CommitLost, LateFile, LateSnapshot, Crash
<1> QED
  BY <1>1, <1>2

(* No accepted write replaces another one's: whichever requests write, die,  *)
(* lose their commit or undo, a version is the next one and was written on   *)
(* the version before it.                                                    *)
THEOREM NoUpdateIsLost == Spec => NoLostUpdate
<1>1. StoreInv /\ [Next]_storeVars =>
          (<<current', rows'>> # <<current, rows>> =>
              current' = current + 1 /\ rows'[current'].base = current)
  BY RowsGrow
<1>2. StoreInv /\ [Next]_storeVars =>
          [<<current', rows'>> # <<current, rows>> =>
              current' = current + 1 /\ rows'[current'].base = current]_storeVars
  BY <1>1
<1> QED
  BY <1>2, StoreInvariant, PTL DEF Spec, NoLostUpdate

-----------------------------------------------------------------------------
(* What readers get of a version is what was committed of it.                *)
ReadersGetTheRows == Readable = [n \in 1 .. current |-> rows[n].text]

(* A reader gets the text of the row, whichever store it comes from.         *)
LEMMA ReadableRows == Spec => []ReadersGetTheRows
<1>1. StoreInv => ReadersGetTheRows
  <2> SUFFICES ASSUME StoreInv, NEW n \in 1 .. current, ~Unmaterialized(n), n \notin overtaken
               PROVE  snap[n] = rows[n].text
    BY DEF ReadersGetTheRows, Readable
  <2>1. rows[n].mode \in {"direct", "staged"}
    BY DEF StoreInv, RowsCommitted, Row
  <2> QED
    BY <2>1 DEF Unmaterialized, StoreInv, SnapshotsKept
<1> QED
  BY <1>1, StoreInvariant, PTL

(* The readable versions are a history that only grows: the store implements *)
(* VersionHistory, whatever fails in whichever order.                        *)
THEOREM StoreImplementsHistory == Spec => ReadersSeeHistory
<1>1. Init => History!Init
  BY DEF Init, History!Init, Readable
<1>2. StoreInv /\ ReadersGetTheRows /\ ReadersGetTheRows' /\ [Next]_storeVars => [History!Next]_Readable
  <2> SUFFICES ASSUME StoreInv, ReadersGetTheRows, ReadersGetTheRows', [Next]_storeVars
               PROVE  History!Next \/ Readable' = Readable
    OBVIOUS
  <2>1. Readable = [n \in 1 .. current |-> rows[n].text]
    BY DEF ReadersGetTheRows
  <2>2. Readable' = [n \in 1 .. current' |-> rows'[n].text]
    BY DEF ReadersGetTheRows
  <2>3. CASE UNCHANGED <<current, rows>>
    BY <2>1, <2>2, <2>3
  <2>4. CASE /\ current' = current + 1
             /\ rows'[current + 1] \in Row /\ rows'[current + 1].base = current
             /\ \A n \in 1 .. current : rows'[n] = rows[n]
    <3>1. current \in Nat /\ \A n \in 1 .. current : rows[n].text \in Text
      BY StoreBounds DEF StoreInv, StoreTypeOK, RowsCommitted, Row
    <3>2. rows'[current + 1].text \in Text
      BY <2>4 DEF Row
    <3>3. Readable \in Seq(Text) /\ Len(Readable) = current
      BY <2>1, <3>1, IsASeq
    <3>4. Readable' \in Seq(Text) /\ Len(Readable') = current + 1
      <4>1. \A n \in 1 .. current + 1 : rows'[n].text \in Text
        BY <2>4, <3>1, <3>2
      <4> QED
        BY <2>2, <2>4, <3>1, <4>1, IsASeq
    <3>5. \A n \in 1 .. current : Readable'[n] = Readable[n]
      BY <2>1, <2>2, <2>4, <3>1
    <3>6. Readable'[current + 1] = rows'[current + 1].text
      BY <2>2, <2>4, <3>1
    <3>7. Readable' = Append(Readable, rows'[current + 1].text)
      BY <3>1, <3>2, <3>3, <3>4, <3>5, <3>6, AppendProperties, SeqEqual
    <3> QED
      BY <3>2, <3>7 DEF History!Next, History!AddVersion
  <2> QED
    BY <2>3, <2>4, RowsGrow
<1> QED
  BY <1>1, <1>2, StoreInvariant, ReadableRows, PTL DEF Spec, ReadersSeeHistory, History!Spec
=============================================================================
