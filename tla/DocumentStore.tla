----------------------------- MODULE DocumentStore -----------------------------
(***************************************************************************)
(* One document of services/document_service.py: its row and version rows   *)
(* in PostgreSQL, and its files in the workspace -- the current text and    *)
(* one snapshot per version.  Every read of a version returns its snapshot  *)
(* file.  No transaction spans the two stores:                              *)
(*                                                                          *)
(*   direct  write_document, restore_document and commit_staged_document    *)
(*           write both files under the row lock, then commit; an error     *)
(*           before the commit rolls back and puts the files back;          *)
(*   staged  the sagas that call stage_write_document commit their own      *)
(*           transaction first and call write_staged_files after it.        *)
(*                                                                          *)
(* A text is a number, fresh for each write and repeated by a restore.  A   *)
(* file write is atomic (MarkdownStore.write replaces the file), a rollback *)
(* or a commit ends the transaction and frees the row.  The awaits of the   *)
(* service, and any other process, may interleave between the actions.      *)
(***************************************************************************)
EXTENDS Integers, Sequences

CONSTANTS
    Writers,     \* concurrent requests that write the document
    Modes,       \* subset of {"direct", "staged"}: the protocols in use
    Faults,      \* subset of {"crash", "commit", "flush"}: what may go wrong
    None,        \* the absent file, lock or row
    MaxVersion   \* bound on the versions of the document

ASSUME StoreBounds ==
    /\ MaxVersion \in Nat
    /\ Modes \subseteq {"direct", "staged"}
    /\ Faults \subseteq {"crash", "commit", "flush"}
    /\ None \notin Writers /\ None \notin Nat

VARIABLES
    current,   \* number of the current version, 0 before the first
    rows,      \* version rows by number
    lock,      \* who holds the document row FOR UPDATE
    file,      \* the text in document.path
    snap,      \* the text in each snapshot path
    issued,    \* texts handed out so far
    overtaken, \* versions whose snapshot the undo of another write has taken
    writer     \* what each request holds outside both stores

storeVars == <<current, rows, lock, file, snap, issued, overtaken, writer>>

MaxText == 2 * MaxVersion   \* bound on the texts ever written
Text == 1 .. MaxText
Version == 1 .. MaxVersion
Idle == [step |-> "idle", base |-> 0, row |-> None, old |-> None, oldSnap |-> None]

Init ==
    /\ current = 0
    /\ rows = [n \in Version |-> None]
    /\ lock = None
    /\ file = None
    /\ snap = [n \in Version |-> None]
    /\ issued = 0
    /\ overtaken = {}
    /\ writer = [w \in Writers |-> Idle]

-----------------------------------------------------------------------------
At(w, step) == writer[w].step = step
Go(w, step) == writer' = [writer EXCEPT ![w].step = step]
Return(w) == writer' = [writer EXCEPT ![w] = Idle]
Free(w) == lock' = IF lock = w THEN None ELSE lock

(* The client's expected_current_version_id is what it has last seen.      *)
Open(w) ==
    /\ At(w, "idle")
    /\ current < MaxVersion
    /\ writer' = [writer EXCEPT ![w].step = "waiting", ![w].base = current]
    /\ UNCHANGED <<current, rows, lock, file, snap, issued, overtaken>>

(* Mutant of ExpectedCurrent: the client's version is not compared.         *)
ExpectedAnything(w) == TRUE

(* _ensure_expected_current_version                                        *)
ExpectedCurrent(w) == writer[w].base = current

Conflict(w) ==
    /\ At(w, "waiting") /\ lock = None
    /\ ~ExpectedCurrent(w)
    /\ Return(w)
    /\ UNCHANGED <<current, rows, lock, file, snap, issued, overtaken>>

(* The row lock, the check, and the new version row, not yet committed.     *)
Stage(w, text, restores, mode) ==
    /\ At(w, "waiting") /\ lock = None
    /\ ExpectedCurrent(w) /\ current < MaxVersion
    /\ lock' = w
    /\ writer' = [writer EXCEPT
          ![w].step = IF mode = "direct" THEN "file" ELSE "commit",
          ![w].row = [text |-> text, base |-> writer[w].base, restores |-> restores, mode |-> mode]]
    /\ UNCHANGED <<current, rows, file, snap, overtaken>>

StageWrite(w, mode) ==
    /\ issued < MaxText
    /\ issued' = issued + 1
    /\ Stage(w, issued + 1, 0, mode)

(* restore_document reads the snapshot of an earlier version.               *)
StageRestore(w, n) ==
    /\ "direct" \in Modes
    /\ n <= current /\ snap[n] # None
    /\ Stage(w, snap[n], n, "direct")
    /\ UNCHANGED issued

-----------------------------------------------------------------------------
(* _commit_with_file_writes: the number of the row is current + 1 as long   *)
(* as the lock is held; base + 1 afterwards.                                *)
Number(w) == writer[w].row.base + 1

WriteFile(w) ==
    /\ At(w, "file")
    /\ file' = writer[w].row.text
    /\ writer' = [writer EXCEPT ![w].step = "snapshot", ![w].old = file]
    /\ UNCHANGED <<current, rows, lock, snap, issued, overtaken>>

(* Mutant of WriteSnapshot: the snapshot path of the parent version.        *)
WriteSnapshotOfParent(w) ==
    /\ At(w, "snapshot")
    /\ snap' = [snap EXCEPT ![Number(w) - 1] = writer[w].row.text]
    /\ writer' = [writer EXCEPT ![w].step = "flush", ![w].oldSnap = None]
    /\ UNCHANGED <<current, rows, lock, file, issued, overtaken>>

WriteSnapshot(w) ==
    /\ At(w, "snapshot")
    /\ snap' = [snap EXCEPT ![Number(w)] = writer[w].row.text]
    /\ writer' = [writer EXCEPT ![w].step = "flush", ![w].oldSnap = snap[Number(w)]]
    /\ overtaken' = overtaken \ {Number(w)}
    /\ UNCHANGED <<current, rows, lock, file, issued>>

Flush(w) ==
    /\ At(w, "flush")
    /\ Go(w, "commit")
    /\ UNCHANGED <<current, rows, lock, file, snap, issued, overtaken>>

(* A failed write or flush, or a cancelled request: session.rollback()      *)
(* comes first, then the files are put back in reverse order.  The write    *)
(* that failed is undone as well; that is this action one step later, since *)
(* putting back what is there after the write or before it is the same.     *)
Abort(w) ==
    /\ "flush" \in Faults
    /\ lock' = None
    /\ \/ At(w, "file") /\ Return(w)
       \/ At(w, "snapshot") /\ Go(w, "undo file")
       \/ At(w, "flush") /\ Go(w, "undo snapshot")
    /\ UNCHANGED <<current, rows, file, snap, issued, overtaken>>

UndoSnapshot(w) ==
    /\ At(w, "undo snapshot")
    /\ snap' = [snap EXCEPT ![Number(w)] = writer[w].oldSnap]
    /\ Go(w, "undo file")
    /\ overtaken' = IF Number(w) <= current \/ lock # None THEN overtaken \cup {Number(w)} ELSE overtaken
    /\ UNCHANGED <<current, rows, lock, file, issued>>

UndoFile(w) ==
    /\ At(w, "undo file")
    /\ file' = writer[w].old
    /\ Return(w)
    /\ UNCHANGED <<current, rows, lock, snap, issued, overtaken>>

Commit(w) ==
    /\ At(w, "commit")
    /\ current' = Number(w)
    /\ rows' = [rows EXCEPT ![Number(w)] = writer[w].row]
    /\ lock' = None
    /\ IF writer[w].row.mode = "direct" THEN Return(w) ELSE Go(w, "late file")
    /\ UNCHANGED <<file, snap, issued, overtaken>>

(* DocumentCommitIndeterminateError: the commit was not applied, but the    *)
(* service cannot know and leaves the files.                                *)
CommitLost(w) ==
    /\ "commit" \in Faults
    /\ At(w, "commit")
    /\ lock' = None
    /\ Return(w)
    /\ UNCHANGED <<current, rows, file, snap, issued, overtaken>>

-----------------------------------------------------------------------------
(* write_staged_files                                                       *)
LateFile(w) ==
    /\ At(w, "late file")
    /\ file' = writer[w].row.text
    /\ Go(w, "late snapshot")
    /\ UNCHANGED <<current, rows, lock, snap, issued, overtaken>>

LateSnapshot(w) ==
    /\ At(w, "late snapshot")
    /\ snap' = [snap EXCEPT ![Number(w)] = writer[w].row.text]
    /\ Return(w)
    /\ overtaken' = overtaken \ {Number(w)}
    /\ UNCHANGED <<current, rows, lock, file, issued>>

(* The process dies, or a commit error hides a commit that was applied.     *)
Crash(w) ==
    /\ "crash" \in Faults
    /\ ~At(w, "idle")
    /\ Free(w)
    /\ Return(w)
    /\ UNCHANGED <<current, rows, file, snap, issued, overtaken>>

Next ==
    \E w \in Writers :
        \/ Open(w)
        \/ Conflict(w)
        \/ \E mode \in Modes : StageWrite(w, mode)
        \/ \E n \in Version : StageRestore(w, n)
        \/ WriteFile(w) \/ WriteSnapshot(w) \/ Flush(w)
        \/ Abort(w) \/ UndoSnapshot(w) \/ UndoFile(w)
        \/ Commit(w) \/ CommitLost(w)
        \/ LateFile(w) \/ LateSnapshot(w)
        \/ Crash(w)

Spec == Init /\ [][Next]_storeVars

-----------------------------------------------------------------------------
(* A staged version has no snapshot until its request has written it.       *)
Unmaterialized(n) ==
    rows[n].mode = "staged" /\ snap[n] # rows[n].text

(* A version is written on the version its author has read and as a new one, *)
(* so that no accepted write silently replaces another one's.               *)
NoLostUpdate ==
    [][<<current', rows'>> # <<current, rows>> =>
          /\ current' = current + 1
          /\ rows'[current'].base = current]_storeVars

(* What a reader gets for each version, but for those that an undo took: a  *)
(* refused write frees the row before it puts its files back, and another   *)
(* request may have committed the same number in between.                   *)
Readable ==
    [n \in 1 .. current |->
        IF Unmaterialized(n) \/ n \in overtaken THEN rows[n].text ELSE snap[n]]

History == INSTANCE VersionHistory WITH Texts <- Text, versions <- Readable

(* The readable versions are an append-only history, whoever else is        *)
(* writing, restoring, dying, losing a commit or undoing.                   *)
ReadersSeeHistory == History!Spec
=============================================================================
