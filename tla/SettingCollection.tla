--------------------------- MODULE SettingCollection ---------------------------
(***************************************************************************)
(* The documents of a setting collection and the row locks their writers     *)
(* take: SettingCollectionService, set_setting_document_deleted, the         *)
(* document endpoints and DocumentService where it writes for a collection.  *)
(*                                                                          *)
(* A request locks its rows one by one and keeps them to its commit.  Some   *)
(* lock the document first and then the collection, some the other way       *)
(* round.  FOR UPDATE waits; with SKIP LOCKED a row another request holds is *)
(* reported as missing, which the services turn into a conflict.  When       *)
(* requests wait for one another in a circle the database ends one of them.  *)
(***************************************************************************)
EXTENDS Naturals, Sequences

CONSTANTS
    Docs,          \* documents of the collection, or still to be created
    Existing,      \* the documents it has at the start
    Workers,       \* concurrent requests
    Endpoints,     \* the operations the environment may request
    MaxChanges,    \* bound on the author's changes
    None
ASSUME CollectionBounds == Existing \subseteq Docs /\ MaxChanges \in Nat

VARIABLES
    archived,  \* SettingCollection.status
    name,      \* the collection's title
    doc,       \* each document's row, or None
    by,        \* who wrote each of its versions: an attempt, or None for the author
    lock,      \* who holds each row
    worker,    \* what each request in flight is doing
    changes    \* changes the author has requested so far

collection == <<archived, name, doc, by>>
collectionVars == <<collection, lock, worker, changes>>

Idle == [step |-> "idle"]
Document == [version : Nat, title : Nat, deleted : BOOLEAN]
NewDocument == [version |-> 1, title |-> 0, deleted |-> FALSE]

(* The rows requests lock: the collection, the conversation, each document.  *)
Collection == "collection"
Conversation == "conversation"
Rows == {Collection, Conversation} \cup Docs

ASSUME RowAssumption ==
    None \notin Document \cup Workers \cup Rows /\ Docs \cap {Collection, Conversation} = {}

CollectionInit ==
    /\ archived = FALSE
    /\ name = 0
    /\ doc = [d \in Docs |-> IF d \in Existing THEN NewDocument ELSE None]
    /\ by = [d \in Docs |-> IF d \in Existing THEN <<None>> ELSE <<>>]
    /\ lock = [r \in Rows |-> None]
    /\ worker = [w \in Workers |-> Idle]
    /\ changes = 0

-----------------------------------------------------------------------------
At(w, step) == worker[w].step = step
Go(w, next) == worker' = [worker EXCEPT ![w] = next]
Live(d) == doc[d] # None /\ ~doc[d].deleted

Free(r) == lock[r] = None
Lock(w, r) == lock' = [lock EXCEPT ![r] = w]
(* Commit or rollback: every row the request holds is free again.            *)
Released(w) == [r \in Rows |-> IF lock[r] = w THEN None ELSE lock[r]]
Return(w) == Go(w, Idle) /\ lock' = Released(w)

(* The row a request waits for, as its step says.                            *)
Waits(w) == IF "row" \in DOMAIN worker[w] THEN worker[w].row ELSE None
Blocks(v, w) == Waits(w) # None /\ lock[Waits(w)] = v
Circle(w) == \E v \in Workers \ {w} : Blocks(v, w) /\ Blocks(w, v)

(* The database's deadlock detector.                                        *)
Victim(w) ==
    /\ Circle(w)
    /\ Return(w)
    /\ UNCHANGED <<collection, changes>>

Change == changes < MaxChanges /\ changes' = changes + 1   \* bound

(* What the documents of the collection look like to a reader: _snapshot.    *)
Snapshot == [d \in {e \in Docs : Live(e)} |-> [version |-> doc[d].version, title |-> doc[d].title]]

-----------------------------------------------------------------------------
(* _locked_document: the document first, and then the collection with SKIP    *)
(* LOCKED, which ends the request when another holds it.                     *)
BeginWrite(w, d) ==
    /\ "write" \in Endpoints
    /\ At(w, "idle") /\ Free(d)
    /\ Live(d)
    /\ Lock(w, d)
    /\ Go(w, [step |-> "write", doc |-> d])
    /\ Change
    /\ UNCHANGED collection

(* write_document and restore_document of the current version, by the author *)
Write(w) ==
    /\ At(w, "write") /\ Free(Collection)
    /\ ~archived
    /\ LET d == worker[w].doc
       IN  /\ doc' = [doc EXCEPT ![d].version = @ + 1]
           /\ by' = [by EXCEPT ![d] = Append(@, None)]
    /\ Return(w)
    /\ UNCHANGED <<archived, name, changes>>

WriteRefused(w) ==
    /\ At(w, "write")
    /\ ~Free(Collection) \/ archived
    /\ Return(w)
    /\ UNCHANGED <<collection, changes>>

(* set_setting_document_deleted: the document first, and then the collection, *)
(* waiting for it.                                                           *)
BeginTrash(w, d, deleted) ==
    /\ "trash" \in Endpoints
    /\ At(w, "idle") /\ Free(d)
    /\ doc[d] # None
    /\ Lock(w, d)
    /\ Go(w, [step |-> "trash", doc |-> d, deleted |-> deleted, row |-> Collection])
    /\ Change
    /\ UNCHANGED collection

Trash(w) ==
    /\ At(w, "trash") /\ Free(Collection)
    /\ ~archived
    /\ doc' = [doc EXCEPT ![worker[w].doc].deleted = worker[w].deleted]
    /\ Return(w)
    /\ UNCHANGED <<archived, name, by, changes>>

TrashRefused(w) ==
    /\ At(w, "trash") /\ Free(Collection)
    /\ archived
    /\ Return(w)
    /\ UNCHANGED <<collection, changes>>

(* update_document: the collection first; the document's row is locked when   *)
(* the changed title is flushed at the commit.                               *)
BeginRetitle(w, d) ==
    /\ "retitle" \in Endpoints
    /\ At(w, "idle") /\ Free(Collection)
    /\ Live(d) /\ ~archived
    /\ Lock(w, Collection)
    /\ Go(w, [step |-> "retitle", doc |-> d, row |-> d])
    /\ Change
    /\ UNCHANGED collection

Retitle(w) ==
    /\ At(w, "retitle") /\ Free(worker[w].doc)
    /\ doc' = [doc EXCEPT ![worker[w].doc].title = @ + 1]
    /\ Return(w)
    /\ UNCHANGED <<archived, name, by, changes>>

(* create_document_for_collection, archive_setting_collection and             *)
(* update_setting_collection lock the collection alone.                      *)
CreateDocument(w, d) ==
    /\ "create" \in Endpoints
    /\ At(w, "idle") /\ Free(Collection)
    /\ ~archived /\ doc[d] = None
    /\ Change
    /\ doc' = [doc EXCEPT ![d] = NewDocument]
    /\ by' = [by EXCEPT ![d] = <<None>>]
    /\ UNCHANGED <<archived, name, lock, worker>>

Archive(w) ==
    /\ "archive" \in Endpoints
    /\ At(w, "idle") /\ Free(Collection)
    /\ ~archived
    /\ Change
    /\ archived' = TRUE
    /\ UNCHANGED <<name, doc, by, lock, worker>>

Rename(w) ==
    /\ "rename" \in Endpoints
    /\ At(w, "idle") /\ Free(Collection)
    /\ ~archived
    /\ Change
    /\ name' = name + 1
    /\ UNCHANGED <<archived, doc, by, lock, worker>>

AuthorNext(w) ==
    \/ \E d \in Docs :
          \/ BeginWrite(w, d) \/ BeginRetitle(w, d) \/ CreateDocument(w, d)
          \/ \E deleted \in BOOLEAN : BeginTrash(w, d, deleted)
    \/ Write(w) \/ WriteRefused(w)
    \/ Trash(w) \/ TrashRefused(w)
    \/ Retitle(w)
    \/ Archive(w) \/ Rename(w)
    \/ Victim(w)
=============================================================================
