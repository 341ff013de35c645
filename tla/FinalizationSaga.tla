--------------------------- MODULE FinalizationSaga ---------------------------
(***************************************************************************)
(* The end of a chapter run (chapter_finalization_saga.py): a reviewed text *)
(* becomes the chapter's final document.  One request goes through three    *)
(* transactions -- consume READY, stage the final document, complete -- and *)
(* writes two files between the second and the third with no lock held.     *)
(* A request may vanish anywhere (RequestDies), is repeated by the author,  *)
(* may run twice at once, and each repetition has to find what the earlier  *)
(* ones have left.  Meanwhile the document endpoints write the draft and    *)
(* create, write or delete final documents without a look at the run.       *)
(*                                                                          *)
(* The draft's text number v is its version v; OwnText is whatever else the *)
(* author writes.  Final documents are rows with fresh numbers; the system's *)
(* has the canonical path of the run, so that its current file survives the *)
(* row.  Writes of DocumentService are whole here (DocumentStore splits     *)
(* them), and the run before READY is coarse (ReviewClaim has it).          *)
(***************************************************************************)
EXTENDS ChapterProduction, Sequences

CONSTANTS
    Workers,   \* concurrent finalize requests
    MaxDocs,   \* bound on the final documents ever created
    Meddling   \* subset of {"write", "create", "delete"}: what the author does
               \* to the chapter's final documents
ASSUME FinalBounds ==
    MaxDocs \in Nat /\ Meddling \subseteq {"write", "create", "delete"}

VARIABLES
    docs,      \* rows of type CHAPTER_FINAL of the chapter, by number
    finalId,   \* chapter.final_document_id, 0 for none
    file,      \* the text at the canonical path of the final document
    snap,      \* the text in the snapshot of version 1 of each document
    removal,   \* of the current file, after its document was deleted
    events,    \* chapter_finalized events
    worker     \* what each request holds outside the database

finalVars == <<docs, finalId, file, snap, removal, events>>
sagaVars == <<st, canon, reports, actions, docs, finalId, file, snap, removal, events, worker>>

OwnText == 0
Text == 0 .. MaxVersion
DocId == 1 .. MaxDocs
Final == [by : {"system", "author"}, versions : {texts \in Seq(Text) : Len(texts) \in 1 .. 2}]
ASSUME FinalAssumption == None \notin Final \cup Text

NoRequest == [step |-> "idle", text |-> None, doc |-> 0]

FinalizationInit ==
    /\ Init
    /\ docs = [d \in DocId |-> None]
    /\ finalId = 0
    /\ file = None
    /\ snap = [d \in DocId |-> None]
    /\ removal = "none"
    /\ events = 0
    /\ worker = [w \in Workers |-> NoRequest]

-----------------------------------------------------------------------------
At(w, step) == worker[w].step = step
Go(w, step) == worker' = [worker EXCEPT ![w].step = step]
Finish(w) == worker' = [worker EXCEPT ![w] = NoRequest]

Existing == {d \in DocId : docs[d] # None}
Fresh ==
    {d \in DocId : docs[d] = None /\ snap[d] = None /\ d # finalId
                     /\ \A w \in Workers : worker[w].doc # d}

(* live_review_bindings_locked: the rows of the version are the bound ones. *)
ExactReports ==
    {r \in ReportIds : reports[r] # None /\ reports[r].version = st.version}
        = {st.report[g] : g \in RequiredStages(st)}

(* The one final document is the chapter's, and its current version is the  *)
(* first one, promoted by this run from the bound text.                     *)
Promoted(d) ==
    /\ Existing = {d} /\ finalId = d
    /\ docs[d] = [by |-> "system", versions |-> <<st.version>>]

(* _finalized_result_locked, what a completion and every replay demand.     *)
Proven ==
    \E d \in DocId : Promoted(d) /\ snap[d] = st.version /\ file = st.version

-----------------------------------------------------------------------------
(* _consume_ready_locked; the text is read from the verified snapshot.      *)
Begin(w) ==
    /\ At(w, "idle")
    /\ worker' = [worker EXCEPT ![w].step = "stage", ![w].text = st.version]

Consume(w) ==
    /\ Begin(w)
    /\ canon = st.version
    /\ CanBeginArchive(st, canon, reports) /\ ExactReports
    /\ st' = BeginArchive(st)
    /\ UNCHANGED <<canon, reports, actions, finalVars>>

ConsumeAgain(w) ==
    /\ Begin(w)
    /\ canon = st.version
    /\ st.status = "ARCHIVE_UPDATE"
    /\ UNCHANGED <<vars, finalVars>>

-----------------------------------------------------------------------------
(* _stage_final_document_locked                                            *)
CanStage(w) ==
    /\ At(w, "stage")
    /\ st.status = "ARCHIVE_UPDATE"
    /\ canon = st.version /\ worker[w].text = st.version

StageCreate(w, d) ==
    /\ CanStage(w)
    /\ Existing = {}
    /\ d \in Fresh
    /\ docs' = [docs EXCEPT ![d] = [by |-> "system", versions |-> <<worker[w].text>>]]
    /\ finalId' = d
    /\ worker' = [worker EXCEPT ![w].step = "file", ![w].doc = d]
    /\ UNCHANGED <<vars, file, snap, removal, events>>

(* Mutant of RecoverExisting: a document without its files is not recovered.*)
RecoverProven(w) ==
    /\ CanStage(w)
    /\ Proven
    /\ worker' = [worker EXCEPT ![w].step = "file", ![w].doc = finalId]
    /\ UNCHANGED <<vars, finalVars>>

RecoverExisting(w) ==
    /\ CanStage(w)
    /\ Promoted(finalId)
    /\ worker' = [worker EXCEPT ![w].step = "file", ![w].doc = finalId]
    /\ UNCHANGED <<vars, finalVars>>

(* Mutant of MaterializeFile: the draft is read again for the file.          *)
MaterializeDraftFile(w) ==
    /\ At(w, "file")
    /\ file' = canon
    /\ Go(w, "snapshot")
    /\ UNCHANGED <<vars, docs, finalId, snap, removal, events>>

(* _materialize_final_files                                                *)
MaterializeFile(w) ==
    /\ At(w, "file")
    /\ file' = worker[w].text
    /\ Go(w, "snapshot")
    /\ UNCHANGED <<vars, docs, finalId, snap, removal, events>>

MaterializeSnapshot(w) ==
    /\ At(w, "snapshot")
    /\ snap' = [snap EXCEPT ![worker[w].doc] = worker[w].text]
    /\ Go(w, "complete")
    /\ UNCHANGED <<vars, docs, finalId, file, removal, events>>

(* Mutant of CanCompleteSaga: a completed run is completed again.            *)
CanCompleteTwice ==
    /\ st.status \in {"ARCHIVE_UPDATE", "COMPLETED"}
    /\ canon = st.version /\ ExactReports /\ Proven

(* _complete_finalization_locked                                           *)
CanCompleteSaga ==
    CanComplete(st, canon, reports) /\ ExactReports /\ Proven

CompleteFinalization(w) ==
    /\ At(w, "complete")
    /\ CanCompleteSaga
    /\ st' = Complete(st)
    /\ events' = events + 1
    /\ Finish(w)
    /\ UNCHANGED <<canon, reports, actions, docs, finalId, file, snap, removal>>

(* An error, or the replay of a run that another request has completed.     *)
Leave(w) ==
    /\ \/ At(w, "stage") /\ ~(CanStage(w) /\ (Existing = {} \/ Promoted(finalId)))
       \/ At(w, "complete") /\ ~CanCompleteSaga
    /\ Finish(w)
    /\ UNCHANGED <<vars, finalVars>>

RequestDies(w) ==
    /\ ~At(w, "idle")
    /\ Finish(w)
    /\ UNCHANGED <<vars, finalVars>>

-----------------------------------------------------------------------------
(* The document endpoints.                                                 *)

SaveDraft ==
    WriteVersion /\ UNCHANGED <<finalVars, worker>>

WriteFinal(d) ==
    /\ "write" \in Meddling
    /\ d \in Existing /\ docs[d].by = "system" /\ Len(docs[d].versions) = 1
    /\ docs' = [docs EXCEPT ![d].versions = Append(@, OwnText)]
    /\ file' = OwnText
    /\ UNCHANGED <<vars, finalId, snap, removal, events, worker>>

CreateFinal(d) ==
    /\ "create" \in Meddling
    /\ d \in Fresh
    /\ docs' = [docs EXCEPT ![d] = [by |-> "author", versions |-> <<OwnText>>]]
    /\ snap' = [snap EXCEPT ![d] = OwnText]
    /\ UNCHANGED <<vars, finalId, file, removal, events, worker>>

(* delete_document: the row goes first, the current file after the commit.  *)
DeleteFinal(d) ==
    /\ "delete" \in Meddling
    /\ d \in Existing
    /\ docs' = [docs EXCEPT ![d] = None]
    /\ removal' = IF docs[d].by = "system" THEN "pending" ELSE removal
    /\ UNCHANGED <<vars, finalId, file, snap, events, worker>>

RemoveFile ==
    /\ removal = "pending"
    /\ removal' = "done"
    /\ file' = None
    /\ UNCHANGED <<vars, docs, finalId, snap, events, worker>>

-----------------------------------------------------------------------------
(* The rest of the run: drafts, reviews that pass, and a ready candidate    *)
(* that the author sends back.                                              *)
RunStep ==
    /\ \/ \E a \in ActionIds : SubmitDraftFor(a)
       \/ AcceptDraft
       \/ \E r \in ReportIds : RecordPassedReview(r)
       \/ FinalizeRevisionReady
       \/ RequestSelectedReviewRevision /\ canon = st.version
       \/ SubmitReviewRevision
    /\ UNCHANGED <<finalVars, worker>>

Finalize(w) ==
    \/ Consume(w) \/ ConsumeAgain(w)
    \/ \E d \in DocId : StageCreate(w, d)
    \/ RecoverExisting(w)
    \/ MaterializeFile(w) \/ MaterializeSnapshot(w)
    \/ CompleteFinalization(w)

AuthorMeddles ==
    \/ \E d \in DocId : WriteFinal(d) \/ CreateFinal(d) \/ DeleteFinal(d)
    \/ RemoveFile

FinalizationNext ==
    \/ \E w \in Workers : Finalize(w) \/ Leave(w) \/ RequestDies(w)
    \/ AuthorMeddles
    \/ SaveDraft
    \/ RunStep

FinalizationSpec == FinalizationInit /\ [][FinalizationNext]_sagaVars

(* An author who finds the chapter not archived asks again, and not every   *)
(* request is struck down by a crash between the same two steps.            *)
FinalizationFairness ==
    /\ SF_sagaVars(\E w \in Workers : ConsumeAgain(w))
    /\ SF_sagaVars(\E w \in Workers, d \in DocId : StageCreate(w, d))
    /\ SF_sagaVars(\E w \in Workers : RecoverExisting(w))
    /\ SF_sagaVars(\E w \in Workers : MaterializeFile(w))
    /\ SF_sagaVars(\E w \in Workers : MaterializeSnapshot(w))
    /\ SF_sagaVars(\E w \in Workers : CompleteFinalization(w))
    /\ \A w \in Workers : WF_sagaVars(Leave(w))
FairFinalizationSpec == FinalizationSpec /\ FinalizationFairness

-----------------------------------------------------------------------------
(* However many requests finalize a chapter, and wherever they die, it is   *)
(* finalized once: one event, and never two final documents of the run.     *)
FinalizedOnce ==
    /\ events = (IF st.status = "COMPLETED" THEN 1 ELSE 0)
    /\ \A d, e \in Existing : docs[d].by = "system" /\ docs[e].by = "system" => d = e

(* What is published is the reviewed text.  A snapshot of the promoted      *)
(* version is that text from the moment it exists, whatever the author has  *)
(* done to the document since; and a completed chapter stays readable: as   *)
(* long as the author leaves its final document alone, no request that is   *)
(* still under way, and no edit of the draft, changes a file of it, so      *)
(* every replay finds it proven.                                            *)
PublishedStays ==
    /\ \A d \in Existing : docs[d].by = "system" => snap[d] \in {None, st.version}
    /\ st.status = "COMPLETED" /\ removal = "none" /\ Promoted(finalId) => Proven

(* A run that has begun to archive completes, unless the author has saved   *)
(* the draft since or touched the final documents: those leave it in        *)
(* ARCHIVE_UPDATE for good.  (So does MaxDocs, once it is reached.)         *)
Touched ==
    \/ canon # st.version
    \/ removal # "none"
    \/ \E d \in Existing : docs[d].by = "author" \/ Len(docs[d].versions) > 1
OutOfDocuments == Existing = {} /\ Fresh = {}
ArchiveCompletes ==
    st.status = "ARCHIVE_UPDATE" ~> st.status = "COMPLETED" \/ Touched \/ OutOfDocuments
=============================================================================
