----------------------- MODULE SettingCollaborationProofs -----------------------
(***************************************************************************)
(* A conversation over a setting collection, for any number of messages,     *)
(* documents and requests: each message is called for at most once, each     *)
(* proposal adopted at most once and as its agent saw the documents, and an  *)
(* ended message stays ended.  The invariant says where each request in      *)
(* flight stands to the rows: what it has found is still there, and what it  *)
(* holds nobody else decides.                                                *)
(***************************************************************************)
EXTENDS SettingCollaboration, TLAPS

Talking == {"resume", "dispatch", "call", "answer", "accept", "adopt"}
Editing == {"write", "trash", "retitle"}

(* The rows of the collection; what has never been created was never         *)
(* written.                                                                  *)
DocumentsTyped ==
    /\ archived \in BOOLEAN /\ name \in Nat
    /\ doc \in [Docs -> Document \cup {None}]
    /\ by \in [Docs -> Seq(Messages \cup {None})]
    /\ \A d \in Docs : doc[d] = None => by[d] = <<>>

(* The attempts and their messages: whatever was put to the agent has a       *)
(* context, of the conversation's scope, and its proposal is about it.       *)
Asked(m) == attempt[m] # None /\ attempt[m].context # None
ScopeKept(m) ==
    /\ HasStatus(m, {"prepared", "dispatched", "result_saved", "completed"}) => Asked(m)
    /\ Asked(m) /\ ~Wide => DOMAIN attempt[m].context.seen = {scope}
    /\ Asked(m) /\ attempt[m].result # None /\ attempt[m].result.kind = "proposal" =>
          attempt[m].result.target \in Targets(m)
    /\ message[m] # None /\ message[m].status # None => Asked(m) /\ message[m].target \in Targets(m)
ConversationTyped ==
    /\ scope \in Docs \cup {Collection}
    /\ attempt \in [Messages -> AttemptRow \cup {None}]
    /\ message \in [Messages -> MessageRow \cup {None}]
    /\ calls \in [Messages -> Nat]
    /\ \A m \in Messages : ScopeKept(m)

(* What a request has found it keeps finding: no row is removed, and a        *)
(* proposal that is being adopted is decided by nobody else, for its         *)
(* conversation is locked, nor its document trashed.                         *)
Placed(w) ==
    /\ worker[w].step \in {"idle"} \cup Talking \cup Editing
    /\ worker[w].step \in Editing => worker[w].doc \in Docs /\ doc[worker[w].doc] # None
    /\ At(w, "trash") => worker[w].deleted \in BOOLEAN /\ lock[worker[w].doc] = w
    /\ worker[w].step \in Talking =>
          worker[w].message \in Messages /\ attempt[worker[w].message] # None
    /\ worker[w].step \in {"call", "answer"} => Asked(worker[w].message)
    /\ worker[w].step \in {"accept", "adopt"} =>
          Pending(worker[w].message) /\ lock[Conversation] = w
    /\ At(w, "adopt") =>
          /\ message[worker[w].message].target # None
          /\ Live(message[worker[w].message].target)
          /\ lock[message[worker[w].message].target] = w
RequestsPlaced ==
    /\ lock \in [Rows -> Workers \cup {None}]
    /\ worker = [w \in Workers |-> worker[w]]
    /\ \A w \in Workers : Placed(w)

(* A message that is prepared has not been called for; at most one request    *)
(* is between its claim and its answer; what is recorded was paid for.       *)
Calling(w) == worker[w].step \in {"call", "answer"}
ClaimKept(m) ==
    /\ attempt[m] = None \/ HasStatus(m, {"prepared"}) => calls[m] = 0
    /\ HasStatus(m, {"result_saved", "completed"}) =>
          calls[m] = 1 /\ attempt[m].result \in ResultRow /\ attempt[m].result.kind # "invalid"
PaidOnce(m) ==
    /\ calls[m] <= 1
    /\ message[m] # None <=> HasStatus(m, {"completed"})
    /\ message[m] # None => calls[m] = 1 /\ attempt[m].result.kind # "invalid"
CallsClaimed ==
    /\ \A m \in Messages : ClaimKept(m)
    /\ \A w \in Workers :
          /\ Calling(w) => ~HasStatus(worker[w].message, {"prepared"})
          /\ At(w, "call") => calls[worker[w].message] = 0
          /\ At(w, "answer") => calls[worker[w].message] = 1
    /\ \A v, w \in Workers :
          Calling(v) /\ Calling(w) /\ worker[v].message = worker[w].message => v = w

SettingInv ==
    /\ DocumentsTyped
    /\ ConversationTyped
    /\ RequestsPlaced
    /\ CallsClaimed
    /\ CalledOnce
    /\ AdoptedOnce

-----------------------------------------------------------------------------
(* A request's own memory.                                                  *)
LEMMA Moved ==
    ASSUME RequestsPlaced, NEW w \in Workers, NEW next, Go(w, next)
    PROVE  /\ worker' = [v \in Workers |-> worker'[v]]
           /\ worker'[w] = next
           /\ \A v \in Workers : v # w => worker'[v] = worker[v]
BY DEF RequestsPlaced, Placed, Go

(* A change of one document's row, and a version more.                       *)
LEMMA RowWritten ==
    ASSUME DocumentsTyped, NEW d \in Docs, doc[d] # None
    PROVE  /\ [doc EXCEPT ![d].version = @ + 1] \in [Docs -> Document \cup {None}]
           /\ [doc EXCEPT ![d].title = @ + 1] \in [Docs -> Document \cup {None}]
           /\ \A deleted \in BOOLEAN :
                 [doc EXCEPT ![d].deleted = deleted] \in [Docs -> Document \cup {None}]
           /\ \A deleted \in BOOLEAN : [doc[d] EXCEPT !.deleted = deleted] # None
           /\ [doc[d] EXCEPT !.version = @ + 1] # None
           /\ [doc[d] EXCEPT !.title = @ + 1] # None
           /\ \A x \in Messages \cup {None} :
                 [by EXCEPT ![d] = Append(@, x)] \in [Docs -> Seq(Messages \cup {None})]
<1>1. doc[d] \in Document
  BY DEF DocumentsTyped
<1>2. /\ [doc[d] EXCEPT !.version = @ + 1] \in Document
      /\ [doc[d] EXCEPT !.title = @ + 1] \in Document
      /\ \A deleted \in BOOLEAN : [doc[d] EXCEPT !.deleted = deleted] \in Document
  BY <1>1 DEF Document
<1>3. None \notin Document
  BY RowAssumption
<1>4. by[d] \in Seq(Messages \cup {None})
  BY DEF DocumentsTyped
<1>5. \A x \in Messages \cup {None} : Append(by[d], x) \in Seq(Messages \cup {None})
  BY <1>4
<1> QED
  BY <1>2, <1>3, <1>5 DEF DocumentsTyped

(* A document of its own, with one version.                                  *)
LEMMA RowCreated ==
    ASSUME DocumentsTyped, NEW d \in Docs, NEW x \in Messages \cup {None}
    PROVE  /\ NewDocument # None
           /\ [doc EXCEPT ![d] = NewDocument] \in [Docs -> Document \cup {None}]
           /\ [by EXCEPT ![d] = <<x>>] \in [Docs -> Seq(Messages \cup {None})]
<1>1. NewDocument \in Document
  BY DEF NewDocument, Document
<1>2. <<x>> \in Seq(Messages \cup {None})
  OBVIOUS
<1> QED
  BY <1>1, <1>2, RowAssumption DEF DocumentsTyped

(* The steps that change a row of the collection.                            *)
LEMMA DocumentsStay ==
    ASSUME DocumentsTyped, ConversationTyped, RequestsPlaced, CollaborationNext
    PROVE  DocumentsTyped'
<1>1. PICK w \in Workers :
          \/ AuthorNext(w)
          \/ Adopt(w)
          \/ UNCHANGED collection
  BY DEF CollaborationNext, RequestNext, Prepare, Again, Finish, BeginAccept, Discard, Resume, Dispatch,
         DispatchRefused, Call, CallFails, SaveResult, AcceptLocksDocument, AdoptRefused, Crash,
         collectionVars, conversation
<1>2. CASE UNCHANGED collection
  BY <1>2 DEF DocumentsTyped, collection
<1>3. CASE AuthorNext(w)
  <2>1. /\ worker[w].step \in Editing => worker[w].doc \in Docs /\ doc[worker[w].doc] # None
        /\ At(w, "trash") => worker[w].deleted \in BOOLEAN
    BY DEF RequestsPlaced, Placed
  <2>2. CASE Write(w)
    <3>1. worker[w].doc \in Docs /\ doc[worker[w].doc] # None
      BY <2>1, <2>2 DEF Write, At, Editing
    <3> QED
      BY <2>2, <3>1, RowWritten DEF Write, DocumentsTyped
  <2>3. CASE Trash(w)
    <3>1. worker[w].doc \in Docs /\ doc[worker[w].doc] # None /\ worker[w].deleted \in BOOLEAN
      BY <2>1, <2>3 DEF Trash, At, Editing
    <3> QED
      BY <2>3, <3>1, RowWritten DEF Trash, DocumentsTyped
  <2>4. CASE Retitle(w)
    <3>1. worker[w].doc \in Docs /\ doc[worker[w].doc] # None
      BY <2>1, <2>4 DEF Retitle, At, Editing
    <3> QED
      BY <2>4, <3>1, RowWritten DEF Retitle, DocumentsTyped
  <2>5. ASSUME NEW d \in Docs, CreateDocument(w, d)
        PROVE  DocumentsTyped'
    BY <2>5, RowCreated DEF CreateDocument, DocumentsTyped
  <2>6. CASE Archive(w) \/ Rename(w)
    <3>1. UNCHANGED <<doc, by>> /\ (name' = name \/ name' = name + 1)
      BY <2>6 DEF Archive, Rename
    <3>2. archived' = archived \/ archived' = TRUE
      BY <2>6, Zenon DEF Archive, Rename
    <3>3. archived' \in BOOLEAN
      BY <3>2, Zenon DEF DocumentsTyped
    <3>4. name' \in Nat
      BY <3>1 DEF DocumentsTyped
    <3> QED
      BY <3>1, <3>3, <3>4 DEF DocumentsTyped
  <2>7. ASSUME UNCHANGED collection
        PROVE  DocumentsTyped'
    BY <1>2, <2>7
  <2> QED
    BY <1>3, <2>2, <2>3, <2>4, <2>5, <2>6, <2>7
    DEF AuthorNext, BeginWrite, BeginRetitle, BeginTrash, WriteRefused, TrashRefused, Victim
<1>4. CASE Adopt(w)
  <2> DEFINE m == worker[w].message
             t == message[m].target
  <2>1. m \in Messages /\ Pending(m) /\ (At(w, "adopt") => t # None /\ doc[t] # None)
    BY <1>4 DEF Adopt, Adopting, RequestsPlaced, Placed, At, Talking, Live
  <2>2. t \in Docs \cup {None}
    BY <2>1, MessageAssumption DEF ConversationTyped, MessageRow, Pending
  <2>3. CASE t = None
    <3>1. PICK d \in Docs : /\ doc[d] = None
                            /\ doc' = [doc EXCEPT ![d] = NewDocument]
                            /\ by' = [by EXCEPT ![d] = <<m>>]
      BY <1>4, <2>3 DEF Adopt, Adopted
    <3> QED
      BY <1>4, <2>1, <3>1, RowCreated DEF Adopt, DocumentsTyped
  <2>4. CASE t # None
    <3>1. /\ t \in Docs /\ doc[t] # None
          /\ doc' = [doc EXCEPT ![t].version = @ + 1]
          /\ by' = [by EXCEPT ![t] = Append(@, m)]
      BY <1>4, <2>1, <2>2, <2>4 DEF Adopt, Adopting, Adopted
    <3> QED
      BY <1>4, <2>1, <3>1, RowWritten DEF Adopt, DocumentsTyped
  <2> QED
    BY <2>3, <2>4
<1> QED
  BY <1>1, <1>2, <1>3, <1>4

-----------------------------------------------------------------------------
(* An attempt that changes its status, or gets its result, is that attempt.   *)
LEMMA AttemptSet ==
    ASSUME ConversationTyped, NEW m \in Messages, attempt[m] # None,
           NEW s \in {"prepared", "dispatched", "result_saved", "completed", "finished"},
           Set(m, s)
    PROVE  /\ attempt' \in [Messages -> AttemptRow \cup {None}]
           /\ attempt'[m] # None /\ attempt'[m].status = s
           /\ attempt'[m].context = attempt[m].context /\ attempt'[m].result = attempt[m].result
           /\ \A n \in Messages : n # m => attempt'[n] = attempt[n]
<1> DEFINE row == [attempt[m] EXCEPT !.status = s]
<1>1. attempt[m] \in AttemptRow
  BY DEF ConversationTyped
<1>2. row \in AttemptRow /\ row.status = s /\ row.context = attempt[m].context /\ row.result = attempt[m].result
  BY <1>1 DEF AttemptRow
<1>3. row # None
  BY <1>2, MessageAssumption
<1>4. attempt' = [attempt EXCEPT ![m] = row]
  BY DEF ConversationTyped, Set
<1> HIDE DEF row
<1> QED
  BY <1>2, <1>3, <1>4 DEF ConversationTyped

(* The same with a result.                                                  *)
LEMMA AttemptAnswered ==
    ASSUME ConversationTyped, NEW m \in Messages, attempt[m] # None,
           NEW s \in {"prepared", "dispatched", "result_saved", "completed", "finished"},
           NEW r \in ResultRow \cup {None},
           attempt' = [attempt EXCEPT ![m].result = r, ![m].status = s]
    PROVE  /\ attempt' \in [Messages -> AttemptRow \cup {None}]
           /\ attempt'[m] # None /\ attempt'[m].status = s
           /\ attempt'[m].context = attempt[m].context /\ attempt'[m].result = r
           /\ \A n \in Messages : n # m => attempt'[n] = attempt[n]
<1> DEFINE row == [[attempt[m] EXCEPT !.result = r] EXCEPT !.status = s]
<1>1. attempt[m] \in AttemptRow
  BY DEF ConversationTyped
<1>2. row \in AttemptRow /\ row.status = s /\ row.context = attempt[m].context /\ row.result = r
  BY <1>1 DEF AttemptRow
<1>3. row # None
  BY <1>2, MessageAssumption
<1>4. attempt' = [attempt EXCEPT ![m] = row]
  BY DEF ConversationTyped
<1> HIDE DEF row
<1> QED
  BY <1>2, <1>3, <1>4 DEF ConversationTyped

(* A message nothing happens to.                                             *)
LEMMA ScopeStays ==
    ASSUME ConversationTyped, UNCHANGED scope, NEW n \in Messages,
           attempt'[n] = attempt[n], message'[n] = message[n]
    PROVE  ScopeKept(n)'
BY DEF ConversationTyped, ScopeKept, Asked, HasStatus, Targets, Wide

(* What an agent is shown of the documents.                                  *)
LEMMA ContextTyped ==
    ASSUME DocumentsTyped, ConversationTyped, InScope
    PROVE  /\ Context \in ContextRow
           /\ ~Wide => DOMAIN Context.seen = {scope}
<1> DEFINE live == {e \in Docs : Live(e)}
<1>1. \A d \in live : [version |-> doc[d].version, title |-> doc[d].title] \in Seen
  BY DEF DocumentsTyped, Live, Document, Seen
<1>2. Snapshot \in [live -> Seen] /\ live \in SUBSET Docs
  BY <1>1 DEF Snapshot
<1>3. ~Wide => scope \in live
  BY DEF InScope, ConversationTyped, Wide
<1>4. ~Wide => {scope} \in SUBSET Docs /\ [d \in {scope} |-> Snapshot[d]] \in [{scope} -> Seen]
  BY <1>2, <1>3
<1>5. Context.seen \in UNION {[S -> Seen] : S \in SUBSET Docs}
  <2>1. CASE Wide
    BY <1>2, <2>1 DEF Context
  <2>2. CASE ~Wide
    BY <1>4, <2>2 DEF Context
  <2> QED
    BY <2>1, <2>2
<1> QED
  BY <1>5 DEF Context, ContextRow, DocumentsTyped

(* An answer that is recorded.                                               *)
LEMMA Materialized ==
    ASSUME ConversationTyped, CallsClaimed, NEW m \in Messages,
           HasStatus(m, {"result_saved"}), Materialize(m)
    PROVE  /\ attempt' \in [Messages -> AttemptRow \cup {None}]
           /\ message' \in [Messages -> MessageRow \cup {None}]
           /\ attempt'[m] # None /\ attempt'[m].status = "completed"
           /\ attempt'[m].context = attempt[m].context /\ attempt'[m].result = attempt[m].result
           /\ message'[m] # None
           /\ message'[m].status # "accepted"
           /\ message'[m].status # None =>
                 attempt[m].result.kind = "proposal" /\ message'[m].target = attempt[m].result.target
           /\ \A n \in Messages : n # m => attempt'[n] = attempt[n] /\ message'[n] = message[n]
<1> DEFINE r == attempt[m].result
           row == [status |-> IF r.kind = "proposal" THEN "pending" ELSE None,
                   target |-> IF r.kind = "proposal" THEN r.target ELSE None]
<1>1. attempt[m] # None /\ r \in ResultRow
  BY DEF HasStatus, CallsClaimed, ClaimKept
<1>2. row \in MessageRow
  BY <1>1 DEF ResultRow, MessageRow
<1>3. row # None /\ row.status # "accepted"
  BY <1>2, MessageAssumption
<1>4. row.status # None => r.kind = "proposal" /\ row.target = r.target
  OBVIOUS
<1>5. message' = [message EXCEPT ![m] = row] /\ Set(m, "completed")
  BY DEF Materialize
<1> HIDE DEF row, r
<1>6. /\ message' \in [Messages -> MessageRow \cup {None}]
      /\ message'[m] = row
      /\ \A n \in Messages : n # m => message'[n] = message[n]
  BY <1>2, <1>5 DEF ConversationTyped
<1>7. /\ attempt' \in [Messages -> AttemptRow \cup {None}]
      /\ attempt'[m] # None /\ attempt'[m].status = "completed"
      /\ attempt'[m].context = attempt[m].context /\ attempt'[m].result = attempt[m].result
      /\ \A n \in Messages : n # m => attempt'[n] = attempt[n]
  BY <1>1, <1>5, AttemptSet
<1> QED
  BY <1>3, <1>4, <1>6, <1>7 DEF r

(* A decision about a proposal.                                              *)
LEMMA Decided ==
    ASSUME ConversationTyped, NEW m \in Messages, message[m] # None,
           NEW s \in {"accepted", "rejected"}, message' = [message EXCEPT ![m].status = s]
    PROVE  /\ message' \in [Messages -> MessageRow \cup {None}]
           /\ message'[m] # None
           /\ message'[m].status = s /\ message'[m].target = message[m].target
           /\ \A n \in Messages : n # m => message'[n] = message[n]
<1> DEFINE row == [message[m] EXCEPT !.status = s]
<1>1. message[m] \in MessageRow
  BY DEF ConversationTyped
<1>2. row \in MessageRow /\ row.status = s /\ row.target = message[m].target
  BY <1>1 DEF MessageRow
<1>3. row # None
  BY <1>2, MessageAssumption
<1>4. message' = [message EXCEPT ![m] = row]
  BY DEF ConversationTyped
<1> HIDE DEF row
<1> QED
  BY <1>2, <1>3, <1>4 DEF ConversationTyped

(* What each step does to the conversation: to one message, or to none.      *)
Untouched == UNCHANGED <<scope, attempt, message, calls>>
Others(m) ==
    /\ UNCHANGED scope
    /\ \A n \in Messages : n # m => attempt'[n] = attempt[n] /\ message'[n] = message[n] /\ calls'[n] = calls[n]
Prepared(m) ==
    /\ attempt[m] = None /\ InScope
    /\ attempt' = [attempt EXCEPT ![m] = [status |-> "prepared", context |-> Context, result |-> None]]
    /\ UNCHANGED <<scope, message, calls>>
Recorded(m) ==
    HasStatus(m, {"result_saved"}) /\ Materialize(m) /\ UNCHANGED <<scope, calls>>
Answered(m) ==
    /\ \E result \in Results(m) :
          attempt' = [attempt EXCEPT ![m].result = result, ![m].status = StatusWithResult(m, result)]
    /\ HasStatus(m, {"dispatched", "finished"})
    /\ UNCHANGED <<scope, message, calls>>
Finished(m) ==
    /\ \/ /\ attempt[m] = None
          /\ attempt' = [attempt EXCEPT ![m] = [status |-> "finished", context |-> None, result |-> None]]
       \/ attempt[m] # None /\ ~HasStatus(m, {"completed"}) /\ Set(m, "finished")
    /\ UNCHANGED <<scope, message, calls>>
Ruled(m, s) ==
    /\ Pending(m)
    /\ message' = [message EXCEPT ![m].status = s]
    /\ UNCHANGED <<scope, attempt, calls>>

(* Every step of a request is one of them.                                  *)
LEMMA ConversationSteps ==
    ASSUME ConversationTyped, RequestsPlaced, NEW w \in Workers, RequestNext(w)
    PROVE  \/ Untouched
           \/ \E m \in Messages :
                 Prepared(m) \/ Finished(m) \/ (Free(Conversation) /\ Ruled(m, "rejected"))
           \/ /\ worker[w].message \in Messages
              /\ \/ Recorded(worker[w].message)
                 \/ /\ Dispatch(w)
                    /\ HasStatus(worker[w].message, {"prepared"}) /\ Set(worker[w].message, "dispatched")
                    /\ UNCHANGED <<scope, message, calls>>
                 \/ Call(w) /\ calls' = [calls EXCEPT ![worker[w].message] = @ + 1]
                    /\ UNCHANGED <<scope, attempt, message>>
                 \/ At(w, "answer") /\ Answered(worker[w].message)
                 \/ Adopt(w) /\ Adopting(w) /\ Ruled(worker[w].message, "accepted")
<1> DEFINE m == worker[w].message
<1>0. worker[w].step \in Talking => m \in Messages /\ attempt[m] # None
  BY DEF RequestsPlaced, Placed
<1>1. CASE AuthorNext(w) /\ UNCHANGED <<conversation, lost>>
  BY <1>1 DEF Untouched, conversation
<1>2. ASSUME NEW n \in Messages, Prepare(w, n) \/ Finish(w, n) \/ Discard(w, n)
      PROVE  Prepared(n) \/ Finished(n) \/ (Free(Conversation) /\ Ruled(n, "rejected"))
  BY <1>2 DEF Prepare, Finish, Discard, Prepared, Finished, Ruled, Locked, HasStatus
<1>3. ASSUME NEW n \in Messages, Again(w, n) \/ BeginAccept(w, n)
      PROVE  Untouched
  BY <1>3 DEF Again, BeginAccept, Untouched, conversation
<1>4. CASE Resume(w)
  BY <1>0, <1>4 DEF Resume, Recorded, Untouched, HasStatus, At, Talking
<1>5. CASE Dispatch(w)
  BY <1>0, <1>5 DEF Dispatch, CanDispatch, HasStatus, At, Talking
<1>6. CASE Call(w)
  BY <1>0, <1>6 DEF Call, At, Talking
<1>7. ASSUME NEW result \in IF At(w, "answer") THEN Results(m) ELSE {}, SaveResult(w, result)
      PROVE  m \in Messages /\ At(w, "answer") /\ Answered(m)
  <2>1. At(w, "answer") /\ result \in Results(m) /\ m \in Messages /\ attempt[m] # None
    BY <1>0, <1>7 DEF SaveResult, At, Talking
  <2> QED
    BY <1>7, <2>1 DEF SaveResult, Answered, HasStatus
<1>8. CASE Adopt(w)
  <2>1. m \in Messages /\ Pending(m) /\ Adopting(w)
    BY <1>0, <1>8 DEF Adopt, Adopting, RequestsPlaced, Placed, At, Talking
  <2> QED
    BY <1>8, <2>1 DEF Adopt, Adopted, Ruled
<1>9. CASE DispatchRefused(w) \/ CallFails(w) \/ AcceptLocksDocument(w) \/ AdoptRefused(w) \/ Crash(w)
  BY <1>9 DEF DispatchRefused, CallFails, AcceptLocksDocument, AdoptRefused, Crash, Untouched, conversation
<1> QED
  BY <1>1, <1>2, <1>3, <1>4, <1>5, <1>6, <1>7, <1>8, <1>9 DEF RequestNext

(* Each of these keeps the types and the scope.                              *)
LEMMA ConversationStays ==
    ASSUME DocumentsTyped, ConversationTyped, RequestsPlaced, CallsClaimed, CollaborationNext
    PROVE  ConversationTyped'
<1> DEFINE Effects(m) ==
        \/ Prepared(m) \/ Finished(m) \/ Ruled(m, "rejected") \/ Ruled(m, "accepted") \/ Recorded(m)
        \/ HasStatus(m, {"prepared"}) /\ Set(m, "dispatched") /\ UNCHANGED <<scope, message, calls>>
        \/ calls' = [calls EXCEPT ![m] = @ + 1] /\ UNCHANGED <<scope, attempt, message>>
        \/ (\E w \in Workers : At(w, "answer") /\ worker[w].message = m) /\ Answered(m)
<1>1. Untouched \/ \E m \in Messages : Effects(m)
  <2>1. PICK w \in Workers : RequestNext(w)
    BY DEF CollaborationNext
  <2> QED
    BY <2>1, ConversationSteps
<1>2. CASE Untouched
  BY <1>2, ScopeStays DEF Untouched, ConversationTyped
<1>3. ASSUME NEW m \in Messages, Effects(m)
      PROVE  ConversationTyped'
  <2>1. UNCHANGED scope /\ calls' \in [Messages -> Nat]
    BY <1>3 DEF Prepared, Finished, Ruled, Recorded, Answered, ConversationTyped
  <2> DEFINE Kept ==
          /\ attempt' \in [Messages -> AttemptRow \cup {None}]
          /\ message' \in [Messages -> MessageRow \cup {None}]
          /\ ScopeKept(m)'
          /\ \A n \in Messages : n # m => attempt'[n] = attempt[n] /\ message'[n] = message[n]
  <2>2. Kept
    <3>1. CASE Prepared(m)
      <4>1. Context \in ContextRow /\ (~Wide => DOMAIN Context.seen = {scope})
        BY <3>1, ContextTyped DEF Prepared
      <4>2. [status |-> "prepared", context |-> Context, result |-> None] \in AttemptRow
        BY <4>1 DEF AttemptRow
      <4>3. message[m] # None => message[m].status = None
        BY <3>1 DEF Prepared, ConversationTyped, ScopeKept, Asked
      <4>4. Context # None
        BY <4>1, MessageAssumption
      <4>5. /\ attempt'[m] = [status |-> "prepared", context |-> Context, result |-> None]
            /\ attempt' \in [Messages -> AttemptRow \cup {None}]
            /\ \A n \in Messages : n # m => attempt'[n] = attempt[n]
            /\ UNCHANGED <<scope, message>>
        BY <3>1, <4>2 DEF Prepared, ConversationTyped
      <4>6. attempt'[m].context = Context /\ attempt'[m].result = None /\ attempt'[m] # None
        BY <4>2, <4>5, MessageAssumption
      <4>7. ScopeKept(m)'
        BY <4>1, <4>3, <4>4, <4>5, <4>6 DEF ScopeKept, Asked, HasStatus, Targets, Wide
      <4> QED
        BY <4>5, <4>7 DEF ConversationTyped
    <3>2. CASE Finished(m)
      <4>1. CASE attempt[m] = None
        <5>1. attempt' = [attempt EXCEPT ![m] = [status |-> "finished", context |-> None, result |-> None]]
              /\ UNCHANGED <<scope, message>>
          BY <3>2, <4>1 DEF Finished
        <5>2. [status |-> "finished", context |-> None, result |-> None] \in AttemptRow
          BY DEF AttemptRow
        <5>3. message[m] # None => message[m].status = None
          BY <4>1 DEF ConversationTyped, ScopeKept, Asked
        <5> QED
          BY <5>1, <5>2, <5>3 DEF ConversationTyped, ScopeKept, Asked, HasStatus, Targets, Wide
      <4>2. CASE attempt[m] # None
        <5>1. Set(m, "finished") /\ UNCHANGED <<scope, message>>
          BY <3>2, <4>2 DEF Finished
        <5>2. /\ attempt' \in [Messages -> AttemptRow \cup {None}]
              /\ attempt'[m] # None /\ attempt'[m].status = "finished"
              /\ attempt'[m].context = attempt[m].context /\ attempt'[m].result = attempt[m].result
              /\ \A n \in Messages : n # m => attempt'[n] = attempt[n]
          BY <4>2, <5>1, AttemptSet
        <5> QED
          BY <4>2, <5>1, <5>2 DEF ConversationTyped, ScopeKept, Asked, HasStatus, Targets, Wide
      <4> QED
        BY <4>1, <4>2
    <3>3. ASSUME NEW s \in {"accepted", "rejected"}, Ruled(m, s)
          PROVE  Kept
      <4>1. /\ message' \in [Messages -> MessageRow \cup {None}] /\ message'[m] # None
            /\ message'[m].target = message[m].target /\ message[m] # None /\ message[m].status # None
            /\ \A n \in Messages : n # m => message'[n] = message[n]
        BY <3>3, Decided, MessageAssumption DEF Ruled, Pending
      <4> QED
        BY <3>3, <4>1 DEF Ruled, ConversationTyped, ScopeKept, Asked, HasStatus, Targets, Wide
    <3>4. CASE Recorded(m)
      <4>1. HasStatus(m, {"result_saved"}) /\ Materialize(m) /\ UNCHANGED scope
        BY <3>4 DEF Recorded
      <4>2. Asked(m) /\ ScopeKept(m)
        BY <4>1 DEF ConversationTyped, ScopeKept, HasStatus
      <4>3. /\ attempt' \in [Messages -> AttemptRow \cup {None}]
            /\ message' \in [Messages -> MessageRow \cup {None}]
            /\ attempt'[m] # None /\ attempt'[m].status = "completed"
            /\ attempt'[m].context = attempt[m].context /\ attempt'[m].result = attempt[m].result
            /\ message'[m].status # None =>
                  attempt[m].result.kind = "proposal" /\ message'[m].target = attempt[m].result.target
            /\ \A n \in Messages : n # m => attempt'[n] = attempt[n] /\ message'[n] = message[n]
        BY <4>1, Materialized
      <4>4. attempt[m].result # None
        BY <4>1, MessageAssumption DEF CallsClaimed, ClaimKept, HasStatus
      <4>5. ScopeKept(m)'
        BY <4>1, <4>2, <4>3, <4>4 DEF ScopeKept, Asked, HasStatus, Targets, Wide
      <4> QED
        BY <4>3, <4>5
    <3>5. CASE HasStatus(m, {"prepared"}) /\ Set(m, "dispatched") /\ UNCHANGED <<scope, message, calls>>
      <4>1. attempt[m] # None /\ attempt[m].status = "prepared"
        BY <3>5 DEF HasStatus
      <4>2. /\ attempt' \in [Messages -> AttemptRow \cup {None}]
            /\ attempt'[m] # None /\ attempt'[m].status = "dispatched"
            /\ attempt'[m].context = attempt[m].context /\ attempt'[m].result = attempt[m].result
            /\ \A n \in Messages : n # m => attempt'[n] = attempt[n]
        BY <3>5, <4>1, AttemptSet
      <4> QED
        BY <3>5, <4>1, <4>2 DEF ConversationTyped, ScopeKept, Asked, HasStatus, Targets, Wide
    <3>6. CASE UNCHANGED <<scope, attempt, message>>
      BY <3>6, ScopeStays DEF ConversationTyped
    <3>7. CASE (\E w \in Workers : At(w, "answer") /\ worker[w].message = m) /\ Answered(m)
      <4>1. PICK result \in Results(m) :
                attempt' = [attempt EXCEPT ![m].result = result, ![m].status = StatusWithResult(m, result)]
        BY <3>7 DEF Answered
      <4>2. Asked(m) /\ attempt[m] # None
        BY <3>7 DEF RequestsPlaced, Placed, At, Asked
      <4>3. Targets(m) \subseteq Docs \cup {None}
        <5>1. attempt[m].context \in ContextRow
          BY <4>2 DEF ConversationTyped, AttemptRow, Asked
        <5>2. DOMAIN attempt[m].context.seen \subseteq Docs
          BY <5>1 DEF ContextRow
        <5> QED
          BY <5>2 DEF Targets
      <4>4. result \in ResultRow /\ (result.kind = "proposal" => result.target \in Targets(m))
        BY <4>1, <4>3 DEF Results, ResultRow
      <4>5. PICK s \in {"dispatched", "finished", "result_saved"} :
                attempt' = [attempt EXCEPT ![m].result = result, ![m].status = s]
        BY <3>7, <4>1 DEF Answered, StatusWithResult, HasStatus
      <4>6. /\ attempt' \in [Messages -> AttemptRow \cup {None}]
            /\ attempt'[m] # None /\ attempt'[m].status = s
            /\ attempt'[m].context = attempt[m].context /\ attempt'[m].result = result
            /\ \A n \in Messages : n # m => attempt'[n] = attempt[n]
        BY <4>2, <4>4, <4>5, AttemptAnswered
      <4>7. UNCHANGED <<scope, message>>
        BY <3>7 DEF Answered
      <4> QED
        BY <4>2, <4>4, <4>6, <4>7 DEF ConversationTyped, ScopeKept, Asked, HasStatus, Targets, Wide
    <3> QED
      BY <1>3, <3>1, <3>2, <3>3, <3>4, <3>5, <3>6, <3>7
  <2> QED
    BY <2>1, <2>2, ScopeStays DEF ConversationTyped
<1> QED
  BY <1>1, <1>2, <1>3

-----------------------------------------------------------------------------
(* A request changes its own memory alone, and only the claim and the call    *)
(* leave it calling.                                                         *)
LEMMA CallerSteps ==
    ASSUME RequestsPlaced, NEW w \in Workers, RequestNext(w)
    PROVE  /\ worker' = [v \in Workers |-> worker'[v]]
           /\ \A v \in Workers : v # w => worker'[v] = worker[v]
           /\ Dispatch(w) \/ Call(w) \/ ~Calling(w)'
<1>1. ASSUME NEW next, Go(w, next), next.step \notin {"call", "answer"}
      PROVE  /\ worker' = [v \in Workers |-> worker'[v]]
             /\ \A v \in Workers : v # w => worker'[v] = worker[v]
             /\ ~Calling(w)'
  BY <1>1, Moved DEF Calling
<1>2. ASSUME UNCHANGED worker, At(w, "idle")
      PROVE  /\ worker' = [v \in Workers |-> worker'[v]]
             /\ \A v \in Workers : v # w => worker'[v] = worker[v]
             /\ ~Calling(w)'
  BY <1>2 DEF RequestsPlaced, Placed, Calling, At
<1>3. CASE AuthorNext(w)
  <2>1. ASSUME NEW d \in Docs, BeginWrite(w, d) \/ BeginRetitle(w, d) \/ \E deleted \in BOOLEAN : BeginTrash(w, d, deleted)
        PROVE  \E next : Go(w, next) /\ next.step \notin {"call", "answer"}
    <3>1. CASE BeginWrite(w, d)
      BY <3>1, [step |-> "write", doc |-> d].step = "write" DEF BeginWrite
    <3>2. CASE BeginRetitle(w, d)
      BY <3>2, [step |-> "retitle", doc |-> d, row |-> d].step = "retitle" DEF BeginRetitle
    <3>3. ASSUME NEW deleted \in BOOLEAN, BeginTrash(w, d, deleted)
          PROVE  \E next : Go(w, next) /\ next.step \notin {"call", "answer"}
      BY <3>3, [step |-> "trash", doc |-> d, deleted |-> deleted, row |-> Collection].step = "trash" DEF BeginTrash
    <3> QED
      BY <2>1, <3>1, <3>2, <3>3
  <2>2. ASSUME Write(w) \/ WriteRefused(w) \/ Trash(w) \/ TrashRefused(w) \/ Retitle(w) \/ Victim(w)
        PROVE  Go(w, Idle) /\ Idle.step \notin {"call", "answer"}
    BY <2>2 DEF Write, WriteRefused, Trash, TrashRefused, Retitle, Victim, Return, Idle
  <2>3. ASSUME NEW d \in Docs, CreateDocument(w, d)
        PROVE  UNCHANGED worker /\ At(w, "idle")
    BY <2>3 DEF CreateDocument
  <2>4. ASSUME Archive(w) \/ Rename(w)
        PROVE  UNCHANGED worker /\ At(w, "idle")
    BY <2>4 DEF Archive, Rename
  <2> QED
    BY <1>1, <1>2, <1>3, <2>1, <2>2, <2>3, <2>4 DEF AuthorNext
<1>4. ASSUME NEW m \in Messages, Prepare(w, m) \/ Again(w, m) \/ BeginAccept(w, m)
      PROVE  \E next : Go(w, next) /\ next.step \notin {"call", "answer"}
  BY <1>4 DEF Prepare, Again, BeginAccept
<1>5. ASSUME NEW m \in Messages, Finish(w, m) \/ Discard(w, m)
      PROVE  UNCHANGED worker /\ At(w, "idle")
  BY <1>5 DEF Finish, Discard, collectionVars
<1>6. ASSUME \/ Resume(w) \/ DispatchRefused(w) \/ CallFails(w) \/ AcceptLocksDocument(w)
             \/ Adopt(w) \/ AdoptRefused(w) \/ Crash(w)
             \/ \E result \in IF At(w, "answer") THEN Results(worker[w].message) ELSE {} : SaveResult(w, result)
      PROVE  \E next : Go(w, next) /\ next.step \notin {"call", "answer"}
  <2> DEFINE Elsewhere == \E next : Go(w, next) /\ next.step \notin {"call", "answer"}
             m == worker[w].message
  <2>1. Idle.step = "idle" /\ [step |-> "dispatch", message |-> m].step = "dispatch"
        /\ [step |-> "resume", message |-> m].step = "resume" /\ [step |-> "adopt", message |-> m].step = "adopt"
    BY DEF Idle
  <2>2. CASE Resume(w)
    BY <2>1, <2>2 DEF Resume
  <2>3. CASE DispatchRefused(w) \/ CallFails(w) \/ Adopt(w) \/ AdoptRefused(w) \/ Crash(w)
    BY <2>1, <2>3 DEF DispatchRefused, CallFails, Adopt, AdoptRefused, Crash, Return
  <2>4. CASE AcceptLocksDocument(w)
    BY <2>1, <2>4 DEF AcceptLocksDocument, Return
  <2>5. ASSUME NEW result \in IF At(w, "answer") THEN Results(m) ELSE {}, SaveResult(w, result)
        PROVE  Elsewhere
    BY <2>1, <2>5 DEF SaveResult
  <2> QED
    BY <1>6, <2>2, <2>3, <2>4, <2>5
<1>7. ASSUME Dispatch(w) \/ Call(w)
      PROVE  /\ worker' = [v \in Workers |-> worker'[v]]
             /\ \A v \in Workers : v # w => worker'[v] = worker[v]
  BY <1>7, Moved DEF Dispatch, Call
<1> QED
  BY <1>1, <1>2, <1>3, <1>4, <1>5, <1>6, <1>7 DEF RequestNext

(* A message nothing happens to.                                             *)
LEMMA ClaimStays ==
    ASSUME NEW n \in Messages, ClaimKept(n), PaidOnce(n),
           attempt'[n] = attempt[n], message'[n] = message[n], calls'[n] = calls[n]
    PROVE  ClaimKept(n)' /\ PaidOnce(n)'
BY DEF ClaimKept, PaidOnce, HasStatus

(* What happens to a message leaves it called for at most once, whoever asks  *)
(* for it, and makes no request a second caller.                             *)
LEMMA CallsStay ==
    ASSUME DocumentsTyped, ConversationTyped, RequestsPlaced, CallsClaimed, CalledOnce, CollaborationNext
    PROVE  CallsClaimed' /\ CalledOnce'
<1> DEFINE Kept(m) == ClaimKept(m) /\ PaidOnce(m)
<1>1. PICK w \in Workers : RequestNext(w)
  BY DEF CollaborationNext
<1>2. \A n \in Messages : ClaimKept(n) /\ PaidOnce(n)
  BY DEF CallsClaimed, CalledOnce, PaidOnce
<1>3. \A v \in Workers : v # w => worker'[v] = worker[v]
  BY <1>1, CallerSteps
<1>4. \A v \in Workers : Calling(v) => worker[v].message \in Messages /\ attempt[worker[v].message] # None
  BY DEF RequestsPlaced, Placed, Calling, Talking
<1>5. (\A n \in Messages : ClaimKept(n)' /\ PaidOnce(n)') => (\A n \in Messages : ClaimKept(n)') /\ CalledOnce'
  BY DEF PaidOnce, CalledOnce
<1> DEFINE m == worker[w].message
<1>6. CASE Dispatch(w)
  <2>1. /\ m \in Messages /\ attempt[m] # None /\ attempt[m].status = "prepared"
        /\ Set(m, "dispatched") /\ UNCHANGED <<message, calls>>
        /\ worker'[w] = [step |-> "call", message |-> m]
    BY <1>6, Moved DEF Dispatch, CanDispatch, RequestsPlaced, Placed, At, Talking
  <2>2. /\ attempt'[m] # None /\ attempt'[m].status = "dispatched"
        /\ \A n \in Messages : n # m => attempt'[n] = attempt[n]
    BY <2>1, AttemptSet
  <2>3. calls[m] = 0 /\ message[m] = None
    BY <1>2, <2>1 DEF ClaimKept, PaidOnce, HasStatus
  <2>4. ClaimKept(m)' /\ PaidOnce(m)'
    BY <2>1, <2>2, <2>3 DEF ClaimKept, PaidOnce, HasStatus
  <2>5. \A n \in Messages : ClaimKept(n)' /\ PaidOnce(n)'
    BY <1>2, <2>1, <2>2, <2>4, ClaimStays
  <2>6. \A v \in Workers : Calling(v) => worker[v].message # m
    BY <2>1, <2>3 DEF CallsClaimed, HasStatus
  <2>7. \A v \in Workers :
           /\ Calling(v)' => ~HasStatus(worker[v].message, {"prepared"})'
           /\ At(v, "call")' => calls'[worker'[v].message] = 0
           /\ At(v, "answer")' => calls'[worker'[v].message] = 1
    BY <1>3, <1>4, <2>1, <2>2, <2>3, <2>6 DEF CallsClaimed, Calling, At, HasStatus
  <2>8. \A u, v \in Workers :
           Calling(u)' /\ Calling(v)' /\ worker'[u].message = worker'[v].message => u = v
    BY <1>3, <2>1, <2>6 DEF CallsClaimed, Calling
  <2> QED
    BY <1>5, <2>5, <2>7, <2>8 DEF CallsClaimed
<1>7. CASE Call(w)
  <2>1. /\ m \in Messages /\ attempt[m] # None /\ At(w, "call")
        /\ calls' = [calls EXCEPT ![m] = @ + 1] /\ UNCHANGED <<attempt, message>>
        /\ worker'[w] = [step |-> "answer", message |-> m]
    BY <1>7, Moved DEF Call, RequestsPlaced, Placed, At, Talking
  <2>2. calls[m] = 0 /\ ~HasStatus(m, {"prepared"})
    BY <2>1 DEF CallsClaimed, At, Calling
  <2>3. calls'[m] = 1 /\ \A n \in Messages : n # m => calls'[n] = calls[n]
    BY <2>1, <2>2 DEF ConversationTyped
  <2>4. ~HasStatus(m, {"completed"}) /\ ~HasStatus(m, {"result_saved"}) /\ message[m] = None
    BY <1>2, <2>1, <2>2 DEF ClaimKept, PaidOnce, HasStatus
  <2>5. ClaimKept(m)' /\ PaidOnce(m)'
    BY <2>1, <2>2, <2>3, <2>4 DEF ClaimKept, PaidOnce, HasStatus
  <2>6. \A n \in Messages : ClaimKept(n)' /\ PaidOnce(n)'
    BY <1>2, <2>1, <2>3, <2>5, ClaimStays
  <2>7. \A v \in Workers : v # w /\ Calling(v) => worker[v].message # m
    BY <2>1 DEF CallsClaimed, At, Calling
  <2>8. \A v \in Workers :
           /\ Calling(v)' => ~HasStatus(worker[v].message, {"prepared"})'
           /\ At(v, "call")' => calls'[worker'[v].message] = 0
           /\ At(v, "answer")' => calls'[worker'[v].message] = 1
    BY <1>3, <1>4, <2>1, <2>2, <2>3, <2>7 DEF CallsClaimed, Calling, At, HasStatus
  <2>9. \A u, v \in Workers :
           Calling(u)' /\ Calling(v)' /\ worker'[u].message = worker'[v].message => u = v
    BY <1>3, <2>1, <2>7 DEF CallsClaimed, Calling
  <2> QED
    BY <1>5, <2>6, <2>8, <2>9 DEF CallsClaimed
<1>8. CASE ~Dispatch(w) /\ ~Call(w)
  <2>1. ~Calling(w)'
    BY <1>1, <1>8, CallerSteps
  <2> DEFINE Rest(n) ==
          /\ ClaimKept(n)' /\ PaidOnce(n)'
          /\ attempt[n] # None => (HasStatus(n, {"prepared"})' => HasStatus(n, {"prepared"}))
          /\ calls'[n] = calls[n]
  <2>2. \A n \in Messages : attempt'[n] = attempt[n] /\ message'[n] = message[n] /\ calls'[n] = calls[n] => Rest(n)
    BY <1>2, ClaimStays DEF HasStatus
  <2> DEFINE Alone(k) == \A n \in Messages : n # k =>
                 attempt'[n] = attempt[n] /\ message'[n] = message[n] /\ calls'[n] = calls[n]
  <2>3. ASSUME NEW k \in Messages, Prepared(k)
        PROVE  Rest(k) /\ Alone(k)
    <3> DEFINE row == [status |-> "prepared", context |-> Context, result |-> None]
    <3>1. /\ attempt[k] = None /\ attempt' = [attempt EXCEPT ![k] = row]
          /\ UNCHANGED <<message, calls>> /\ row.status = "prepared"
      BY <2>3 DEF Prepared
    <3> HIDE DEF row
    <3>2. attempt'[k] = row /\ \A n \in Messages : n # k => attempt'[n] = attempt[n]
      BY <3>1 DEF ConversationTyped
    <3>3. calls[k] = 0 /\ message[k] = None
      BY <1>2, <3>1 DEF ClaimKept, PaidOnce, HasStatus
    <3> QED
      BY <3>1, <3>2, <3>3 DEF ClaimKept, PaidOnce, HasStatus
  <2>4. ASSUME NEW k \in Messages, Finished(k)
        PROVE  Rest(k) /\ Alone(k)
    <3>1. /\ attempt'[k] # None => attempt'[k].status = "finished"
          /\ attempt[k] # None => attempt'[k] # None
          /\ \A n \in Messages : n # k => attempt'[n] = attempt[n]
          /\ UNCHANGED <<message, calls>>
      <4>1. CASE attempt[k] = None
        <5> DEFINE row == [status |-> "finished", context |-> None, result |-> None]
        <5>1. attempt' = [attempt EXCEPT ![k] = row] /\ row.status = "finished" /\ UNCHANGED <<message, calls>>
          BY <2>4, <4>1 DEF Finished
        <5> HIDE DEF row
        <5> QED
          BY <4>1, <5>1 DEF ConversationTyped
      <4>2. CASE attempt[k] # None
        BY <2>4, <4>2, AttemptSet DEF Finished
      <4> QED
        BY <4>1, <4>2
    <3>2. ~HasStatus(k, {"completed"})
      BY <2>4 DEF Finished, HasStatus
    <3>3. message[k] = None /\ calls[k] <= 1 /\ (attempt[k] = None => calls[k] = 0)
      BY <1>2, <3>2 DEF ClaimKept, PaidOnce
    <3> QED
      BY <3>1, <3>3 DEF ClaimKept, PaidOnce, HasStatus
  <2>5. ASSUME NEW k \in Messages, NEW s \in {"accepted", "rejected"}, Ruled(k, s)
        PROVE  Rest(k) /\ Alone(k)
    <3>1. /\ message[k] # None /\ message'[k] # None /\ UNCHANGED <<attempt, calls>>
          /\ \A n \in Messages : n # k => message'[n] = message[n]
      BY <2>5, Decided DEF Ruled, Pending
    <3> QED
      BY <1>2, <3>1 DEF ClaimKept, PaidOnce, HasStatus
  <2>6. ASSUME NEW k \in Messages, Recorded(k)
        PROVE  Rest(k) /\ Alone(k)
    <3>1. HasStatus(k, {"result_saved"}) /\ Materialize(k) /\ UNCHANGED calls
      BY <2>6 DEF Recorded
    <3>2. /\ attempt'[k] # None /\ attempt'[k].status = "completed" /\ attempt'[k].result = attempt[k].result
          /\ message'[k] # None
          /\ \A n \in Messages : n # k => attempt'[n] = attempt[n] /\ message'[n] = message[n]
      BY <3>1, Materialized
    <3>3. calls[k] = 1 /\ attempt[k].result \in ResultRow /\ attempt[k].result.kind # "invalid"
      BY <1>2, <3>1 DEF ClaimKept, HasStatus
    <3> QED
      BY <3>1, <3>2, <3>3 DEF ClaimKept, PaidOnce, HasStatus
  <2>7. ASSUME NEW k \in Messages, k = m, At(w, "answer"), Answered(k)
        PROVE  Rest(k) /\ Alone(k)
    <3>1. PICK result \in Results(k), s \in {"dispatched", "finished", "result_saved"} :
             /\ attempt' = [attempt EXCEPT ![k].result = result, ![k].status = s]
             /\ s = "result_saved" => result.kind # "invalid"
      BY <2>7 DEF Answered, StatusWithResult, HasStatus
    <3>2. attempt[k] # None /\ Asked(k) /\ attempt[k].status \in {"dispatched", "finished"}
      BY <2>7 DEF RequestsPlaced, Placed, At, Asked, Answered, HasStatus
    <3>3. result \in ResultRow
      <4>1. attempt[k].context \in ContextRow
        BY <2>7, <3>2 DEF ConversationTyped, AttemptRow, Asked
      <4>2. DOMAIN attempt[k].context.seen \subseteq Docs
        BY <4>1 DEF ContextRow
      <4> QED
        BY <3>1, <4>2 DEF Results, ResultRow, Targets
    <3>4. /\ attempt'[k] # None /\ attempt'[k].status = s /\ attempt'[k].result = result
          /\ \A n \in Messages : n # k => attempt'[n] = attempt[n]
      BY <3>1, <3>2, <3>3, AttemptAnswered
    <3>5. calls[k] = 1 /\ message[k] = None /\ UNCHANGED <<message, calls>>
      BY <1>2, <2>7, <3>2 DEF CallsClaimed, PaidOnce, HasStatus, Answered
    <3>6. /\ ~HasStatus(k, {"prepared"})' /\ ~HasStatus(k, {"completed"})'
          /\ HasStatus(k, {"result_saved", "completed"})' => result.kind # "invalid"
      BY <3>1, <3>4 DEF HasStatus
    <3>7. ClaimKept(k)'
      BY <3>3, <3>4, <3>5, <3>6 DEF ClaimKept
    <3>8. PaidOnce(k)'
      BY <3>5, <3>6 DEF PaidOnce
    <3> QED
      BY <3>4, <3>5, <3>6, <3>7, <3>8
  <2>8. \A n \in Messages : Rest(n)
    <3>1. ASSUME NEW k \in Messages, Rest(k), Alone(k)
          PROVE  \A n \in Messages : Rest(n)
      BY <2>2, <3>1
    <3>2. CASE Untouched
      BY <2>2, <3>2 DEF Untouched
    <3> HIDE DEF Rest, Alone
    <3>3. \/ Untouched
          \/ \E k \in Messages : Prepared(k) \/ Finished(k) \/ Ruled(k, "rejected")
          \/ m \in Messages /\ (Recorded(m) \/ (At(w, "answer") /\ Answered(m)) \/ Ruled(m, "accepted"))
      BY <1>1, <1>8, ConversationSteps
    <3> QED
      BY <2>3, <2>4, <2>5, <2>6, <2>7, <3>1, <3>2, <3>3
  <2>9. \A v \in Workers :
           /\ Calling(v)' => ~HasStatus(worker[v].message, {"prepared"})'
           /\ At(v, "call")' => calls'[worker'[v].message] = 0
           /\ At(v, "answer")' => calls'[worker'[v].message] = 1
    BY <1>3, <1>4, <2>1, <2>8 DEF CallsClaimed, Calling, At
  <2>10. \A u, v \in Workers :
           Calling(u)' /\ Calling(v)' /\ worker'[u].message = worker'[v].message => u = v
    BY <1>3, <2>1 DEF CallsClaimed, Calling
  <2> QED
    BY <1>5, <2>8, <2>9, <2>10 DEF CallsClaimed
<1> QED
  BY <1>6, <1>7, <1>8

-----------------------------------------------------------------------------
(* A request locks free rows, and frees only its own.                        *)
LEMMA LocksKept ==
    ASSUME RequestsPlaced, DocumentsTyped, ConversationTyped, NEW w \in Workers, RequestNext(w)
    PROVE  /\ lock' \in [Rows -> Workers \cup {None}]
           /\ \A v \in Workers, r \in Rows : v # w /\ lock[r] = v => lock'[r] = v
<1> DEFINE Kept ==
        /\ lock' \in [Rows -> Workers \cup {None}]
        /\ \A v \in Workers, r \in Rows : v # w /\ lock[r] = v => lock'[r] = v
<1> SUFFICES Kept
  OBVIOUS
<1>1. CASE UNCHANGED lock
  BY <1>1 DEF RequestsPlaced, Placed
<1>2. CASE Return(w)
  BY <1>2 DEF Return, Released, RequestsPlaced, Placed
<1>3. ASSUME NEW r \in Rows, Free(r), Lock(w, r)
      PROVE  Kept
  BY <1>3, RowAssumption DEF Free, Lock, RequestsPlaced, Placed
<1>4. CASE AuthorNext(w)
  <2>1. ASSUME NEW d \in Docs, BeginWrite(w, d) \/ \E deleted \in BOOLEAN : BeginTrash(w, d, deleted)
        PROVE  d \in Rows /\ Free(d) /\ Lock(w, d)
    BY <2>1 DEF BeginWrite, BeginTrash, Rows
  <2>2. ASSUME NEW d \in Docs, BeginRetitle(w, d)
        PROVE  Collection \in Rows /\ Free(Collection) /\ Lock(w, Collection)
    BY <2>2 DEF BeginRetitle, Rows
  <2>3. ASSUME NEW d \in Docs, CreateDocument(w, d)
        PROVE  UNCHANGED lock
    BY <2>3 DEF CreateDocument
  <2>4. ASSUME Archive(w) \/ Rename(w)
        PROVE  UNCHANGED lock
    BY <2>4 DEF Archive, Rename
  <2>5. ASSUME Write(w) \/ WriteRefused(w) \/ Trash(w) \/ TrashRefused(w) \/ Retitle(w) \/ Victim(w)
        PROVE  Return(w)
    BY <2>5 DEF Write, WriteRefused, Trash, TrashRefused, Retitle, Victim
  <2> HIDE DEF Kept
  <2> QED
    BY <1>1, <1>2, <1>3, <1>4, <2>1, <2>2, <2>3, <2>4, <2>5 DEF AuthorNext
<1>5. ASSUME NEW m \in Messages, BeginAccept(w, m)
      PROVE  Conversation \in Rows /\ Free(Conversation) /\ Lock(w, Conversation)
  BY <1>5 DEF BeginAccept, Locked, Rows
<1>6. CASE AcceptLocksDocument(w)
  <2> DEFINE d == message[worker[w].message].target
  <2>1. d # None /\ Free(d) /\ (Lock(w, d) \/ Return(w)) /\ At(w, "accept")
    BY <1>6 DEF AcceptLocksDocument
  <2>2. Pending(worker[w].message) /\ worker[w].message \in Messages
    BY <2>1 DEF RequestsPlaced, Placed, At, Talking
  <2>3. d \in Rows
    BY <2>1, <2>2 DEF ConversationTyped, MessageRow, Pending, Rows
  <2> HIDE DEF Kept, d
  <2> QED
    BY <1>2, <1>3, <2>1, <2>3
<1>7. ASSUME Adopt(w) \/ AdoptRefused(w) \/ Crash(w)
      PROVE  Return(w)
  BY <1>7 DEF Adopt, AdoptRefused, Crash
<1>8. ASSUME \/ \E m \in Messages : Prepare(w, m) \/ Again(w, m) \/ Finish(w, m) \/ Discard(w, m)
             \/ Resume(w) \/ Dispatch(w) \/ DispatchRefused(w) \/ Call(w) \/ CallFails(w)
             \/ \E result \in IF At(w, "answer") THEN Results(worker[w].message) ELSE {} : SaveResult(w, result)
      PROVE  UNCHANGED lock
  BY <1>8 DEF Prepare, Again, Finish, Discard, Resume, Dispatch, DispatchRefused, Call, CallFails, SaveResult,
              collectionVars
<1> HIDE DEF Kept
<1> QED
  BY <1>1, <1>2, <1>3, <1>4, <1>5, <1>6, <1>7, <1>8 DEF RequestNext

(* No document is removed, and one is trashed only by whoever has locked it.  *)
LEMMA DocumentsKept ==
    ASSUME RequestsPlaced, DocumentsTyped, ConversationTyped, NEW w \in Workers, RequestNext(w), NEW d \in Docs, doc[d] # None
    PROVE  doc'[d] # None /\ (Live(d) => Live(d)' \/ (At(w, "trash") /\ lock[d] = w))
<1>1. doc[d] \in Document
  BY DEF DocumentsTyped
<1>2. CASE UNCHANGED doc
  BY <1>2 DEF Live
<1>3. ASSUME NEW x, doc' = [doc EXCEPT ![d] = x], x \in Document, x.deleted = doc[d].deleted
      PROVE  doc'[d] # None /\ (Live(d) => Live(d)')
  BY <1>3, RowAssumption DEF Live, DocumentsTyped
<1>4. ASSUME NEW e \in Docs, NEW x, doc' = [doc EXCEPT ![e] = x], e # d
      PROVE  doc'[d] = doc[d]
  BY <1>4 DEF DocumentsTyped
<1>5. /\ [doc[d] EXCEPT !.version = @ + 1] \in Document
      /\ [doc[d] EXCEPT !.version = @ + 1].deleted = doc[d].deleted
      /\ [doc[d] EXCEPT !.title = @ + 1] \in Document
      /\ [doc[d] EXCEPT !.title = @ + 1].deleted = doc[d].deleted
  BY <1>1 DEF Document
<1>6. ASSUME NEW e \in Docs, \/ doc' = [doc EXCEPT ![e].version = @ + 1]
                             \/ doc' = [doc EXCEPT ![e].title = @ + 1]
      PROVE  doc'[d] # None /\ (Live(d) => Live(d)')
  <2>1. CASE e = d
    BY <1>3, <1>5, <1>6, <2>1
  <2>2. CASE e # d
    BY <1>4, <1>6, <2>2 DEF Live
  <2> QED
    BY <2>1, <2>2
<1>7. ASSUME NEW e \in Docs, doc[e] = None, doc' = [doc EXCEPT ![e] = NewDocument]
      PROVE  doc'[d] # None /\ (Live(d) => Live(d)')
  BY <1>4, <1>7 DEF Live
<1>8. CASE Trash(w)
  <2>1. /\ At(w, "trash") /\ worker[w].doc \in Docs /\ worker[w].deleted \in BOOLEAN /\ lock[worker[w].doc] = w
        /\ doc' = [doc EXCEPT ![worker[w].doc].deleted = worker[w].deleted]
    BY <1>8 DEF Trash, RequestsPlaced, Placed, At, Editing
  <2>2. CASE worker[w].doc = d
    BY <2>1, <2>2, RowWritten DEF DocumentsTyped
  <2>3. CASE worker[w].doc # d
    BY <1>4, <2>1, <2>3 DEF Live
  <2> QED
    BY <2>2, <2>3
<1>9. CASE Adopt(w)
  <2> DEFINE t == message[worker[w].message].target
  <2>1. Pending(worker[w].message) /\ worker[w].message \in Messages
    BY <1>9 DEF Adopt, Adopting, RequestsPlaced, Placed, At, Talking
  <2>2. t \in Docs \cup {None}
    BY <2>1 DEF ConversationTyped, MessageRow, Pending
  <2>3. \/ \E e \in Docs : doc[e] = None /\ doc' = [doc EXCEPT ![e] = NewDocument]
        \/ t # None /\ doc' = [doc EXCEPT ![t].version = @ + 1]
    BY <1>9 DEF Adopt, Adopted
  <2> QED
    BY <1>6, <1>7, <2>2, <2>3
<1>10. CASE AuthorNext(w) /\ ~Trash(w)
  <2>1. \/ UNCHANGED doc
        \/ \E e \in Docs : doc[e] = None /\ doc' = [doc EXCEPT ![e] = NewDocument]
        \/ (Write(w) \/ Retitle(w)) /\ \E e \in {worker[w].doc} :
              doc' = [doc EXCEPT ![e].version = @ + 1] \/ doc' = [doc EXCEPT ![e].title = @ + 1]
    BY <1>10
    DEF AuthorNext, BeginWrite, BeginRetitle, CreateDocument, BeginTrash, Write, WriteRefused,
        TrashRefused, Retitle, Archive, Rename, Victim, collection
  <2>2. Write(w) \/ Retitle(w) => worker[w].doc \in Docs
    BY DEF Write, Retitle, RequestsPlaced, Placed, At, Editing
  <2> QED
    BY <1>2, <1>6, <1>7, <2>1, <2>2
<1>11. CASE ~AuthorNext(w) /\ ~Adopt(w)
  <2>1. UNCHANGED doc
    BY <1>11 DEF RequestNext, Prepare, Again, Finish, BeginAccept, Discard, Resume, Dispatch,
         DispatchRefused, Call, CallFails, SaveResult, AcceptLocksDocument, AdoptRefused, Crash,
         collectionVars, collection
  <2> QED
    BY <1>2, <2>1
<1> QED
  BY <1>8, <1>9, <1>10, <1>11

(* No attempt is removed, an ended one stays ended, and a proposal is decided *)
(* by nobody while another request holds the conversation.                   *)
LEMMA MessagesKept ==
    ASSUME DocumentsTyped, ConversationTyped, RequestsPlaced, CallsClaimed, CalledOnce,
           NEW w \in Workers, RequestNext(w), NEW n \in Messages
    PROVE  /\ attempt[n] # None => attempt'[n] # None
           /\ Asked(n) => Asked(n)' /\ attempt'[n].context = attempt[n].context
           /\ Pending(n) => \/ Pending(n)' /\ message'[n].target = message[n].target
                            \/ lock[Conversation] \in {None, w}
           /\ HasStatus(n, {"finished"}) => HasStatus(n, {"finished"})' /\ message'[n] = message[n]
<1> DEFINE Kept ==
        /\ attempt[n] # None => attempt'[n] # None
        /\ Asked(n) => Asked(n)' /\ attempt'[n].context = attempt[n].context
        /\ Pending(n) => \/ Pending(n)' /\ message'[n].target = message[n].target
                         \/ lock[Conversation] \in {None, w}
        /\ HasStatus(n, {"finished"}) => HasStatus(n, {"finished"})' /\ message'[n] = message[n]
<1> SUFFICES Kept
  OBVIOUS
<1>1. CASE attempt'[n] = attempt[n] /\ message'[n] = message[n]
  BY <1>1 DEF Asked, Pending, HasStatus
<1>2. ASSUME NEW k \in Messages, Prepared(k)
      PROVE  Kept
  <2>1. k # n => attempt'[n] = attempt[n] /\ message'[n] = message[n]
    BY <1>2 DEF Prepared, ConversationTyped
  <2>2. k = n => ~Asked(n) /\ attempt[n] = None /\ ~Pending(n)
    BY <1>2 DEF Prepared, Asked, CalledOnce, HasStatus, Pending
  <2> QED
    BY <1>1, <2>1, <2>2 DEF HasStatus
<1>3. ASSUME NEW k \in Messages, Finished(k)
      PROVE  Kept
  <2>1. UNCHANGED message
    BY <1>3 DEF Finished
  <2>2. CASE attempt[k] = None
    <3>1. k # n => attempt'[n] = attempt[n]
      BY <1>3, <2>2 DEF Finished, ConversationTyped
    <3>2. k = n => ~Asked(n) /\ ~Pending(n)
      BY <2>2 DEF Asked, CalledOnce, HasStatus, Pending
    <3> QED
      BY <1>1, <2>1, <2>2, <3>1, <3>2 DEF HasStatus
  <2>3. CASE attempt[k] # None
    <3>1. /\ attempt'[k] # None /\ attempt'[k].status = "finished" /\ attempt'[k].context = attempt[k].context
          /\ k # n => attempt'[n] = attempt[n]
      BY <1>3, <2>3, AttemptSet DEF Finished
    <3> QED
      BY <1>1, <2>1, <2>3, <3>1 DEF HasStatus, Asked, Pending
  <2> QED
    BY <2>2, <2>3
<1>4. ASSUME NEW k \in Messages, NEW s \in {"accepted", "rejected"}, Ruled(k, s), lock[Conversation] \in {None, w}
      PROVE  Kept
  <2>1. UNCHANGED attempt /\ message[k] # None
    BY <1>4 DEF Ruled, Pending
  <2>2. k # n => message'[n] = message[n]
    BY <1>4, <2>1, Decided DEF Ruled
  <2>3. ~HasStatus(k, {"finished"})
    BY <2>1 DEF CalledOnce, HasStatus
  <2> QED
    BY <1>1, <1>4, <2>1, <2>2, <2>3 DEF Asked
<1>5. ASSUME NEW k \in Messages, Recorded(k)
      PROVE  Kept
  <2>1. HasStatus(k, {"result_saved"}) /\ Materialize(k)
    BY <1>5 DEF Recorded
  <2>2. /\ attempt'[k] # None /\ attempt'[k].context = attempt[k].context
        /\ k # n => attempt'[n] = attempt[n] /\ message'[n] = message[n]
    BY <2>1, Materialized
  <2>3. message[k] = None /\ ~HasStatus(k, {"finished"})
    BY <2>1 DEF CalledOnce, HasStatus
  <2> QED
    BY <1>1, <2>2, <2>3 DEF Asked, Pending
<1>6. ASSUME NEW k \in Messages, HasStatus(k, {"prepared"}), Set(k, "dispatched"), UNCHANGED message
      PROVE  Kept
  <2>1. attempt[k] # None /\ attempt[k].status = "prepared"
    BY <1>6 DEF HasStatus
  <2>2. /\ attempt'[k] # None /\ attempt'[k].context = attempt[k].context
        /\ k # n => attempt'[n] = attempt[n]
    BY <1>6, <2>1, AttemptSet
  <2> QED
    BY <1>1, <1>6, <2>1, <2>2 DEF Asked, Pending, HasStatus
<1>7. ASSUME NEW k \in Messages, k = worker[w].message, At(w, "answer"), Answered(k)
      PROVE  Kept
  <2>1. PICK result \in Results(k) :
            attempt' = [attempt EXCEPT ![k].result = result, ![k].status = StatusWithResult(k, result)]
    BY <1>7 DEF Answered
  <2>2. attempt[k] # None /\ Asked(k) /\ UNCHANGED message
    BY <1>7 DEF RequestsPlaced, Placed, At, Asked, Answered
  <2>3. result \in ResultRow
    <3>1. attempt[k].context \in ContextRow
      BY <2>2 DEF ConversationTyped, AttemptRow, Asked
    <3>2. DOMAIN attempt[k].context.seen \subseteq Docs
      BY <3>1 DEF ContextRow
    <3> QED
      BY <2>1, <3>2 DEF Results, ResultRow, Targets
  <2>4. PICK s \in {"dispatched", "finished", "result_saved"} :
            /\ attempt' = [attempt EXCEPT ![k].result = result, ![k].status = s]
            /\ HasStatus(k, {"finished"}) => s = "finished"
    BY <1>7, <2>1 DEF Answered, StatusWithResult, HasStatus
  <2>5. /\ attempt'[k] # None /\ attempt'[k].status = s /\ attempt'[k].context = attempt[k].context
        /\ k # n => attempt'[n] = attempt[n]
    BY <2>2, <2>3, <2>4, AttemptAnswered
  <2> QED
    BY <1>1, <2>2, <2>4, <2>5 DEF Asked, Pending, HasStatus
<1>8. \/ attempt'[n] = attempt[n] /\ message'[n] = message[n]
      \/ \E k \in Messages :
            \/ Prepared(k) \/ Finished(k) \/ Recorded(k)
            \/ (\E s \in {"accepted", "rejected"} : Ruled(k, s)) /\ lock[Conversation] \in {None, w}
            \/ HasStatus(k, {"prepared"}) /\ Set(k, "dispatched") /\ UNCHANGED message
            \/ k = worker[w].message /\ At(w, "answer") /\ Answered(k)
  <2>1. Adopting(w) => lock[Conversation] = w
    BY DEF Adopting, RequestsPlaced, Placed, At
  <2> QED
    BY <2>1, ConversationSteps DEF Untouched, Free
<1> HIDE DEF Kept
<1> QED
  BY <1>1, <1>2, <1>3, <1>4, <1>5, <1>6, <1>7, <1>8

(* A request that does nothing keeps what it has found.                      *)
LEMMA WaitingStays ==
    ASSUME DocumentsTyped, ConversationTyped, RequestsPlaced, CallsClaimed, CalledOnce,
           NEW w \in Workers, RequestNext(w), NEW v \in Workers, v # w
    PROVE  Placed(v)'
<1>1. worker'[v] = worker[v]
  BY CallerSteps
<1>2. w # None /\ v # None
  BY RowAssumption
<1>3. \A r \in Rows : lock[r] = v => lock'[r] = v
  BY LocksKept
<1>4. worker[v].step \in {"idle"} \cup Talking \cup Editing
  BY DEF RequestsPlaced, Placed
<1>5. CASE worker[v].step \in Editing
  <2>1. /\ worker[v].doc \in Docs /\ doc[worker[v].doc] # None
        /\ At(v, "trash") => worker[v].deleted \in BOOLEAN /\ lock[worker[v].doc] = v
    BY <1>5 DEF RequestsPlaced, Placed
  <2>2. doc'[worker[v].doc] # None
    BY <2>1, DocumentsKept
  <2>3. At(v, "trash") => lock'[worker[v].doc] = v
    BY <1>3, <2>1 DEF Rows
  <2> QED
    BY <1>1, <1>5, <2>1, <2>2, <2>3 DEF Placed, At, Editing, Talking
<1>6. CASE worker[v].step \in Talking
  <2> DEFINE m == worker[v].message
  <2>1. /\ m \in Messages /\ attempt[m] # None
        /\ worker[v].step \in {"call", "answer"} => Asked(m)
        /\ worker[v].step \in {"accept", "adopt"} => Pending(m) /\ lock[Conversation] = v
        /\ At(v, "adopt") => message[m].target # None /\ Live(message[m].target) /\ lock[message[m].target] = v
    BY <1>6 DEF RequestsPlaced, Placed
  <2>2. PICK n \in Messages : n = m
    BY <2>1
  <2>3. attempt'[n] # None /\ (Asked(n) => Asked(n)')
    BY <2>1, <2>2, MessagesKept
  <2>4. CASE worker[v].step \in {"accept", "adopt"}
    <3>1. Pending(n)' /\ message'[n].target = message[n].target /\ lock'[Conversation] = v
      BY <1>2, <1>3, <2>1, <2>2, <2>4, MessagesKept DEF Rows
    <3>2. CASE At(v, "adopt")
      <4>1. message[n].target \in Docs
        BY <2>1, <2>2, <3>2 DEF ConversationTyped, MessageRow, Pending, At
      <4>2. Live(message[n].target)' /\ lock'[message[n].target] = v
        <5>1. PICK d \in Docs : d = message[n].target
          BY <4>1
        <5>2. Live(d) /\ lock[d] = v /\ doc[d] # None
          BY <2>1, <2>2, <3>2, <5>1 DEF Live
        <5>3. Live(d)'
          BY <5>2, DocumentsKept
        <5>4. lock'[d] = v
          BY <1>3, <5>2 DEF Rows
        <5> QED
          BY <3>1, <5>1, <5>3, <5>4 DEF Live
      <4> QED
        BY <1>1, <2>1, <2>2, <2>3, <3>1, <3>2, <4>2 DEF Placed, At, Talking, Editing, Live
    <3>3. CASE ~At(v, "adopt")
      BY <1>1, <2>1, <2>2, <2>3, <2>4, <3>1, <3>3 DEF Placed, At, Talking, Editing
    <3> QED
      BY <3>2, <3>3
  <2>5. CASE worker[v].step \notin {"accept", "adopt"}
    BY <1>1, <1>6, <2>1, <2>2, <2>3, <2>5 DEF Placed, At, Talking, Editing
  <2> QED
    BY <2>4, <2>5
<1>7. CASE worker[v].step = "idle"
  BY <1>1, <1>7 DEF Placed, At, Talking, Editing
<1> QED
  BY <1>4, <1>5, <1>6, <1>7

(* A request that moves on has just found it.                                *)
LEMMA MovingStays ==
    ASSUME DocumentsTyped, ConversationTyped, RequestsPlaced, CallsClaimed, CalledOnce,
           NEW w \in Workers, RequestNext(w)
    PROVE  Placed(w)'
<1>1. ASSUME worker'[w].step = "idle"
      PROVE  Placed(w)'
  BY <1>1 DEF Placed, At, Talking, Editing
<1>2. ASSUME UNCHANGED worker, At(w, "idle")
      PROVE  Placed(w)'
  BY <1>1, <1>2 DEF At
<1>3. ASSUME Go(w, Idle)
      PROVE  Placed(w)'
  BY <1>1, <1>3, Moved DEF Idle
<1>4. \A n \in Messages : attempt[n] # None => attempt'[n] # None
  BY MessagesKept
<1>5. \A d \in Docs : doc[d] # None => doc'[d] # None
  BY DocumentsKept
<1>6. CASE AuthorNext(w)
  <2>1. ASSUME NEW d \in Docs, BeginWrite(w, d)
        PROVE  Placed(w)'
    <3>1. worker'[w] = [step |-> "write", doc |-> d] /\ doc[d] # None
      BY <2>1, Moved DEF BeginWrite, Live
    <3> QED
      BY <1>5, <3>1 DEF Placed, At, Talking, Editing
  <2>2. ASSUME NEW d \in Docs, BeginRetitle(w, d)
        PROVE  Placed(w)'
    <3>1. worker'[w] = [step |-> "retitle", doc |-> d, row |-> d] /\ doc[d] # None
      BY <2>2, Moved DEF BeginRetitle, Live
    <3> QED
      BY <1>5, <3>1 DEF Placed, At, Talking, Editing
  <2>3. ASSUME NEW d \in Docs, NEW deleted \in BOOLEAN, BeginTrash(w, d, deleted)
        PROVE  Placed(w)'
    <3>1. worker'[w] = [step |-> "trash", doc |-> d, deleted |-> deleted, row |-> Collection] /\ doc[d] # None
      BY <2>3, Moved DEF BeginTrash
    <3>2. lock'[d] = w
      BY <2>3 DEF BeginTrash, Lock, RequestsPlaced, Rows
    <3> QED
      BY <1>5, <3>1, <3>2 DEF Placed, At, Talking, Editing
  <2>4. ASSUME Write(w) \/ WriteRefused(w) \/ Trash(w) \/ TrashRefused(w) \/ Retitle(w) \/ Victim(w)
        PROVE  Go(w, Idle)
    BY <2>4 DEF Write, WriteRefused, Trash, TrashRefused, Retitle, Victim, Return
  <2>5. ASSUME NEW d \in Docs, CreateDocument(w, d)
        PROVE  UNCHANGED worker /\ At(w, "idle")
    BY <2>5 DEF CreateDocument
  <2>6. ASSUME Archive(w) \/ Rename(w)
        PROVE  UNCHANGED worker /\ At(w, "idle")
    BY <2>6 DEF Archive, Rename
  <2> QED
    BY <1>2, <1>3, <1>6, <2>1, <2>2, <2>3, <2>4, <2>5, <2>6 DEF AuthorNext
<1>7. ASSUME NEW m \in Messages, attempt'[m] # None,
             NEW s \in {"resume", "dispatch"}, Go(w, [step |-> s, message |-> m])
      PROVE  Placed(w)'
  <2>1. worker'[w] = [step |-> s, message |-> m]
    BY <1>7, Moved
  <2> QED
    BY <1>7, <2>1 DEF Placed, At, Talking, Editing
<1>8. ASSUME NEW m \in Messages, Prepare(w, m)
      PROVE  Placed(w)'
  <2> DEFINE row == [status |-> "prepared", context |-> Context, result |-> None]
  <2>1. Context \in ContextRow
    BY <1>8, ContextTyped DEF Prepare, Locked
  <2>2. row \in AttemptRow
    BY <2>1 DEF AttemptRow
  <2>3. row # None
    BY <2>2, MessageAssumption
  <2>4. attempt' = [attempt EXCEPT ![m] = row] /\ Go(w, [step |-> "resume", message |-> m])
    BY <1>8 DEF Prepare
  <2> HIDE DEF row
  <2>5. attempt'[m] # None
    BY <2>3, <2>4 DEF ConversationTyped
  <2> QED
    BY <1>7, <2>4, <2>5
<1>9. ASSUME NEW m \in Messages, Again(w, m)
      PROVE  Placed(w)'
  BY <1>4, <1>7, <1>9 DEF Again
<1>10. ASSUME NEW m \in Messages, Finish(w, m) \/ Discard(w, m)
       PROVE  Placed(w)'
  BY <1>2, <1>10 DEF Finish, Discard, collectionVars
<1>11. ASSUME NEW m \in Messages, BeginAccept(w, m)
       PROVE  Placed(w)'
  <2> DEFINE row == IF message[m].target = None THEN Collection ELSE message[m].target
  <2>1. worker'[w] = [step |-> "accept", message |-> m, row |-> row]
    BY <1>11, Moved DEF BeginAccept
  <2>2. Pending(m)' /\ attempt'[m] # None
    BY <1>11 DEF BeginAccept, Pending, conversation, CalledOnce, HasStatus
  <2>3. lock'[Conversation] = w
    BY <1>11 DEF BeginAccept, Lock, RequestsPlaced, Rows
  <2> QED
    BY <2>1, <2>2, <2>3 DEF Placed, At, Talking, Editing
<1>12. worker[w].step \in Talking => worker[w].message \in Messages /\ attempt[worker[w].message] # None
  BY DEF RequestsPlaced, Placed
<1>13. CASE Resume(w)
  <2>1. PICK m \in Messages : m = worker[w].message /\ attempt[m] # None
    BY <1>12, <1>13 DEF Resume, At, Talking
  <2>2. Go(w, Idle) \/ Go(w, [step |-> "dispatch", message |-> m])
    BY <1>13, <2>1 DEF Resume
  <2> QED
    BY <1>3, <1>4, <1>7, <2>1, <2>2
<1>14. CASE Dispatch(w)
  <2>1. PICK m \in Messages : m = worker[w].message /\ attempt[m] # None
    BY <1>12, <1>14 DEF Dispatch, At, Talking
  <2>2. worker'[w] = [step |-> "call", message |-> m] /\ attempt[m].status = "prepared"
    BY <1>14, <2>1, Moved DEF Dispatch, CanDispatch
  <2>3. Asked(m)
    BY <2>1, <2>2 DEF ConversationTyped, ScopeKept, HasStatus
  <2>4. Asked(m)' /\ attempt'[m] # None
    BY <2>1, <2>3, MessagesKept
  <2> QED
    BY <2>2, <2>4 DEF Placed, At, Talking, Editing
<1>15. CASE Call(w)
  <2>1. PICK m \in Messages : m = worker[w].message /\ attempt[m] # None
    BY <1>12, <1>15 DEF Call, At, Talking
  <2>2. worker'[w] = [step |-> "answer", message |-> m] /\ Asked(m)
    BY <1>15, <2>1, Moved DEF Call, RequestsPlaced, Placed, At
  <2>3. Asked(m)' /\ attempt'[m] # None
    BY <2>1, <2>2, MessagesKept
  <2> QED
    BY <2>2, <2>3 DEF Placed, At, Talking, Editing
<1>16. CASE AcceptLocksDocument(w)
  <2>1. PICK m \in Messages : m = worker[w].message /\ attempt[m] # None
    BY <1>12, <1>16 DEF AcceptLocksDocument, At, Talking
  <2>2. At(w, "accept") /\ Pending(m) /\ lock[Conversation] = w
    BY <1>16, <2>1 DEF AcceptLocksDocument, RequestsPlaced, Placed, At
  <2>3. message[m].target # None /\ UNCHANGED <<doc, attempt, message>>
    BY <1>16, <2>1 DEF AcceptLocksDocument, collection, conversation
  <2>4. PICK d \in Docs : d = message[m].target
    BY <2>2, <2>3 DEF ConversationTyped, MessageRow, Pending
  <2>5. CASE Live(d)
    <3>1. worker'[w] = [step |-> "adopt", message |-> m] /\ Lock(w, d) /\ Free(d)
      BY <1>16, <2>1, <2>4, <2>5, Moved DEF AcceptLocksDocument
    <3>2. lock'[d] = w /\ lock'[Conversation] = w
      BY <2>2, <3>1, RowAssumption DEF Lock, RequestsPlaced, Rows
    <3> QED
      BY <2>1, <2>2, <2>3, <2>4, <2>5, <3>1, <3>2 DEF Placed, At, Talking, Editing, Live, Pending
  <2>6. CASE ~Live(d)
    BY <1>3, <1>16, <2>1, <2>4, <2>6 DEF AcceptLocksDocument, Return
  <2> QED
    BY <2>5, <2>6
<1>17. ASSUME NEW result \in IF At(w, "answer") THEN Results(worker[w].message) ELSE {}, SaveResult(w, result)
       PROVE  Placed(w)'
  <2>1. PICK m \in Messages : m = worker[w].message /\ attempt[m] # None
    BY <1>12, <1>17 DEF SaveResult, At, Talking
  <2>2. Go(w, Idle) \/ Go(w, [step |-> "resume", message |-> m])
    BY <1>17, <2>1 DEF SaveResult
  <2> QED
    BY <1>3, <1>4, <1>7, <2>1, <2>2
<1>18. CASE DispatchRefused(w) \/ CallFails(w) \/ Adopt(w) \/ AdoptRefused(w) \/ Crash(w)
  BY <1>3, <1>18 DEF DispatchRefused, CallFails, Adopt, AdoptRefused, Crash, Return
<1> QED
  BY <1>6, <1>8, <1>9, <1>10, <1>11, <1>13, <1>14, <1>15, <1>16, <1>17, <1>18 DEF RequestNext

(* So all of them do.                                                       *)
LEMMA RequestsStay ==
    ASSUME DocumentsTyped, ConversationTyped, RequestsPlaced, CallsClaimed, CalledOnce, CollaborationNext
    PROVE  RequestsPlaced'
<1>1. PICK w \in Workers : RequestNext(w)
  BY DEF CollaborationNext
<1>2. \A v \in Workers : Placed(v)'
  BY <1>1, WaitingStays, MovingStays
<1>3. worker' = [v \in Workers |-> worker'[v]] /\ lock' \in [Rows -> Workers \cup {None}]
  BY <1>1, CallerSteps, LocksKept
<1> QED
  BY <1>2, <1>3 DEF RequestsPlaced

-----------------------------------------------------------------------------
(* The versions a message has led to, and what a new version adds to them.    *)
LEMMA VersionsAre ==
    ASSUME NEW m, NEW v
    PROVE  v \in Versions(m) <=> \E d \in Docs : \E k \in DOMAIN by[d] : by[d][k] = m /\ v = <<d, k>>
BY DEF Versions

(* A version more of one document is a version more of its writer.          *)
LEMMA VersionAdded ==
    ASSUME DocumentsTyped, NEW d \in Docs, NEW x \in Messages \cup {None},
           by' = [by EXCEPT ![d] = Append(@, x)], NEW m \in Messages
    PROVE  Versions(m)' = IF x = m THEN Versions(m) \cup {<<d, Len(by[d]) + 1>>} ELSE Versions(m)
<1> DEFINE n == Len(by[d]) + 1
<1>1. by[d] \in Seq(Messages \cup {None}) /\ Len(by[d]) \in Nat /\ DOMAIN by[d] = 1 .. Len(by[d])
  BY DEF DocumentsTyped
<1>2. by'[d] = Append(by[d], x) /\ \A e \in Docs : e # d => by'[e] = by[e]
  BY DEF DocumentsTyped
<1>3. /\ DOMAIN by'[d] = 1 .. n /\ by'[d][n] = x
      /\ \A k \in DOMAIN by[d] : by'[d][k] = by[d][k]
  BY <1>1, <1>2
<1>4. ASSUME NEW v
      PROVE  v \in Versions(m)' <=> \E e \in Docs : \E k \in DOMAIN by'[e] : by'[e][k] = m /\ v = <<e, k>>
  BY DEF Versions
<1>5. ASSUME NEW v
      PROVE  v \in Versions(m)' <=> v \in Versions(m) \/ (x = m /\ v = <<d, n>>)
  <2>1. ASSUME v \in Versions(m)'
        PROVE  v \in Versions(m) \/ (x = m /\ v = <<d, n>>)
    <3>1. PICK e \in Docs : \E k \in DOMAIN by'[e] : by'[e][k] = m /\ v = <<e, k>>
      BY <1>4, <2>1
    <3>2. PICK k \in DOMAIN by'[e] : by'[e][k] = m /\ v = <<e, k>>
      BY <3>1
    <3>3. CASE e = d /\ k = n
      BY <1>3, <3>2, <3>3
    <3>4. CASE ~(e = d /\ k = n)
      <4>1. k \in DOMAIN by[e] /\ by[e][k] = m
        BY <1>1, <1>2, <1>3, <3>2, <3>4
      <4> QED
        BY <3>2, <4>1, VersionsAre
    <3> QED
      BY <3>3, <3>4
  <2>2. ASSUME v \in Versions(m)
        PROVE  v \in Versions(m)'
    <3>1. PICK e \in Docs : \E k \in DOMAIN by[e] : by[e][k] = m /\ v = <<e, k>>
      BY <2>2, VersionsAre
    <3>2. PICK k \in DOMAIN by[e] : by[e][k] = m /\ v = <<e, k>>
      BY <3>1
    <3>3. k \in DOMAIN by'[e] /\ by'[e][k] = m
      BY <1>1, <1>2, <1>3, <3>2
    <3> QED
      BY <1>4, <3>2, <3>3
  <2>3. ASSUME x = m, v = <<d, n>>
        PROVE  v \in Versions(m)'
    <3>1. n \in DOMAIN by'[d] /\ by'[d][n] = m
      BY <1>1, <1>3, <2>3
    <3> QED
      BY <1>4, <2>3, <3>1
  <2> QED
    BY <2>1, <2>2, <2>3
<1>6. CASE x = m
  BY <1>5, <1>6
<1>7. CASE x # m
  BY <1>5, <1>7
<1> QED
  BY <1>6, <1>7

(* Nothing but an adoption writes a version for a message or accepts one.     *)
Accepted(m) == message[m] # None /\ message[m].status = "accepted"
LEMMA OnlyAdoption ==
    ASSUME DocumentsTyped, ConversationTyped, RequestsPlaced, CallsClaimed, CalledOnce,
           NEW w \in Workers, RequestNext(w), ~Adopt(w), NEW m \in Messages
    PROVE  Versions(m)' = Versions(m) /\ (Accepted(m)' <=> Accepted(m))
<1>1. Versions(m)' = Versions(m)
  <2>1. CASE UNCHANGED by
    BY <2>1 DEF Versions
  <2>2. CASE Write(w)
    <3>1. worker[w].doc \in Docs
      BY <2>2 DEF Write, RequestsPlaced, Placed, At, Editing
    <3>2. by' = [by EXCEPT ![worker[w].doc] = Append(@, None)] /\ None # m
      BY <2>2, MessageAssumption DEF Write
    <3> QED
      BY <3>1, <3>2, VersionAdded
  <2>3. ASSUME NEW d \in Docs, CreateDocument(w, d)
        PROVE  Versions(m)' = Versions(m)
    <3>1. by[d] = <<>> /\ by' = [by EXCEPT ![d] = <<None>>] /\ None # m
      BY <2>3, MessageAssumption DEF CreateDocument, DocumentsTyped
    <3>2. Append(by[d], None) = <<None>>
      BY <3>1
    <3>3. by' = [by EXCEPT ![d] = Append(@, None)]
      BY <3>1, <3>2
    <3> QED
      BY <3>1, <3>3, VersionAdded
  <2>4. CASE AuthorNext(w)
    BY <2>1, <2>2, <2>3, <2>4
    DEF AuthorNext, BeginWrite, BeginRetitle, BeginTrash, WriteRefused, Trash,
        TrashRefused, Retitle, Archive, Rename, Victim, collection
  <2>5. CASE ~AuthorNext(w)
    <3>1. UNCHANGED by
      BY <2>5 DEF RequestNext, Prepare, Again, Finish, BeginAccept, Discard, Resume, Dispatch,
         DispatchRefused, Call, CallFails, SaveResult, AcceptLocksDocument, AdoptRefused, Crash,
         collectionVars, collection
    <3> QED
      BY <2>1, <3>1
  <2> QED
    BY <2>4, <2>5
<1>2. Accepted(m)' <=> Accepted(m)
  <2>1. CASE message'[m] = message[m]
    BY <2>1 DEF Accepted
  <2>2. ASSUME NEW k \in Messages, Ruled(k, "rejected")
        PROVE  Accepted(m)' <=> Accepted(m)
    <3>1. message[k] # None /\ message[k].status = "pending"
      BY <2>2 DEF Ruled, Pending
    <3>2. message'[k].status = "rejected" /\ (k # m => message'[m] = message[m])
      BY <2>2, <3>1, Decided DEF Ruled
    <3> QED
      BY <3>1, <3>2 DEF Accepted
  <2>3. ASSUME NEW k \in Messages, Recorded(k)
        PROVE  Accepted(m)' <=> Accepted(m)
    <3>1. HasStatus(k, {"result_saved"}) /\ Materialize(k)
      BY <2>3 DEF Recorded
    <3>2. message'[k].status # "accepted" /\ (k # m => message'[m] = message[m])
      BY <3>1, Materialized
    <3>3. message[k] = None
      BY <3>1 DEF CalledOnce, HasStatus
    <3> QED
      BY <3>2, <3>3 DEF Accepted
  <2>4. \/ message'[m] = message[m]
        \/ \E k \in Messages : Ruled(k, "rejected") \/ Recorded(k)
    BY ConversationSteps DEF Untouched, Prepared, Finished, Answered
  <2> QED
    BY <2>1, <2>2, <2>3, <2>4
<1> QED
  BY <1>1, <1>2

(* An adoption adds one version, for a proposal nobody has decided.          *)
LEMMA AdoptionAdds ==
    ASSUME DocumentsTyped, ConversationTyped, RequestsPlaced, AdoptedOnce, NEW w \in Workers, Adopt(w)
    PROVE  \E m \in Messages :
              /\ m = worker[w].message /\ Pending(m)
              /\ Accepted(m)' /\ \E v : Versions(m)' = {v}
              /\ \A n \in Messages : n # m => Versions(n)' = Versions(n) /\ message'[n] = message[n]
<1>1. PICK m \in Messages : m = worker[w].message /\ Pending(m)
  BY DEF Adopt, Adopting, RequestsPlaced, Placed, At, Talking
<1> DEFINE t == message[m].target
<1>2. message[m] # None /\ message[m].status = "pending"
  BY <1>1 DEF Pending
<1>3. Versions(m) = {}
  BY <1>2 DEF AdoptedOnce
<1>4. message' = [message EXCEPT ![m].status = "accepted"]
  BY <1>1 DEF Adopt, Adopted
<1>5. Accepted(m)' /\ \A n \in Messages : n # m => message'[n] = message[n]
  BY <1>2, <1>4, Decided DEF Accepted
<1>6. PICK d \in Docs : by' = [by EXCEPT ![d] = Append(@, m)]
  <2>1. CASE t = None
    <3>1. PICK d \in Docs : doc[d] = None /\ by' = [by EXCEPT ![d] = <<m>>]
      BY <1>1, <2>1 DEF Adopt, Adopted
    <3>2. by[d] = <<>> /\ Append(<<>>, m) = <<m>>
      BY <3>1 DEF DocumentsTyped
    <3>3. by' = [by EXCEPT ![d] = Append(@, m)]
      BY <3>1, <3>2
    <3> QED
      BY <3>3
  <2>2. CASE t # None
    <3>1. t \in Docs
      BY <1>2, <2>2 DEF ConversationTyped, MessageRow
    <3>2. by' = [by EXCEPT ![t] = Append(@, m)]
      BY <1>1, <2>2 DEF Adopt, Adopted
    <3> QED
      BY <3>1, <3>2
  <2> QED
    BY <2>1, <2>2
<1>7. \A n \in Messages :
         Versions(n)' = IF m = n THEN Versions(n) \cup {<<d, Len(by[d]) + 1>>} ELSE Versions(n)
  BY <1>6, VersionAdded
<1> QED
  BY <1>1, <1>3, <1>5, <1>7

(* So versions and decisions stay together.                                 *)
LEMMA AdoptionsStay ==
    ASSUME DocumentsTyped, ConversationTyped, RequestsPlaced, CallsClaimed, CalledOnce, AdoptedOnce,
           CollaborationNext
    PROVE  AdoptedOnce'
<1>1. PICK w \in Workers : RequestNext(w)
  BY DEF CollaborationNext
<1>2. CASE ~Adopt(w)
  <2>1. \A m \in Messages : Versions(m)' = Versions(m) /\ (Accepted(m)' <=> Accepted(m))
    BY <1>1, <1>2, OnlyAdoption
  <2> QED
    BY <2>1 DEF AdoptedOnce, Accepted
<1>3. CASE Adopt(w)
  <2>1. PICK m \in Messages :
              /\ Accepted(m)' /\ \E v : Versions(m)' = {v}
              /\ \A n \in Messages : n # m => Versions(n)' = Versions(n) /\ message'[n] = message[n]
    BY <1>3, AdoptionAdds
  <2> QED
    BY <2>1 DEF AdoptedOnce, Accepted
<1> QED
  BY <1>2, <1>3

-----------------------------------------------------------------------------
(* At the start nothing has been asked.                                     *)
LEMMA SettingStarts == CollaborationInit => SettingInv
<1> SUFFICES ASSUME CollaborationInit
             PROVE  SettingInv
  OBVIOUS
<1> USE DEF CollaborationInit, CollectionInit
<1>1. DocumentsTyped
  <2>1. NewDocument \in Document /\ NewDocument # None
    <3>1. NewDocument \in Document
      BY DEF NewDocument, Document
    <3> QED
      BY <3>1, RowAssumption
  <2>2. <<None>> \in Seq(Messages \cup {None}) /\ <<>> \in Seq(Messages \cup {None})
    OBVIOUS
  <2>3. doc \in [Docs -> Document \cup {None}] /\ \A d \in Docs : doc[d] = None => by[d] = <<>>
    BY <2>1
  <2>4. by \in [Docs -> Seq(Messages \cup {None})]
    BY <2>2
  <2> QED
    BY <2>3, <2>4 DEF DocumentsTyped
<1>2. ConversationTyped
  <2>1. scope \in Docs \cup {Collection}
    BY CollectionBounds, ConversationBounds
  <2> QED
    BY <2>1 DEF ConversationTyped, ScopeKept, Asked, HasStatus
<1>3. RequestsPlaced
  BY DEF RequestsPlaced, Placed, Idle, At, Talking, Editing
<1>4. CallsClaimed /\ CalledOnce
  BY DEF CallsClaimed, ClaimKept, CalledOnce, Calling, HasStatus, Idle, At
<1>5. AdoptedOnce
  <2>1. \A m \in Messages, d \in Docs : \A k \in DOMAIN by[d] : by[d][k] # m
    BY MessageAssumption
  <2>2. \A m \in Messages : Versions(m) = {}
    BY <2>1 DEF Versions
  <2> QED
    BY <2>2 DEF AdoptedOnce
<1> QED
  BY <1>1, <1>2, <1>3, <1>4, <1>5 DEF SettingInv

(* Each step keeps the invariant, conjunct by conjunct.                      *)
LEMMA SettingInvStep == SettingInv /\ [CollaborationNext]_collaborationVars => SettingInv'
<1> SUFFICES ASSUME SettingInv, [CollaborationNext]_collaborationVars
             PROVE  SettingInv'
  OBVIOUS
<1>1. CASE CollaborationNext
  BY <1>1, DocumentsStay, ConversationStays, RequestsStay, CallsStay, AdoptionsStay DEF SettingInv
<1>2. CASE UNCHANGED collaborationVars
  <2>1. UNCHANGED <<archived, name, doc, by, lock, worker, scope, attempt, message, calls>>
    BY <1>2 DEF collaborationVars, collectionVars, collection, conversation
  <2>2. DocumentsTyped'
    BY <2>1 DEF SettingInv, DocumentsTyped
  <2>3. ConversationTyped'
    BY <2>1 DEF SettingInv, ConversationTyped, ScopeKept, Asked, Targets, Wide, HasStatus
  <2>4. RequestsPlaced'
    BY <2>1 DEF SettingInv, RequestsPlaced, Placed, At, Pending, Live, Asked
  <2>5. CallsClaimed' /\ CalledOnce'
    BY <2>1 DEF SettingInv, CallsClaimed, ClaimKept, Calling, At, CalledOnce, HasStatus
  <2>6. AdoptedOnce'
    BY <2>1 DEF SettingInv, AdoptedOnce, Versions
  <2> QED
    BY <2>2, <2>3, <2>4, <2>5, <2>6 DEF SettingInv
<1> QED
  BY <1>1, <1>2

(* Where every request stands to the rows, and what it may rely on           *)
(* (_resume_locked, accept).                                                 *)
THEOREM SettingInvariant == CollaborationSpec => []SettingInv
<1> QED
  BY SettingStarts, SettingInvStep, PTL DEF CollaborationSpec

(* A message is put to the provider at most once (_resume_locked).            *)
THEOREM MessagesCalledOnce == CollaborationSpec => []CalledOnce
<1>1. SettingInv => CalledOnce
  BY DEF SettingInv
<1> QED
  BY <1>1, SettingInvariant, PTL

(* A proposal becomes at most one version, together with the author's         *)
(* decision (accept).                                                        *)
THEOREM ProposalsAdoptedOnce == CollaborationSpec => []AdoptedOnce
<1>1. SettingInv => AdoptedOnce
  BY DEF SettingInv
<1> QED
  BY <1>1, SettingInvariant, PTL

(* What the author has ended stays ended (finish_attempt).                    *)
THEOREM EndedMessagesStay == CollaborationSpec => EndedStays
<1>1. SettingInv /\ [CollaborationNext]_collaborationVars =>
          [\A m \in Messages : HasStatus(m, {"finished"}) =>
              HasStatus(m, {"finished"})' /\ message'[m] = message[m]]_collaborationVars
  BY MessagesKept DEF SettingInv, CollaborationNext
<1> QED
  BY <1>1, SettingInvariant, PTL DEF CollaborationSpec, EndedStays

(* An adoption changes what the agent has seen, and nothing else has changed  *)
(* in its scope (_check_snapshot).                                           *)
LEMMA AdoptionIsCurrent ==
    ASSUME SettingInv, NEW w \in Workers, Adopt(w), NEW m \in Messages, m = worker[w].message
    PROVE  LET context == attempt[m].context
           IN  /\ \A d \in DOMAIN context.seen :
                     doc[d] = [version |-> context.seen[d].version, title |-> context.seen[d].title,
                               deleted |-> FALSE]
               /\ Wide => context.name = name /\ \A d \in Docs : Live(d) => d \in DOMAIN context.seen
<1> DEFINE context == attempt[m].context
           t == message[m].target
<1> USE DEF SettingInv
<1>1. Pending(m) /\ AsProposed(m) /\ (At(w, "adopt") => t # None /\ Live(t)) /\ (At(w, "accept") => t = None)
  BY DEF Adopt, Adopting, CanAdopt, RequestsPlaced, Placed, At
<1>2. At(w, "adopt") \/ At(w, "accept")
  BY DEF Adopt, Adopting
<1>3. Asked(m) /\ t \in Targets(m)
  BY <1>1, MessageAssumption DEF Pending, ConversationTyped, ScopeKept
<1>4. ASSUME NEW d \in Docs, Live(d)
      PROVE  doc[d] = [version |-> doc[d].version, title |-> doc[d].title, deleted |-> FALSE]
  <2>1. doc[d] \in Document /\ doc[d].deleted \in BOOLEAN /\ ~doc[d].deleted
    BY <1>4 DEF Live, DocumentsTyped, Document
  <2>2. doc[d].deleted = FALSE
    BY <2>1, Zenon
  <2> QED
    BY <2>1, <2>2 DEF Document
<1>5. CASE Wide
  <2>1. context = [name |-> name, seen |-> Snapshot]
    BY <1>1, <1>5 DEF AsProposed
  <2>2. context.name = name /\ context.seen = Snapshot
    BY <2>1
  <2>3. DOMAIN Snapshot = {d \in Docs : Live(d)}
        /\ \A d \in Docs : Live(d) => Snapshot[d] = [version |-> doc[d].version, title |-> doc[d].title]
    BY DEF Snapshot
  <2>4. \A d \in Docs : Live(d) => Snapshot[d].version = doc[d].version /\ Snapshot[d].title = doc[d].title
    BY <2>3
  <2> QED
    BY <1>4, <2>2, <2>3, <2>4
<1>6. CASE ~Wide
  <2>1. DOMAIN context.seen = {scope} /\ scope \in Docs
    BY <1>3, <1>6 DEF ConversationTyped, ScopeKept, Wide
  <2>2. t = scope /\ t # None
    BY <1>3, <1>6, <2>1, RowAssumption DEF Targets, Rows
  <2>3. Live(scope) /\ [version |-> doc[scope].version, title |-> doc[scope].title] = context.seen[scope]
    BY <1>1, <1>2, <2>2 DEF AsProposed
  <2>4. context.seen[scope].version = doc[scope].version /\ context.seen[scope].title = doc[scope].title
    BY <2>3
  <2> QED
    BY <1>4, <1>6, <2>1, <2>3, <2>4
<1> QED
  BY <1>5, <1>6

(* A proposal changes documents only as its agent saw them (accept).          *)
THEOREM ProposalsAdoptedAsSeen == CollaborationSpec => AdoptedAsSeen
<1> DEFINE Current(m) ==
        LET context == attempt[m].context
        IN  /\ \A d \in DOMAIN context.seen :
                  doc[d] = [version |-> context.seen[d].version, title |-> context.seen[d].title,
                            deleted |-> FALSE]
            /\ Wide => context.name = name /\ \A d \in Docs : Live(d) => d \in DOMAIN context.seen
<1>1. ASSUME SettingInv, CollaborationNext, NEW m \in Messages, Versions(m)' # Versions(m)
      PROVE  Current(m)
  <2>1. PICK w \in Workers : RequestNext(w)
    BY <1>1 DEF CollaborationNext
  <2>2. Adopt(w)
    BY <1>1, <2>1, OnlyAdoption DEF SettingInv
  <2>3. m = worker[w].message
    BY <1>1, <2>2, AdoptionAdds DEF SettingInv
  <2> QED
    BY <1>1, <2>2, <2>3, AdoptionIsCurrent
<1>2. SettingInv /\ [CollaborationNext]_collaborationVars =>
          [\A m \in Messages : Versions(m)' # Versions(m) => Current(m)]_collaborationVars
  BY <1>1
<1> QED
  BY <1>2, SettingInvariant, PTL DEF CollaborationSpec, AdoptedAsSeen
=============================================================================
