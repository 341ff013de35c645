------------------------- MODULE SettingCollaboration -------------------------
(***************************************************************************)
(* The author's conversation with the agent of a setting collection or of    *)
(* one of its documents: SettingCollaborationService, over the documents and *)
(* the row locks of SettingCollection.                                       *)
(*                                                                          *)
(* A message is prepared, claimed for dispatch just before the provider's    *)
(* HTTP request, answered and recorded in transactions of their own, each    *)
(* under the conversation's lock; the client may send it again, resume it or *)
(* end it at any time, also before its first send arrives.  The answer may   *)
(* carry a proposal, which the author adopts or discards.  A message, its    *)
(* attempt and its proposal have one identity.                               *)
(***************************************************************************)
EXTENDS SettingCollection

CONSTANTS
    Messages,   \* the messages the client sends, by client_message_id
    Scopes,     \* what conversations are about: Collection, or a document
    MaxLost     \* bound on the requests that die
ASSUME ConversationBounds ==
    /\ Scopes \subseteq Existing \cup {Collection}
    /\ MaxLost \in Nat

VARIABLES
    scope,     \* what the conversation is about
    attempt,   \* each message's SettingCollaborationAttempt, or None
    message,   \* the pair of messages an attempt is completed with, or None
    calls,     \* HTTP requests to the provider for each message
    lost       \* requests that have died

conversation == <<scope, attempt, message, calls>>
collaborationVars == <<collectionVars, conversation, lost>>

(* What an agent is shown of a document, what it is asked with, what it may   *)
(* answer, and the rows that keep this.                                      *)
Seen == [version : Nat, title : Nat]
ContextRow == [name : Nat, seen : UNION {[S -> Seen] : S \in SUBSET Docs}]
ResultRow == [kind : {"reply", "invalid"}] \cup [kind : {"proposal"}, target : Docs \cup {None}]
AttemptRow ==
    [status : {"prepared", "dispatched", "result_saved", "completed", "finished"},
     context : ContextRow \cup {None}, result : ResultRow \cup {None}]
MessageRow ==
    [status : {"pending", "accepted", "rejected", None}, target : Docs \cup {None}]
ASSUME MessageAssumption ==
    None \notin ContextRow \cup ResultRow \cup AttemptRow \cup MessageRow \cup Messages
            \cup {"pending", "accepted", "rejected"}

(* _ACTIVE_ATTEMPTS                                                         *)
Active == {"prepared", "dispatched", "result_saved"}

CollaborationInit ==
    /\ CollectionInit
    /\ scope \in Scopes
    /\ attempt = [m \in Messages |-> None]
    /\ message = [m \in Messages |-> None]
    /\ calls = [m \in Messages |-> 0]
    /\ lost = 0

-----------------------------------------------------------------------------
Wide == scope = Collection
InScope == ~Wide => Live(scope)
HasStatus(m, S) == attempt[m] # None /\ attempt[m].status \in S

(* get(lock=True): the requests below do one transaction in a step, so it is   *)
(* enough that no other holds the conversation.                              *)
Locked == Free(Conversation) /\ InScope

Set(m, status) == attempt' = [attempt EXCEPT ![m].status = status]

(* _prepare_context: all documents as they are saved, or the one.            *)
Context ==
    [name |-> name, seen |-> IF Wide THEN Snapshot ELSE [d \in {scope} |-> Snapshot[d]]]

(* The documents an answer may propose to change; None proposes a new one.   *)
Targets(m) == DOMAIN attempt[m].context.seen \cup IF Wide THEN {None} ELSE {}
Results(m) ==
    {[kind |-> "reply"], [kind |-> "invalid"]}
    \cup {[kind |-> "proposal", target |-> t] : t \in Targets(m)}

(* A new message: send up to the commit of the prepared attempt.             *)
Prepare(w, m) ==
    /\ At(w, "idle") /\ Locked
    /\ attempt[m] = None
    /\ \A n \in Messages : ~HasStatus(n, Active)
    /\ ~archived
    /\ attempt' = [attempt EXCEPT ![m] = [status |-> "prepared", context |-> Context, result |-> None]]
    /\ Go(w, [step |-> "resume", message |-> m])
    /\ UNCHANGED <<collection, lock, changes, scope, message, calls, lost>>

(* The same message sent again, or resume_attempt.                          *)
Again(w, m) ==
    /\ At(w, "idle") /\ Free(Conversation)
    /\ attempt[m] # None
    /\ Go(w, [step |-> "resume", message |-> m])
    /\ UNCHANGED <<collection, lock, changes, conversation, lost>>

(* _materialize and _record_reply: both messages and the attempt in one      *)
(* transaction.                                                              *)
Materialize(m) ==
    LET r == attempt[m].result
    IN  /\ message' = [message EXCEPT ![m] =
              [status |-> IF r.kind = "proposal" THEN "pending" ELSE None,
               target |-> IF r.kind = "proposal" THEN r.target ELSE None]]
        /\ Set(m, "completed")

(* _resume_locked: what is prepared goes to the provider, what is answered is *)
(* recorded, everything else is returned as it is.  Neither is done for an    *)
(* archived collection or a conversation whose document is deleted.          *)
Resume(w) ==
    /\ At(w, "resume") /\ Free(Conversation)
    /\ LET m == worker[w].message
           open == InScope /\ ~archived
       IN  IF open /\ attempt[m].status = "prepared"
           THEN /\ Go(w, [step |-> "dispatch", message |-> m])
                /\ UNCHANGED <<attempt, message>>
           ELSE /\ Go(w, Idle)
                /\ IF open /\ attempt[m].status = "result_saved"
                   THEN Materialize(m) ELSE UNCHANGED <<attempt, message>>
    /\ UNCHANGED <<collection, lock, changes, scope, calls, lost>>

(* Mutant of CanDispatch: the status is not read again before the call.      *)
CanDispatchAgain(m) == ~archived

(* before_dispatch: the attempt is claimed under the conversation's lock.    *)
CanDispatch(m) == attempt[m].status = "prepared" /\ ~archived

Dispatch(w) ==
    /\ At(w, "dispatch") /\ Locked
    /\ CanDispatch(worker[w].message)
    /\ Set(worker[w].message, "dispatched")
    /\ Go(w, [step |-> "call", message |-> worker[w].message])
    /\ UNCHANGED <<collection, lock, changes, scope, message, calls, lost>>

(* The claim is another request's, the collection or the document is gone,    *)
(* the configuration incomplete or the input too long: the attempt keeps its *)
(* status.                                                                   *)
DispatchRefused(w) ==
    /\ At(w, "dispatch") /\ Free(Conversation)
    /\ Go(w, Idle)
    /\ UNCHANGED <<collection, lock, changes, conversation, lost>>

Call(w) ==
    /\ At(w, "call")
    /\ calls' = [calls EXCEPT ![worker[w].message] = @ + 1]
    /\ Go(w, [step |-> "answer", message |-> worker[w].message])
    /\ UNCHANGED <<collection, lock, changes, scope, attempt, message, lost>>

(* A failed or late call leaves the attempt dispatched, with an error code.   *)
CallFails(w) ==
    /\ At(w, "answer") /\ Free(Conversation)
    /\ Go(w, Idle)
    /\ UNCHANGED <<collection, lock, changes, conversation, lost>>

(* Mutant of StatusWithResult: an answer counts, whatever came in between.   *)
StatusAnyway(m, result) == "result_saved"

(* The result is kept in any case; it is to be recorded only when it is valid *)
(* and the author has not ended the message.                                 *)
StatusWithResult(m, result) ==
    IF result.kind = "invalid" \/ attempt[m].status = "finished" THEN attempt[m].status
    ELSE "result_saved"

SaveResult(w, result) ==
    /\ At(w, "answer") /\ Locked
    /\ LET m == worker[w].message
       IN  /\ attempt[m].status \in {"dispatched", "finished"}
           /\ attempt' = [attempt EXCEPT ![m].result = result, ![m].status = StatusWithResult(m, result)]
           /\ Go(w, IF result.kind = "invalid" THEN Idle ELSE [step |-> "resume", message |-> m])
    /\ UNCHANGED <<collection, lock, changes, scope, message, calls, lost>>

(* finish_attempt: the author ends a message, sent or not.                   *)
Finish(w, m) ==
    /\ At(w, "idle") /\ Locked
    /\ IF attempt[m] = None
       THEN attempt' = [attempt EXCEPT ![m] = [status |-> "finished", context |-> None, result |-> None]]
       ELSE ~HasStatus(m, {"completed"}) /\ Set(m, "finished")
    /\ UNCHANGED <<collection, lock, worker, changes, scope, message, calls, lost>>

-----------------------------------------------------------------------------
Pending(m) == message[m] # None /\ message[m].status = "pending"

(* accept: the conversation, the target document and, with SKIP LOCKED, the   *)
(* collection; for a new document the conversation and the collection.  An    *)
(* adopted proposal is answered with its document, a discarded one refused.  *)
BeginAccept(w, m) ==
    /\ At(w, "idle") /\ Locked
    /\ Pending(m)
    /\ Lock(w, Conversation)
    /\ Go(w, [step |-> "accept", message |-> m,
              row |-> IF message[m].target = None THEN Collection ELSE message[m].target])
    /\ UNCHANGED <<collection, changes, conversation, lost>>

AcceptLocksDocument(w) ==
    /\ At(w, "accept") /\ message[worker[w].message].target # None
    /\ LET d == message[worker[w].message].target
       IN  /\ Free(d)
           /\ IF Live(d)
              THEN Go(w, [step |-> "adopt", message |-> worker[w].message]) /\ Lock(w, d)
              ELSE Return(w)
    /\ UNCHANGED <<collection, changes, conversation, lost>>

(* Mutant of AsProposed: the other documents are not compared.               *)
AsProposedForTarget(m) ==
    LET seen == attempt[m].context.seen
        t == message[m].target
    IN  t # None => [version |-> doc[t].version, title |-> doc[t].title] = seen[t]

(* The target has the version and the title the agent was shown, and in a     *)
(* collection's conversation every document has (_check_snapshot).           *)
AsProposed(m) ==
    LET seen == attempt[m].context.seen
        t == message[m].target
    IN  /\ t # None => [version |-> doc[t].version, title |-> doc[t].title] = seen[t]
        /\ Wide => attempt[m].context = [name |-> name, seen |-> Snapshot]

(* Mutant of Adopted: the version is committed before the decision.          *)
AdoptedUndecided(m) ==
    /\ message[m].target # None
    /\ doc' = [doc EXCEPT ![message[m].target].version = @ + 1]
    /\ by' = [by EXCEPT ![message[m].target] = Append(@, m)]
    /\ UNCHANGED message

Adopted(m) ==
    /\ message' = [message EXCEPT ![m].status = "accepted"]
    /\ LET t == message[m].target
       IN  IF t = None
           THEN \E d \in Docs :
                   /\ doc[d] = None   \* bound: a document is left to be created
                   /\ doc' = [doc EXCEPT ![d] = NewDocument]
                   /\ by' = [by EXCEPT ![d] = <<m>>]
           ELSE /\ doc' = [doc EXCEPT ![t].version = @ + 1]
                /\ by' = [by EXCEPT ![t] = Append(@, m)]

(* The version and the decision commit together.                            *)
CanAdopt(w) ==
    /\ Free(Collection) /\ ~archived
    /\ AsProposed(worker[w].message)
Adopting(w) ==
    \/ At(w, "adopt")
    \/ At(w, "accept") /\ message[worker[w].message].target = None

Adopt(w) ==
    /\ Adopting(w) /\ CanAdopt(w)
    /\ Adopted(worker[w].message)
    /\ Return(w)
    /\ UNCHANGED <<archived, name, changes, scope, attempt, calls, lost>>

AdoptRefused(w) ==
    /\ Adopting(w) /\ ~CanAdopt(w)
    /\ At(w, "accept") => Free(Collection)
    /\ Return(w)
    /\ UNCHANGED <<collection, changes, conversation, lost>>

(* discard, with every row it locks free.                                   *)
Discard(w, m) ==
    /\ At(w, "idle") /\ Locked /\ Free(Collection) /\ Free(scope)
    /\ ~archived
    /\ Pending(m)
    /\ message' = [message EXCEPT ![m].status = "rejected"]
    /\ UNCHANGED <<collectionVars, scope, attempt, calls, lost>>

(* The process dies, or the outcome of a commit is unknown.                  *)
Crash(w) ==
    /\ ~At(w, "idle")
    /\ lost < MaxLost   \* bound
    /\ lost' = lost + 1
    /\ Return(w)
    /\ UNCHANGED <<collection, changes, conversation>>

RequestNext(w) ==
    \/ AuthorNext(w) /\ UNCHANGED <<conversation, lost>>
    \/ \E m \in Messages :
          \/ Prepare(w, m) \/ Again(w, m) \/ Finish(w, m)
          \/ BeginAccept(w, m) \/ Discard(w, m)
    \/ Resume(w) \/ Dispatch(w) \/ DispatchRefused(w) \/ Call(w) \/ CallFails(w)
    \/ \E result \in IF At(w, "answer") THEN Results(worker[w].message) ELSE {} :
          SaveResult(w, result)
    \/ AcceptLocksDocument(w) \/ Adopt(w) \/ AdoptRefused(w)
    \/ Crash(w)

CollaborationNext == \E w \in Workers : RequestNext(w)

CollaborationSpec == CollaborationInit /\ [][CollaborationNext]_collaborationVars

-----------------------------------------------------------------------------
(* However often the client sends or resumes a message and wherever requests *)
(* die, the provider is called for it at most once, and its answer is never  *)
(* made up: a message is completed, with its pair, only after that call.     *)
CalledOnce ==
    \A m \in Messages :
        /\ calls[m] <= 1
        /\ message[m] # None <=> HasStatus(m, {"completed"})
        /\ message[m] # None => calls[m] = 1 /\ attempt[m].result.kind # "invalid"

(* A message the author has ended stays ended: neither its late answer nor    *)
(* its first send, if that arrives later, adds anything to the conversation. *)
EndedStays ==
    [][\A m \in Messages : HasStatus(m, {"finished"}) =>
          HasStatus(m, {"finished"})' /\ message'[m] = message[m]]_collaborationVars

(* The versions a proposal has led to.                                       *)
Versions(m) == UNION {{<<d, n>> : n \in {k \in DOMAIN by[d] : by[d][k] = m}} : d \in Docs}

(* A proposal changes a document at most once, by the decision of the author  *)
(* that commits with the version: no request that dies, is repeated or races *)
(* another leaves a version without its decision or a decision without it.   *)
AdoptedOnce ==
    \A m \in Messages :
        IF message[m] # None /\ message[m].status = "accepted"
        THEN \E v \in Versions(m) : Versions(m) = {v}
        ELSE Versions(m) = {}

(* A proposal only ever changes what its agent has seen: no document, and no  *)
(* title, has moved on between the snapshot and the adoption.                *)
AdoptedAsSeen ==
    [][\A m \in Messages : Versions(m)' # Versions(m) =>
          LET context == attempt[m].context
          IN  /\ \A d \in DOMAIN context.seen :
                    doc[d] = [version |-> context.seen[d].version, title |-> context.seen[d].title,
                              deleted |-> FALSE]
              /\ Wide => context.name = name /\ \A d \in Docs : Live(d) => d \in DOMAIN context.seen
      ]_collaborationVars
=============================================================================
