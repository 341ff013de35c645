------------------------------ MODULE ReaderPanel ------------------------------
(***************************************************************************)
(* The phases of a reader panel (reader_panel_service.py).  The author asks *)
(* for the panel to be resumed, perhaps twice at once; each request takes   *)
(* up the phase the session is in and works through it: independent         *)
(* reading, extraction of issues and blind ballots, discussion and final    *)
(* ballots, the report for the editor.  PanelSession has the calls and the  *)
(* session; here is what each phase does between two calls, one action per  *)
(* transaction, with what it remembers from the one before.                 *)
(*                                                                          *)
(* Readers and issues are taken in the order of their numbers (the code     *)
(* sorts them by profile and rank); the sources of all issues are one set.  *)
(***************************************************************************)
EXTENDS PanelSession

CONSTANT Happenings  \* subset of {"cancel", "abort", "crash", "expire"}

First(S) == CHOOSE r \in S : \A q \in S : r <= q
(* By reader, then issue; and by issue, then reader.                        *)
FirstPair(S) == CHOOSE p \in S : \A q \in S :
                    p[1] < q[1] \/ (p[1] = q[1] /\ p[2] <= q[2])
FirstByIssue(S) == CHOOSE p \in S : \A q \in S :
                    p[2] < q[2] \/ (p[2] = q[2] /\ p[1] <= q[1])

Begin(job) == [Idle EXCEPT !.at = "enter", !.job = job]
JobOf ==
    CASE panel.status = "independent_reading" -> "read"
      [] panel.status \in {"initial_reports_locked", "issue_extraction", "initial_balloting"} -> "ballot"
      [] panel.status \in {"initial_ballots_locked", "discussing", "final_balloting"} -> "discuss"
      [] panel.status \in {"final_ballots_locked", "report_generating"} -> "handoff"

(* resume_session *)
Resume(w) ==
    /\ Free(w)
    /\ panel.status \notin Terminal
    /\ Put(w, Begin(JobOf))
    /\ UNCHANGED <<panel, attempts, expired>>

-----------------------------------------------------------------------------
(* collect_initial_reports: who holds the readers whose report it has.  The *)
(* session is loaded, a failure noted and the quorum written with no lock.  *)
NextReading(rec, todo) ==
    IF todo = {} THEN [rec EXCEPT !.at = "quorum", !.work = NoWork, !.todo = {}, !.n = 0]
    ELSE [rec EXCEPT !.at = "reserve", !.work = Reading(First(todo)), !.todo = todo, !.n = 0]

ReadingReader(w) == worker[w].work[4]

ReadEnter(w) ==
    LET done == Completed(panel) \cap panel.reported IN
    /\ At(w, "enter") /\ On(w, "read")
    /\ IF panel.reports # 0 THEN Return(w)
       ELSE Put(w, NextReading([Begin("read") EXCEPT !.who = done, !.seen = View("read", panel)],
                               Reader \ done))
    /\ UNCHANGED <<panel, attempts, expired>>

ReadSaved(w) ==
    LET r == ReadingReader(w) IN
    /\ Answered(w, "read", "initial_reading")
    /\ Deliver(w)
    /\ panel' = [panel EXCEPT !.readers[r] = "completed", !.reported = @ \cup {r}]
    /\ Put(w, NextReading([worker[w] EXCEPT !.who = @ \cup {r}, !.seen = View("read", panel)],
                          worker[w].todo \ {r}))

ReadFailed(w) ==
    LET r == ReadingReader(w) IN
    /\ At(w, "failed") /\ On(w, "read")
    /\ panel' = WithoutReader(panel, r)
    /\ Put(w, NextReading(worker[w], worker[w].todo \ {r}))
    /\ UNCHANGED <<attempts, expired>>

(* The status is written unless the request last saw it so, whatever it has *)
(* become since.                                                            *)
Quorum(w) ==
    /\ At(w, "quorum")
    /\ IF Cardinality(worker[w].who) >= MinValid
       THEN /\ panel' = [panel EXCEPT
                  !.status = IF worker[w].seen.status = "initial_reports_locked"
                             THEN @ ELSE "initial_reports_locked",
                  !.reports = @ + 1,
                  !.degraded = @ \/ worker[w].who # Reader]
            /\ UNCHANGED attempts
       ELSE SettleNow("failed")
    /\ Return(w)
    /\ UNCHANGED expired

-----------------------------------------------------------------------------
(* collect_initial_ballots *)
BallotsOpen(p) ==
    /\ p.reports # 0
    /\ p.status \in {"initial_reports_locked", "issue_extraction",
                     "initial_balloting", "initial_ballots_locked"}
Sources(p) == <<p.reports, p.reported>>
Eligible(p) == Completed(p) \cap p.reported
Bound(w) == Sources(panel) = worker[w].snap
Balloting(p) == p.status = IF p.initial THEN "initial_ballots_locked" ELSE "initial_balloting"

BallotEnter(w) ==
    LET rec == [Begin("ballot") EXCEPT !.who = Eligible(panel), !.snap = Sources(panel)]
        extracts == panel.issues = <<>>
                        /\ panel.status \in {"initial_reports_locked", "issue_extraction"}
    IN
    /\ At(w, "enter") /\ On(w, "ballot")
    /\ IF ~BallotsOpen(panel) \/ Eligible(panel) = {} THEN Return(w) /\ UNCHANGED panel
       ELSE IF extracts
       THEN /\ panel' = [panel EXCEPT !.status = "issue_extraction"]
            /\ Put(w, [rec EXCEPT !.at = "reserve", !.work = Extraction])
       ELSE Put(w, [rec EXCEPT !.at = "cast"]) /\ UNCHANGED panel
    /\ UNCHANGED <<attempts, expired>>

AwaitsIssues == panel.issues = <<>> /\ panel.status = "issue_extraction"

(* The issues and their sources are the provider's choice; a session whose  *)
(* reports are not those of the request keeps the attempt but not the issues.*)
Extracted(w) ==
    /\ Answered(w, "ballot", "issue_extraction")
    /\ IF ~BallotsOpen(panel) THEN RollBack(w)
       ELSE /\ Deliver(w)
            /\ IF ~Bound(w) THEN Return(w) /\ UNCHANGED panel
               ELSE /\ IF AwaitsIssues
                       THEN \E n \in 0 .. BallotIssues, src \in SUBSET worker[w].who :
                              /\ n = 0 <=> src = {}
                              /\ panel' = [panel EXCEPT !.issues = [i \in 1 .. n |-> "queued"],
                                              !.sources = src, !.status = "initial_balloting"]
                       ELSE UNCHANGED panel
                    /\ Go(w, "cast")

ExtractionFailed(w) ==
    /\ At(w, "failed") /\ worker[w].work = Extraction
    /\ IF ~BallotsOpen(panel) \/ ~Bound(w) THEN RollBack(w)
       ELSE IF AwaitsIssues THEN SettleNow("failed") /\ Return(w)
       ELSE Go(w, "cast") /\ UNCHANGED <<panel, attempts>>
    /\ UNCHANGED expired

NextBallot(rec, votes) ==
    IF votes = {} THEN [rec EXCEPT !.at = "seal", !.work = NoWork, !.votes = {}, !.n = 0]
    ELSE [rec EXCEPT !.at = "reserve", !.work = Ballot(FirstPair(votes)), !.votes = votes, !.n = 0]

Cast(w) ==
    /\ At(w, "cast")
    /\ IF BallotsOpen(panel) /\ Bound(w) /\ Balloting(panel)
       THEN Put(w, NextBallot([worker[w] EXCEPT !.who = {}],
                              (Eligible(panel) \X IssuesOf(panel)) \ panel.ballots))
       ELSE Return(w)
    /\ UNCHANGED <<panel, attempts, expired>>

PairAt(w) == <<worker[w].work[4], worker[w].work[2]>>

BallotSaved(w) ==
    /\ Answered(w, "ballot", "initial_ballot")
    /\ IF ~BallotsOpen(panel) THEN RollBack(w)
       ELSE /\ Deliver(w)
            /\ panel' = [panel EXCEPT !.ballots = @ \cup {PairAt(w)}]
            /\ Put(w, NextBallot(worker[w], worker[w].votes \ {PairAt(w)}))

(* Mutant of BallotFailed: the reader who does not vote stays in the panel. *)
BallotFailedSkipped(w) ==
    /\ At(w, "failed") /\ worker[w].work[1] = "initial_ballot"
    /\ Put(w, NextBallot(worker[w], {p \in worker[w].votes : p[1] # worker[w].work[4]}))
    /\ UNCHANGED <<panel, attempts, expired>>

BallotFailed(w) ==
    LET r == worker[w].work[4] IN
    /\ At(w, "failed") /\ worker[w].work[1] = "initial_ballot"
    /\ IF ~BallotsOpen(panel) THEN RollBack(w)
       ELSE /\ EliminateNow(r)
            /\ IF TooFewWithout(panel, r) THEN Return(w)
               ELSE Put(w, NextBallot(worker[w], {p \in worker[w].votes : p[1] # r}))
    /\ UNCHANGED expired

Seal(w) ==
    LET complete == Eligible(panel) \X IssuesOf(panel) \subseteq panel.ballots IN
    /\ At(w, "seal")
    /\ IF ~BallotsOpen(panel) \/ ~Bound(w) \/ ~Balloting(panel) \/ panel.initial
       THEN UNCHANGED panel
       ELSE panel' = IF complete
                     THEN [panel EXCEPT !.initial = TRUE, !.status = "initial_ballots_locked"]
                     ELSE [panel EXCEPT !.degraded = TRUE]
    /\ Return(w)
    /\ UNCHANGED <<attempts, expired>>

-----------------------------------------------------------------------------
(* run_discussion_and_final_ballots: who holds the readers of the request,  *)
(* seen the rows as it last loaded them.                                    *)
Agenda(p) == IF Rounds = 0 THEN {} ELSE {i \in IssuesOf(p) : i <= AgendaIssues}

StartIssue(rec, last) ==
    LET left == {i \in rec.seen.open : i > last} IN
    IF left = {} THEN [rec EXCEPT !.at = "close", !.work = NoWork, !.n = 0,
                                  !.issue = 0, !.round = 0, !.todo = {}]
    ELSE [rec EXCEPT !.at = "turns", !.work = NoWork, !.n = 0,
                     !.issue = First(left), !.round = 1, !.todo = rec.who]
NextRound(rec) ==
    IF rec.round = Rounds \/ rec.issue \notin rec.seen.open THEN StartIssue(rec, rec.issue)
    ELSE [rec EXCEPT !.at = "turns", !.work = NoWork, !.n = 0, !.round = @ + 1, !.todo = rec.who]

(* Mutant of OpenDiscussion: with nothing to discuss the final ballots count as cast.*)
OpenDiscussionSkipping(p) ==
    [p EXCEPT !.status = IF Agenda(p) = {} THEN "final_ballots_locked" ELSE "discussing",
              !.issues = [i \in IssuesOf(p) |-> IF i \in Agenda(p) THEN "discussing" ELSE "skipped"]]

OpenDiscussion(p) ==
    [p EXCEPT !.status = IF Agenda(p) = {} THEN "final_balloting" ELSE "discussing",
              !.issues = [i \in IssuesOf(p) |-> IF i \in Agenda(p) THEN "discussing" ELSE "skipped"]]

DiscussEnter(w) ==
    /\ At(w, "enter") /\ On(w, "discuss")
    /\ IF \/ panel.status \notin {"initial_ballots_locked", "discussing",
                                  "final_balloting", "final_ballots_locked"}
          \/ ~panel.initial
          \/ ~(Completed(panel) \X IssuesOf(panel) \subseteq panel.ballots)
       THEN Return(w) /\ UNCHANGED panel
       ELSE /\ panel' = IF panel.status = "initial_ballots_locked" THEN OpenDiscussion(panel) ELSE panel
            /\ Put(w, StartIssue([Begin("discuss") EXCEPT !.who = Completed(panel),
                                     !.seen = View("discuss", panel')], 0))
    /\ UNCHANGED <<attempts, expired>>

(* reserve_call of a turn or a summary: cancelled, done already, or not.    *)
Said(w, r) == <<worker[w].issue, worker[w].round, r>>
NotNow(w) == panel.status # "discussing" \/ worker[w].issue \notin worker[w].seen.open

TakeTurn(w) ==
    LET rec == worker[w]
        r == First(rec.todo)
    IN
    /\ At(w, "turns") /\ rec.todo # {}
    /\ Put(w, IF panel.status = "cancelled" THEN Idle
              ELSE IF NotNow(w) \/ r \notin rec.seen.runs \/ Said(w, r) \in panel.messages
              THEN [rec EXCEPT !.todo = @ \ {r}]
              ELSE [rec EXCEPT !.at = "reserve", !.work = Turn(rec.issue, rec.round, r)])
    /\ UNCHANGED <<panel, attempts, expired>>

SumUp(w) ==
    LET rec == worker[w] IN
    /\ At(w, "turns") /\ rec.todo = {}
    /\ Put(w, IF \E r \in rec.who : Said(w, r) \notin panel.messages THEN StartIssue(rec, rec.issue)
              ELSE IF Said(w, Moderator) \in panel.messages THEN NextRound(rec)
              ELSE IF panel.status = "cancelled" THEN Idle
              ELSE IF NotNow(w) THEN StartIssue(rec, rec.issue)
              ELSE [rec EXCEPT !.at = "reserve", !.work = Summary(rec.issue, rec.round)])
    /\ UNCHANGED <<panel, attempts, expired>>

TurnSaved(w) ==
    LET r == worker[w].work[4] IN
    /\ Answered(w, "discuss", "discussion_turn")
    /\ Deliver(w)
    /\ panel' = IF NotNow(w) \/ r \notin worker[w].seen.runs THEN panel
                ELSE [panel EXCEPT !.messages = @ \cup {Said(w, r)}]
    /\ Put(w, [worker[w] EXCEPT !.at = "turns", !.work = NoWork, !.n = 0, !.todo = @ \ {r}])

(* The round closes the issue on convergence, when nothing new was said or  *)
(* as the last one.                                                         *)
SummarySaved(w) ==
    LET i == worker[w].issue IN
    /\ Answered(w, "discuss", "discussion_summary")
    /\ Deliver(w)
    /\ \E stop \in BOOLEAN :
         /\ worker[w].round = Rounds => stop
         /\ LET said == ~NotNow(w) /\ Said(w, Moderator) \notin panel.messages
                closed == said /\ stop
                rec == [worker[w] EXCEPT !.seen.open = IF closed THEN @ \ {i} ELSE @]
            IN
            /\ panel' = [panel EXCEPT !.messages = IF said THEN @ \cup {Said(w, Moderator)} ELSE @,
                                      !.issues = IF closed THEN [@ EXCEPT ![i] = "closed"] ELSE @]
            /\ Put(w, IF stop THEN StartIssue(rec, i) ELSE NextRound(rec))

(* Any error of the summary fails the panel, whatever has become of it.     *)
SummaryFailed(w) ==
    /\ At(w, "failed") /\ worker[w].work[1] = "discussion_summary"
    /\ SettleNow("failed")
    /\ Return(w)
    /\ UNCHANGED expired

(* Any error of a turn or a final ballot costs the reader, and the request  *)
(* starts over.                                                             *)
ReaderFailed(w) ==
    LET r == worker[w].work[4] IN
    /\ At(w, "failed") /\ worker[w].work[1] \in {"discussion_turn", "final_ballot"}
    /\ EliminateNow(r)
    /\ IF TooFewWithout(panel, r) THEN Return(w) ELSE Put(w, Begin("discuss"))
    /\ UNCHANGED expired

Close(w) ==
    LET rec == worker[w]
        status == IF panel.status = "discussing" /\ rec.seen.open \cap Agenda(panel) = {}
                  THEN "final_balloting" ELSE panel.status
    IN
    /\ At(w, "close")
    /\ panel' = [panel EXCEPT !.status = status]
    /\ Put(w, IF status = "final_balloting"
              THEN [rec EXCEPT !.at = "finals", !.votes = rec.who \X IssuesOf(panel)]
              ELSE [rec EXCEPT !.at = "tally"])
    /\ UNCHANGED <<attempts, expired>>

FinalClosed(w, p) ==
    \/ panel.status # "final_balloting"
    \/ p[2] \in worker[w].seen.open
    \/ p[1] \notin worker[w].seen.runs
    \/ p \in panel.finals

TakeFinal(w) ==
    LET rec == worker[w]
        p == FirstByIssue(rec.votes)
    IN
    /\ At(w, "finals")
    /\ Put(w, IF rec.votes = {} THEN [rec EXCEPT !.at = "tally"]
              ELSE IF FinalClosed(w, p) THEN [rec EXCEPT !.votes = @ \ {p}]
              ELSE [rec EXCEPT !.at = "reserve", !.work = Final(p)])
    /\ UNCHANGED <<panel, attempts, expired>>

FinalSaved(w) ==
    /\ Answered(w, "discuss", "final_ballot")
    /\ Deliver(w)
    /\ panel' = IF FinalClosed(w, PairAt(w)) THEN panel
                ELSE [panel EXCEPT !.finals = @ \cup {PairAt(w)}]
    /\ Put(w, [worker[w] EXCEPT !.at = "finals", !.work = NoWork, !.n = 0, !.votes = @ \ {PairAt(w)}])

Tally(w) ==
    /\ At(w, "tally")
    /\ panel' = IF /\ panel.status = "final_balloting" /\ ~panel.final
                   /\ worker[w].who \X IssuesOf(panel) \subseteq panel.finals
                THEN [panel EXCEPT !.status = "final_ballots_locked", !.final = TRUE]
                ELSE panel
    /\ Return(w)
    /\ UNCHANGED <<attempts, expired>>

-----------------------------------------------------------------------------
(* generate_editor_handoff_report *)
(* load_locked_snapshot: what it demands, and what it compares later.       *)
Reportable(p) ==
    /\ p.status \in {"final_ballots_locked", "report_generating", "completed", "degraded_completed"}
    /\ p.final
    /\ p.status \in Terminal <=> p.ended
    /\ Completed(p) # {} /\ Completed(p) \subseteq p.reported
    /\ p.sources \subseteq Completed(p)
    /\ p.ballots = Completed(p) \X IssuesOf(p)
    /\ p.finals = Completed(p) \X IssuesOf(p)
Locked(p) == <<p.degraded, p.readers, p.reported, p.issues, p.ballots, p.finals>>

HandoffEnter(w) ==
    /\ At(w, "enter") /\ On(w, "handoff")
    /\ IF ~Reportable(panel) \/ panel.handoffs # <<>> THEN Return(w) /\ UNCHANGED panel
       ELSE /\ panel' = [panel EXCEPT !.status = "report_generating"]
            /\ Put(w, [Begin("handoff") EXCEPT !.at = "reserve", !.work = Synthesis,
                                               !.snap = Locked(panel)])
    /\ UNCHANGED <<attempts, expired>>

ReportOf(p) == [valid |-> Completed(p), failed |-> Reader \ Completed(p)]
(* Mutant of Complete: the status forgets who is missing.                   *)
CompleteUnmarked(p) == [Settle(p, "completed") EXCEPT !.handoffs = Append(@, ReportOf(p))]

Complete(p) ==
    LET degraded == p.degraded \/ Completed(p) # Reader IN
    [Settle(p, IF degraded THEN "degraded_completed" ELSE "completed")
        EXCEPT !.degraded = degraded, !.handoffs = Append(@, ReportOf(p))]

Composed(w) ==
    /\ Answered(w, "handoff", "report_synthesis")
    /\ Return(w)
    /\ IF ~Reportable(panel) THEN UNCHANGED <<panel, attempts>>
       ELSE /\ Deliver(w)
            /\ panel' = IF panel.handoffs # <<>> THEN panel
                        ELSE IF Locked(panel) # worker[w].snap
                        THEN [panel EXCEPT !.status = "final_ballots_locked"]
                        ELSE Complete(panel)

(* _reject_report_synthesis_output: the answer was of the right form, but   *)
(* it does not refer to this panel.                                         *)
Rejected(w) ==
    /\ "invalid_output" \in Failures
    /\ Answered(w, "handoff", "report_synthesis")
    /\ Return(w)
    /\ IF ~Reportable(panel) THEN UNCHANGED <<panel, attempts>>
       ELSE /\ attempts' = Settled(w, "invalid_output")
            /\ panel' = IF panel.handoffs # <<>> THEN panel
                        ELSE [panel EXCEPT !.status = "final_ballots_locked"]

SynthesisFailed(w) ==
    /\ At(w, "failed") /\ On(w, "handoff")
    /\ Return(w)
    /\ IF Reportable(panel) /\ panel.handoffs = <<>> THEN SettleNow("failed")
       ELSE UNCHANGED <<panel, attempts>>
    /\ UNCHANGED expired

-----------------------------------------------------------------------------
Step(w) ==
    \/ Refuse(w) \/ Reserve(w)
    \/ AnswerLate(w) \/ AnswerExpired(w)
    \/ ReadEnter(w) \/ ReadSaved(w) \/ ReadFailed(w) \/ Quorum(w)
    \/ BallotEnter(w) \/ Extracted(w) \/ ExtractionFailed(w) \/ Cast(w)
    \/ BallotSaved(w) \/ BallotFailed(w) \/ Seal(w)
    \/ DiscussEnter(w) \/ TakeTurn(w) \/ SumUp(w) \/ TurnSaved(w)
    \/ SummarySaved(w) \/ SummaryFailed(w) \/ ReaderFailed(w)
    \/ Close(w) \/ TakeFinal(w) \/ FinalSaved(w) \/ Tally(w)
    \/ HandoffEnter(w) \/ Composed(w) \/ SynthesisFailed(w)

Misanswer(w) ==
    \/ \E code \in Failures : AnswerFails(w, code)
    \/ Rejected(w)

PanelNext ==
    \/ \E w \in Workers : Resume(w) \/ Step(w) \/ Misanswer(w)
    \/ "cancel" \in Happenings /\ Cancel
    \/ "abort" \in Happenings /\ \E w \in Workers : Abort(w)
    \/ "crash" \in Happenings /\ \E w \in Workers : Crash(w)
    \/ "expire" \in Happenings /\ Expire

PanelSpec == PanelInit /\ [][PanelNext]_panelVars

(* The author resumes an unfinished panel, what a request has begun goes on  *)
(* with an answer or an error, and time passes.                             *)
PanelFairness ==
    /\ \A w \in Workers : WF_panelVars(Resume(w)) /\ WF_panelVars(Step(w) \/ Misanswer(w))
    /\ WF_panelVars("expire" \in Happenings /\ Expire)
FairPanelSpec == PanelSpec /\ PanelFairness

-----------------------------------------------------------------------------
(* No work is paid for twice: the attempts at one unit of work are made one  *)
(* after the other, and none follows a success.                             *)
OneCallPerWork ==
    \A k \in Work : \A n \in DOMAIN attempts[k] :
        attempts[k][n] \in {"started", "succeeded"} => n = Len(attempts[k])

(* One request at a time, on a panel its author does not cancel, moves it    *)
(* only as the state machine of workflows/reader_panel.py allows and sets   *)
(* its seals with its statuses, crashes and refused answers included.       *)
Seals(p) ==
    {s \in {"reports", "ballots", "finals"} :
        CASE s = "reports" -> p.reports # 0 [] s = "ballots" -> p.initial [] s = "finals" -> p.final}
Machine == INSTANCE PanelMachine WITH status <- panel.status, seals <- Seals(panel)
FollowsMachine == Machine!MachineSpec

(* The readers one of whose answers was larger than its reservation.  Such   *)
(* an attempt is neither retried nor remembered: the request that made it   *)
(* gives the reader up while another one can still ask it the same.         *)
Oversized == {r \in Reader : \E k \in Work : k[4] = r /\ HasAttempt(k, "budget_exhausted")}

(* What was sealed stays, and what was reported: the initial ballots after   *)
(* their lock, the final ballots after theirs, no seal is ever broken, and  *)
(* an answer that comes after the panel has ended leaves nothing behind.    *)
(* The one exception, against docs/reader-panel-verification.md:11: a       *)
(* reader with an oversized answer may still add ballots to the sealed      *)
(* initial ones.                                                            *)
Frozen(seal, rows, sealed, rowsLater) == seal => sealed /\ rows = rowsLater
ByOthers(ballots) == {p \in ballots : p[1] \notin Oversized}
Results(p) == <<p.reported, p.issues, p.ballots, p.finals, p.messages, p.handoffs>>
ResultsStay ==
    [][/\ panel.initial => panel.ballots \subseteq panel'.ballots
       /\ Frozen(panel.initial, ByOthers(panel.ballots), panel'.initial, ByOthers(panel'.ballots))
       /\ Frozen(panel.final, panel.finals, panel'.final, panel'.finals)
       /\ panel.status \in Terminal => Results(panel') = Results(panel)]_panelVars

(* The report counts who took part: it is written once, from readers who    *)
(* all voted, and a panel that is completed and not degraded has lost       *)
(* nobody.  They are at least MinValid, but for those who had an oversized  *)
(* answer: the late failure of such a reader takes it out of a panel whose  *)
(* quorum it has made.                                                      *)
ReportCountsReaders ==
    /\ Len(panel.handoffs) <= 1
    /\ \A i \in DOMAIN panel.handoffs :
         LET h == panel.handoffs[i] IN
         /\ Cardinality(h.valid \cup Oversized) >= MinValid
         /\ h.valid \cap h.failed = {} /\ h.valid \cup h.failed = Reader
         /\ panel.finals = h.valid \X IssuesOf(panel)
         /\ h.failed # {} => panel.degraded
    /\ panel.status = "completed" => \E i \in DOMAIN panel.handoffs : panel.handoffs[i].failed = {}

(* Once the service has stopped crashing, a panel that is resumed again and  *)
(* again comes to an end, whatever its provider does.                       *)
PanelEnds ==
    <>[](\A w \in Workers : ~At(w, "dead")) => <>(panel.status \in Terminal)
=============================================================================
