--------------------------- MODULE ReaderPanelProofs ---------------------------
(***************************************************************************)
(* Theorems about a reader panel, for every number of readers, issues,      *)
(* rounds and requests at work: first what it agrees to (PanelContract),    *)
(* then what its sessions, its ledger and its requests do (PanelSession,    *)
(* ReaderPanel).  The invariant comes in four parts, the ledger of calls,   *)
(* what each request knows, whose each call is, and what the rows say of    *)
(* one another; there is a lemma for every action, and each also says that  *)
(* what was sealed or reported stays.  At the end, for a single request, a  *)
(* lemma for every action says that it is a step of PanelMachine.           *)
(***************************************************************************)
EXTENDS ReaderPanel, FiniteSetTheorems, SequenceTheorems, WellFoundedInduction, TLAPS

-----------------------------------------------------------------------------
(* What a panel agrees to.                                                  *)

(* How far a status is from the beginning.                                  *)
Progress(status) ==
    CASE status = "created" -> 0 [] status = "preparing" -> 1
      [] status = "independent_reading" -> 2 [] status = "initial_reports_locked" -> 3
      [] status = "issue_extraction" -> 4 [] status = "initial_balloting" -> 5
      [] status = "initial_ballots_locked" -> 6 [] status = "discussing" -> 7
      [] status = "final_balloting" -> 8 [] status = "final_ballots_locked" -> 9
      [] status = "report_generating" -> 10
      [] status \in Terminal -> 11

(* A tally gives six counts of which the others are sums.                   *)
LEMMA TallyCounts ==
    ASSUME NEW d \in Tallies
    PROVE  /\ d["none"] \in Nat /\ d["minor"] \in Nat /\ d["significant"] \in Nat
           /\ d["critical"] \in Nat /\ d["abstain"] \in Nat
           /\ Low(d) \in Nat /\ Serious(d) \in Nat /\ Valid(d) = Low(d) + Serious(d)
           /\ AnyIssue(d) = Serious(d) + d["minor"] /\ d["minor"] <= Low(d)
BY DEF Tallies, Severity, Low, Serious, Valid, AnyIssue

(* classify_issue_consensus: an issue on which somebody voted is never       *)
(* inconclusive, so that the last branch of the classification is never     *)
(* taken: too few serious votes for weak consensus are too many for it.     *)
THEOREM SomebodyDecides ==
    ASSUME NEW d \in Tallies, Valid(d) > 0
    PROVE  Consensus(d) # "inconclusive"
<1>1. SUFFICES ASSUME ~Strong(d), ~Polarized(d), ~Weak(d)
               PROVE  Low(d) > Serious(d)
  BY SMT DEF Consensus
<1>2. 10 * Serious(d) < 6 * (Low(d) + Serious(d))
  BY <1>1, TallyCounts, SMT DEF Weak
<1>3. CASE 10 * Low(d) < 3 * (Low(d) + Serious(d))
  BY <1>2, <1>3, TallyCounts, SMT
<1>4. CASE 10 * Serious(d) < 3 * (Low(d) + Serious(d))
  BY <1>4, TallyCounts, SMT
<1> QED
  BY <1>1, <1>3, <1>4, TallyCounts, SMT DEF Polarized

(* The readers of a panel vote, and the counts are a tally.                  *)
LEMMA BallotsTally ==
    ASSUME NEW R, IsFiniteSet(R), NEW ballots, DOMAIN ballots = R
    PROVE  TallyOf(ballots) \in Tallies
<1>1. ASSUME NEW s \in Severity
      PROVE  Cardinality({r \in R : ballots[r].severity = s}) \in Nat
  BY FS_Subset, FS_CardinalityType
<1> QED
  BY <1>1 DEF TallyOf, Tallies

(* generate_editor_handoff_report: an issue of the report is undecided only  *)
(* if every reader that is left abstained.                                  *)
THEOREM ReportDecides ==
    ASSUME NEW R, IsFiniteSet(R), NEW ballots, DOMAIN ballots = R,
           NEW reader \in R, ballots[reader].severity \in Severity \ {"abstain"}
    PROVE  Finding(ballots).class # "inconclusive"
<1> DEFINE d == TallyOf(ballots)
           cast == {r \in R : ballots[r].severity = ballots[reader].severity}
<1>1. d \in Tallies
  BY BallotsTally
<1>2. IsFiniteSet(cast) /\ cast # {}
  BY FS_Subset
<1>3. Cardinality(cast) \in Nat \ {0}
  BY <1>2, FS_CardinalityType, FS_EmptySet
<1>4. d[ballots[reader].severity] = Cardinality(cast)
  BY DEF TallyOf
<1> HIDE DEF d, cast
<1>5. d[ballots[reader].severity] > 0
  BY <1>3, <1>4, SMT
<1>6. Valid(d) > 0
  BY <1>1, <1>5, TallyCounts, SMT DEF Valid, Severity
<1> QED
  BY <1>1, <1>6, SomebodyDecides DEF Finding, d

(* The recommendation KEEP: fewer than three in ten votes call the issue     *)
(* serious, although the branch itself only compares the two sides.         *)
THEOREM KeepIsHarmless ==
    ASSUME NEW d \in Tallies, NEW risk \in BOOLEAN, Priority(d, risk) = "keep"
    PROVE  10 * Serious(d) < 3 * Valid(d) /\ ~risk
<1>1. ~risk /\ Consensus(d) = "accepted"
  BY SMT DEF Priority
<1>2. ~Polarized(d) /\ Low(d) > Serious(d)
  BY <1>1, SMT DEF Consensus
<1>3. 10 * Low(d) >= 3 * (Low(d) + Serious(d))
  BY <1>2, TallyCounts, SMT
<1> QED
  BY <1>1, <1>2, <1>3, TallyCounts, SMT DEF Polarized

(* A strong consensus survives a vote that turns serious, an abstention that *)
(* is given up included, although each changes what is counted.             *)
THEOREM StrongSurvives ==
    ASSUME NEW d \in Tallies, Valid(d) > 0, Strong(d),
           NEW from \in {"none", "minor", "abstain"}, d[from] > 0,
           NEW to \in {"significant", "critical"}
    PROVE  Consensus(Moved(d, from, to)) = "strong_consensus"
<1> DEFINE e == Moved(d, from, to)
<1>1. e \in Tallies
  BY TallyCounts DEF Moved, Tallies, Severity
<1>2. Serious(e) = Serious(d) + 1
  BY TallyCounts DEF Moved, Tallies, Severity, Serious
<1>3. \/ Low(e) = Low(d) - 1
      \/ Low(e) = Low(d)
  <2>1. CASE from = "abstain"
    BY <2>1, TallyCounts DEF Moved, Tallies, Severity, Low
  <2>2. CASE from # "abstain"
    BY <2>2, TallyCounts DEF Moved, Tallies, Severity, Low
  <2> QED BY <2>1, <2>2
<1> HIDE DEF e
<1>4. Strong(e) /\ Valid(e) # 0
  BY <1>1, <1>2, <1>3, TallyCounts, SMT DEF Strong
<1> QED
  BY <1>4, SMT DEF Consensus, e

(* But a vote that turns from minor to critical may lower the issue in the   *)
(* report to the editor: weak consensus becomes disagreement, which is for  *)
(* an experiment and no longer for the author.                              *)
THEOREM HarsherVoteRanksLower ==
    \E d \in Tallies : /\ d["minor"] > 0
                       /\ Rank(Priority(d, FALSE))
                            < Rank(Priority(Moved(d, "minor", "critical"), FALSE))
<1> DEFINE d == [s \in Severity |-> IF s = "minor" THEN 3 ELSE 0]
           e == Moved(d, "minor", "critical")
<1>1. d \in Tallies /\ d["minor"] = 3
  BY DEF Tallies, Severity
<1>2. Priority(d, FALSE) = "manual_review"
  BY SMT DEF Severity, Priority, Consensus, Strong, Polarized, Weak, Serious, AnyIssue, Low, Valid
<1>3. /\ e["none"] = 0 /\ e["minor"] = 2 /\ e["significant"] = 0
      /\ e["critical"] = 1 /\ e["abstain"] = 0
  <2>1. /\ d["none"] = 0 /\ d["significant"] = 0 /\ d["critical"] = 0
        /\ d["abstain"] = 0 /\ DOMAIN d = Severity
    BY DEF Severity
  <2> HIDE DEF d
  <2> QED
    BY <1>1, <2>1, SMT DEF Severity, Moved
<1> HIDE DEF e
<1>4. Priority(e, FALSE) = "experiment"
  BY <1>3, SMT DEF Priority, Consensus, Strong, Polarized, Weak, Serious, AnyIssue, Low, Valid
<1>5. Priority(Moved(d, "minor", "critical"), FALSE) = "experiment"
  BY <1>4, Zenon DEF e
<1> HIDE DEF d
<1>6. Rank("manual_review") < Rank("experiment")
  BY SMT DEF Rank
<1>7. Rank(Priority(d, FALSE)) < Rank(Priority(Moved(d, "minor", "critical"), FALSE))
  BY <1>2, <1>5, <1>6, Zenon
<1>8. d["minor"] > 0
  BY <1>1, SMT
<1> QED
  BY <1>1, <1>7, <1>8, Zenon

(* ReaderPanelStartRequest: whatever the author asks of a mode within the    *)
(* bounds of the API is a configuration the service goes on to accept at    *)
(* every later step; no session is created that cannot be worked with.      *)
THEOREM RequestsAreUsable ==
    ASSUME NEW mode \in Modes \ {"off"}, NEW n \in 1 .. Preset(mode).readers,
           NEW issues \in 1 .. 8, NEW agenda \in 0 .. 6, NEW rounds \in 0 .. 3, NEW min \in 1 .. 6,
           Requestable(Overridden(Invite(Preset(mode), n), issues, agenda, rounds, min))
    PROVE  LET c == Overridden(Invite(Preset(mode), n), issues, agenda, rounds, min)
           IN  ValidConfig(mode, c) /\ UsableConfig(mode, c)
<1>1. CASE mode = "quick"
  BY <1>1 DEF Modes, Preset, Config, Invite, Overridden, Requestable, ValidConfig, UsableConfig
<1>2. CASE mode = "standard"
  BY <1>2 DEF Modes, Preset, Config, Invite, Overridden, Requestable, ValidConfig, UsableConfig
<1>3. CASE mode = "panel"
  BY <1>3 DEF Modes, Preset, Config, Invite, Overridden, Requestable, ValidConfig, UsableConfig
<1> QED
  BY <1>1, <1>2, <1>3 DEF Modes

(* The presets against the limit of calls per phase, which they all leave at *)
(* its default: the quick panel always has enough, while the ballots and    *)
(* the turns of the other two may need more than one phase allows, so that  *)
(* readers who did nothing wrong are eliminated.                            *)
THEOREM PhaseBudgets ==
    /\ LET c == Preset("quick") IN
         BallotCalls(c) <= c.phaseCalls /\ TurnCalls(c) <= c.phaseCalls
    /\ \A mode \in {"standard", "panel"} :
         LET c == Preset(mode) IN BallotCalls(c) > c.phaseCalls /\ TurnCalls(c) > c.phaseCalls
BY SMT DEF Preset, Config, BallotCalls, TurnCalls

(* _LEGAL_TRANSITIONS: no panel comes back to a status it has left.          *)
THEOREM NoWayBack ==
    ASSUME NEW s, NEW t, Legal(s, t)
    PROVE  t \in Status /\ Progress(t) > Progress(s)
<1>1. CASE t \in {"cancelled", "failed"}
  BY <1>1, SMT DEF Legal, Status, Terminal, Progress
<1>2. CASE <<s, t>> \in Forward
  BY <1>2, SMT DEF Forward, Status, Terminal, Progress
<1> QED
  BY <1>1, <1>2 DEF Legal
-----------------------------------------------------------------------------
(* The panel at work: the invariant of PanelSession and ReaderPanel.        *)
(*                                                                          *)
(* What a request does depends on the ledger only through four sets of      *)
(* work: what has succeeded, what is in flight, what was ever asked for and *)
(* what will never be asked for again.                                      *)
CallStatus == {"started", "succeeded", "cancelled",
               "unavailable", "invalid_output", "unknown", "budget_exhausted"}
Done == {k \in Work : HasAttempt(k, "succeeded")}
Running == {k \in Work : HasAttempt(k, "started")}
Begun == {k \in Work : attempts[k] # <<>>}
Exhausted(k) == HasAttempt(k, "unknown") \/ InvalidAnswers(k) >= 2 \/ ~InBudget(k)
Spent == {k \in Work \ (Done \cup Running) : Exhausted(k)}

(* Time is up, or the reader has had an answer lost for its size: such a    *)
(* reader is given up though somebody may ask the same of it again.         *)
Lost(r) == expired \/ r \in Oversized

(* Besides, nobody asks again after an answer of which nothing is known.    *)
LedgerOK ==
    /\ attempts \in [Work -> Seq(CallStatus)]
    /\ OneCallPerWork
    /\ \A k \in Work : HasAttempt(k, "unknown") => k \notin Running

(* A reader who can vote no further: it has voted on every issue before one *)
(* on which nobody will ask it again.                                       *)
Blocked == {r \in Reader : \E i \in Issue :
                /\ Ballot(<<r, i>>) \in Spent
                /\ \A j \in 1 .. i - 1 : Ballot(<<r, j>>) \in Done}

(* The panel has ended, or a late quorum has put it back behind issues that *)
(* it will not extract again: no report will come of it.                    *)
Ended == Terminal \cup {"initial_reports_locked"}
Over ==
    \/ panel.issues # <<>> /\ panel.status \in Ended
    \/ panel.initial /\ panel.status \in Ended \cup {"issue_extraction"}

-----------------------------------------------------------------------------
(* Types.                                                                   *)
Reached == Status \ {"created", "preparing"}
OnAgenda == IF Rounds = 0 THEN {} ELSE 1 .. AgendaIssues
ReaderStatus == {"pending", "completed", "failed"}
IssueStatus == {"queued", "discussing", "skipped", "closed"}
Report == [valid : SUBSET Reader, failed : SUBSET Reader]
PanelRow ==
    [status : Reached, reports : Nat, initial : BOOLEAN, final : BOOLEAN,
     readers : [Reader -> ReaderStatus], reported : SUBSET Reader,
     issues : Seq(IssueStatus), sources : SUBSET Reader,
     ballots : SUBSET Pairs, finals : SUBSET Pairs,
     messages : SUBSET (Nat \X Nat \X (Reader \cup {Moderator})),
     degraded : BOOLEAN, ended : BOOLEAN, handoffs : Seq(Report)]
PanelType ==
    /\ panel \in PanelRow
    /\ IssuesOf(panel) \subseteq Issue
    /\ OpenIssues(panel) \subseteq OnAgenda

Steps == {"idle", "dead", "enter", "reserve", "calling", "failed", "quorum",
          "cast", "seal", "turns", "close", "finals", "tally"}
Jobs == {"none", "read", "ballot", "discuss", "handoff"}
Snaps ==
    {<<>>} \cup (Nat \X (SUBSET Reader))
        \cup (BOOLEAN \X [Reader -> ReaderStatus] \X (SUBSET Reader) \X Seq(IssueStatus)
                \X (SUBSET Pairs) \X (SUBSET Pairs))
Views == [status : Status \cup {"none"}, runs : SUBSET Reader, open : SUBSET OnAgenda]
Request ==
    [at : Steps, job : Jobs, work : Work \cup {NoWork}, n : Nat,
     who : SUBSET Reader, todo : SUBSET Reader, votes : SUBSET Pairs,
     seen : Views, snap : Snaps, issue : OnAgenda \cup {0}, round : 0 .. Rounds]

-----------------------------------------------------------------------------
(* What a request x knows while it is at work.                              *)
Calling(x) == x.at \in {"reserve", "calling", "failed"}
Phases(job) ==
    CASE job = "read" -> {"initial_reading"}
      [] job = "ballot" -> {"issue_extraction", "initial_ballot"}
      [] job = "discuss" -> {"discussion_turn", "discussion_summary", "final_ballot"}
      [] job = "handoff" -> {"report_synthesis"}
      [] OTHER -> {}

(* It is at a step of its job, on a call of its phases.                     *)
Fits(x) ==
    /\ Calling(x) => x.work \in Work /\ x.work[1] \in Phases(x.job)
    /\ x.at = "calling" => x.n \in DOMAIN attempts[x.work]
    /\ x.at = "quorum" => x.job = "read" /\ x.todo = {}
    /\ x.at \in {"cast", "seal"} => x.job = "ballot"
    /\ x.at \in {"turns", "close", "finals", "tally"} => x.job = "discuss"
    /\ x.at = "turns" => x.issue # 0 /\ x.round # 0
    /\ Calling(x) /\ x.work[1] \in {"discussion_turn", "discussion_summary"} =>
         x.issue # 0 /\ x.round # 0
    /\ x.job = "discuss" /\ x.at # "enter" => panel.initial

(* It gives a reader up only when nobody will ask that again.               *)
GivesUp(x) ==
    /\ x.at = "failed" /\ x.job = "read" => Lost(x.work[4]) \/ x.work \in Spent
    /\ x.at = "failed" /\ x.work[1] = "initial_ballot" =>
         Lost(x.work[4]) \/ x.work \in Spent \/ Over

(* It has every report it counts, and the readers behind it are settled.    *)
Reads(x) ==
    x.job = "read" /\ x.at # "enter" =>
        /\ \A r \in x.who : Reading(r) \in Done
        /\ \A r \in Reader \ x.todo : Lost(r) \/ Reading(r) \in Done \cup Spent
        /\ Calling(x) => \E r \in x.todo : x.work = Reading(r)

(* It asks each reader for the ballots in the order of the issues.          *)
Ordered(votes) ==
    \A p \in votes : \A j \in 1 .. p[2] - 1 :
        <<p[1], j>> \in votes \/ Ballot(<<p[1], j>>) \in Done
Votes(x) ==
    /\ x.votes # {} /\ x.job = "ballot" =>
         x.votes \subseteq panel.reported \X IssuesOf(panel) /\ Ordered(x.votes)
    /\ Calling(x) /\ x.work[1] = "initial_ballot" =>
         \E p \in x.votes : /\ x.work = Ballot(p)
                            /\ \A q \in x.votes : q[1] = p[1] => p[2] <= q[2]

Requests == {x \in Request : Fits(x) /\ GivesUp(x) /\ Reads(x) /\ Votes(x)}
RequestsOK == worker \in [Workers -> Requests]

(* Every call is one request's own, and the call for a ballot is settled by *)
(* somebody else only when the panel is over.                               *)
CallsOK ==
    /\ \A v, w \in Workers :
         v # w /\ At(v, "calling") /\ At(w, "calling") /\ worker[v].work = worker[w].work =>
             worker[v].n # worker[w].n
    /\ \A w \in Workers :
         At(w, "calling") /\ worker[w].work[1] = "initial_ballot" => Pending(w) \/ Over

-----------------------------------------------------------------------------
(* What the rows say of each other and of the ledger.                       *)
Chain ==
    \A p \in Pairs : Ballot(p) \in Begun => \A j \in 1 .. p[2] - 1 : Ballot(<<p[1], j>>) \in Done
BallotsPaid == \A p \in panel.ballots : Ballot(p) \in Done
PhaseOK ==
    /\ panel.issues # <<>> \/ panel.initial => panel.reports # 0 /\ Extraction \in Done
    /\ panel.status = "initial_balloting" => Extraction \in Done
    /\ panel.status \in {"initial_ballots_locked", "discussing", "final_balloting",
                         "final_ballots_locked", "report_generating"} => panel.initial
    /\ panel.final =>
         /\ panel.initial
         /\ panel.status \in {"final_ballots_locked", "report_generating", "issue_extraction"}
                                 \cup Ended
    /\ panel.handoffs # <<>> => panel.final
    /\ panel.status \in {"completed", "degraded_completed"} => panel.handoffs # <<>>
ReadersOK ==
    /\ panel.reported = {r \in Reader : Reading(r) \in Done}
    /\ Completed(panel) \subseteq panel.reported
    /\ panel.issues = <<>> /\ ~panel.initial =>
         \A r \in panel.reported : Lost(r) \/ r \in Completed(panel)
    /\ panel.reports # 0 => \A r \in Reader : Lost(r) \/ Reading(r) \in Done \cup Spent

(* Until the ballots are sealed a reader is lost only for good, and after   *)
(* that nobody will be asked for a ballot.                                  *)
LossesFinal ==
    panel.initial \/ Over \/ \A r \in panel.reported \ Completed(panel) : Lost(r) \/ r \in Blocked
VotesIn ==
    panel.initial =>
        \A r \in panel.reported, i \in IssuesOf(panel) :
            Lost(r) \/ Ballot(<<r, i>>) \in Done \/ r \in Blocked
Quorate ==
    panel.reports # 0 =>
        expired \/ Over \/ Cardinality(Completed(panel) \cup Oversized) >= MinValid

PanelOK ==
    /\ PanelType
    /\ Chain /\ BallotsPaid /\ PhaseOK /\ ReadersOK
    /\ LossesFinal /\ VotesIn /\ Quorate
    /\ ReportCountsReaders
PanelInv == LedgerOK /\ RequestsOK /\ CallsOK /\ PanelOK
-----------------------------------------------------------------------------
(* Numbers and pairs.                                                       *)
LEMMA LeastNumber ==
    ASSUME NEW S \in SUBSET Nat, S # {}
    PROVE  \E m \in S : \A q \in S : m <= q
<1> DEFINE R == {p \in Nat \X Nat : p[1] < p[2]}
<1>1. IsWellFoundedOn(R, Nat)
  BY NatLessThanWellFounded DEF OpToRel
<1>2. PICK m \in S : \A q \in S : ~ (<<q, m>> \in R)
  <2> HIDE DEF R
  <2> QED BY <1>1, WFMin
<1>3. ASSUME NEW q \in S PROVE m <= q
  <2>1. q \in Nat /\ m \in Nat
    OBVIOUS
  <2>2. ~ (q < m)
    BY <1>2, <2>1, Zenon
  <2> QED BY <2>1, <2>2
<1> QED BY <1>3

(* The reader a request turns to is one of those it has still to ask.       *)
LEMMA FirstIsOne ==
    ASSUME NEW S \in SUBSET Nat, S # {}
    PROVE  First(S) \in S
BY LeastNumber DEF First

(* So is the ballot, and it is the first one of its reader.                 *)
LEMMA FirstPairIsFirst ==
    ASSUME NEW S \in SUBSET (Nat \X Nat), S # {}
    PROVE  /\ FirstPair(S) \in S
           /\ \A q \in S : q[1] = FirstPair(S)[1] => FirstPair(S)[2] <= q[2]
<1> DEFINE Firsts == {p[1] : p \in S}
<1>1. PICK r \in Firsts : \A q \in Firsts : r <= q
  <2>1. Firsts \in SUBSET Nat /\ Firsts # {}
    OBVIOUS
  <2> HIDE DEF Firsts
  <2> QED BY <2>1, LeastNumber
<1> DEFINE Seconds == {p[2] : p \in {q \in S : q[1] = r}}
<1>2. PICK i \in Seconds : \A q \in Seconds : i <= q
  <2>1. Seconds \in SUBSET Nat /\ Seconds # {}
    OBVIOUS
  <2> HIDE DEF Seconds
  <2> QED BY <2>1, LeastNumber
<1>3. \A p \in S : p = <<p[1], p[2]>> /\ p[1] \in Nat /\ p[2] \in Nat
  OBVIOUS
<1>4. <<r, i>> \in S
  BY <1>3
<1>5. \A q \in S : r <= q[1] /\ (q[1] = r => i <= q[2])
  BY <1>1, <1>2
<1> HIDE DEF Firsts, Seconds
<1>6. \A q \in S : r < q[1] \/ (r = q[1] /\ i <= q[2])
  BY <1>3, <1>4, <1>5
<1>7. \E p \in S : \A q \in S : p[1] < q[1] \/ (p[1] = q[1] /\ p[2] <= q[2])
  BY <1>4, <1>6
<1>8. \A q \in S : \/ FirstPair(S)[1] < q[1]
                   \/ FirstPair(S)[1] = q[1] /\ FirstPair(S)[2] <= q[2]
  BY <1>7 DEF FirstPair
<1>9. FirstPair(S) \in S
  BY <1>7 DEF FirstPair
<1> QED BY <1>3, <1>8, <1>9

-----------------------------------------------------------------------------
(* The units of work.                                                       *)
LEMMA WorkShape ==
    /\ \A r \in Reader : Reading(r) \in Work /\ Reading(r)[1] = "initial_reading" /\ Reading(r)[4] = r
    /\ \A p \in Pairs : /\ Ballot(p) \in Work /\ Ballot(p)[1] = "initial_ballot"
                        /\ p = <<p[1], p[2]>> /\ p[1] \in Reader /\ p[2] \in Issue
                        /\ Ballot(p)[4] = p[1] /\ Ballot(p)[2] = p[2]
    /\ \A p \in Pairs : Final(p) \in Work /\ Final(p)[1] = "final_ballot"
    /\ Extraction \in Work /\ Extraction[1] = "issue_extraction"
    /\ Synthesis \in Work /\ Synthesis[1] = "report_synthesis"
    /\ NoWork[1] = "none"
BY DEF Work, Reading, Ballot, Final, Extraction, Synthesis, Pairs, NoWork

LEMMA WorkOfPhase ==
    ASSUME NEW k \in Work
    PROVE  /\ k[1] = "initial_reading" => k[4] \in Reader /\ k = Reading(k[4])
           /\ k[1] = "issue_extraction" => k = Extraction
           /\ k[1] = "initial_ballot" => <<k[4], k[2]>> \in Pairs /\ k = Ballot(<<k[4], k[2]>>)
           /\ k[1] \in {"discussion_turn", "final_ballot"} => k[4] \in Reader
           /\ k[1] = "final_ballot" => <<k[4], k[2]>> \in Pairs
           /\ k[1] = "report_synthesis" => k = Synthesis
BY DEF Work, Reading, Ballot, Final, Extraction, Synthesis, Pairs, Turn, Summary

LEMMA WorkFinite == IsFiniteSet(Work)
<1> DEFINE Phase == {"initial_reading", "issue_extraction", "initial_ballot", "discussion_turn",
                     "discussion_summary", "final_ballot", "report_synthesis"}
           Codes == (Phase \X (0 .. BallotIssues)) \X ((0 .. Rounds) \X (0 .. ReaderCount))
           code == [c \in Codes |-> <<c[1][1], c[1][2], c[2][1], c[2][2]>>]
<1>1. IsFiniteSet(0 .. BallotIssues) /\ IsFiniteSet(0 .. Rounds) /\ IsFiniteSet(0 .. ReaderCount)
  BY PanelConfig, FS_Interval
<1>2. IsFiniteSet(Phase)
  <2>1. IsFiniteSet({"initial_reading"}) /\ IsFiniteSet({"issue_extraction"})
        /\ IsFiniteSet({"initial_ballot"}) /\ IsFiniteSet({"discussion_turn"})
        /\ IsFiniteSet({"discussion_summary"}) /\ IsFiniteSet({"final_ballot"})
        /\ IsFiniteSet({"report_synthesis"})
    BY FS_Singleton
  <2>2. IsFiniteSet({"initial_reading"} \cup {"issue_extraction"})
        /\ IsFiniteSet({"initial_ballot"} \cup {"discussion_turn"})
        /\ IsFiniteSet({"discussion_summary"} \cup {"final_ballot"})
    BY <2>1, FS_Union
  <2>3. IsFiniteSet({"initial_reading"} \cup {"issue_extraction"}
                      \cup ({"initial_ballot"} \cup {"discussion_turn"}))
    BY <2>2, FS_Union
  <2>4. IsFiniteSet({"discussion_summary"} \cup {"final_ballot"} \cup {"report_synthesis"})
    BY <2>1, <2>2, FS_Union
  <2>5. IsFiniteSet({"initial_reading"} \cup {"issue_extraction"}
                      \cup ({"initial_ballot"} \cup {"discussion_turn"})
                      \cup ({"discussion_summary"} \cup {"final_ballot"} \cup {"report_synthesis"}))
    BY <2>3, <2>4, FS_Union
  <2>6. Phase = {"initial_reading"} \cup {"issue_extraction"}
                  \cup ({"initial_ballot"} \cup {"discussion_turn"})
                  \cup ({"discussion_summary"} \cup {"final_ballot"} \cup {"report_synthesis"})
    OBVIOUS
  <2> QED BY <2>5, <2>6
<1>3. IsFiniteSet(Codes)
  <2> HIDE DEF Phase
  <2> QED BY <1>1, <1>2, FS_Product
<1>4. IsFiniteSet({code[c] : c \in Codes})
  <2> DEFINE Image == {code[c] : c \in Codes}
  <2>1. code \in Surjection(Codes, Image)
    <3> HIDE DEF Codes
    <3> QED BY DEF Surjection
  <2> HIDE DEF code, Codes, Image
  <2>2. IsFiniteSet(Image)
    BY <1>3, <2>1, FS_Surjection
  <2> QED BY <2>2 DEF Image
<1>5. ASSUME NEW a \in Phase, NEW b \in 0 .. BallotIssues, NEW c \in 0 .. Rounds,
             NEW d \in 0 .. ReaderCount
      PROVE  <<a, b, c, d>> \in {code[e] : e \in Codes}
  <2>1. <<<<a, b>>, <<c, d>>>> \in Codes
    OBVIOUS
  <2>2. code[<<<<a, b>>, <<c, d>>>>] = <<a, b, c, d>>
    BY <2>1
  <2> HIDE DEF code, Codes
  <2> QED BY <2>1, <2>2
<1>6. Work \subseteq {code[c] : c \in Codes}
  <2> DEFINE Image == {code[c] : c \in Codes}
  <2>1. /\ \A r \in Reader : r \in 0 .. ReaderCount
        /\ \A i \in Issue : i \in 0 .. BallotIssues
        /\ \A i \in 1 .. AgendaIssues : i \in 0 .. BallotIssues
        /\ \A k \in 1 .. Rounds : k \in 0 .. Rounds
        /\ 0 \in 0 .. ReaderCount /\ 0 \in 0 .. BallotIssues /\ 0 \in 0 .. Rounds
    BY PanelConfig DEF Reader, Issue
  <2>2. \A p \in Pairs : p[1] \in Reader /\ p[2] \in Issue
    BY DEF Pairs
  <2>3. \A a \in Phase, b \in 0 .. BallotIssues, c \in 0 .. Rounds, d \in 0 .. ReaderCount :
          <<a, b, c, d>> \in Image
    BY <1>5
  <2> HIDE DEF Image
  <2>4. \A r \in Reader : Reading(r) \in Image
    BY <2>1, <2>3 DEF Reading
  <2>5. Extraction \in Image /\ Synthesis \in Image
    BY <2>1, <2>3 DEF Extraction, Synthesis
  <2>6. \A p \in Pairs : Ballot(p) \in Image /\ Final(p) \in Image
    BY <2>1, <2>2, <2>3 DEF Ballot, Final
  <2>7. \A i \in 1 .. AgendaIssues, k \in 1 .. Rounds :
           Summary(i, k) \in Image /\ \A r \in Reader : Turn(i, k, r) \in Image
    BY <2>1, <2>3 DEF Turn, Summary, Moderator
  <2>8. Work \subseteq Image
    BY <2>4, <2>5, <2>6, <2>7 DEF Work
  <2> QED BY <2>8 DEF Image
<1> HIDE DEF code, Codes
<1> QED BY <1>4, <1>6, FS_Subset

-----------------------------------------------------------------------------
(* The ledger.                                                              *)
Ledgers == [Work -> Seq(CallStatus)]

LEMMA LedgerRow ==
    ASSUME NEW a \in Ledgers, NEW k \in Work
    PROVE  /\ a[k] \in Seq(CallStatus) /\ Len(a[k]) \in Nat /\ DOMAIN a[k] = 1 .. Len(a[k])
           /\ \A n \in DOMAIN a[k] : a[k][n] \in CallStatus
BY DEF Ledgers

(* However long the rows are, the calls can be counted, and more rows are   *)
(* more calls.                                                              *)
LEMMA CallsGrow ==
    ASSUME attempts \in Ledgers, attempts' \in Ledgers,
           \A k \in Work : Len(attempts[k]) <= Len(attempts'[k]),
           NEW S \in SUBSET Work
    PROVE  Calls(S) \in Nat /\ Calls(S)' \in Nat /\ Calls(S) <= Calls(S)'
<1> DEFINE before == {c \in S \X (1 .. MaxAttempts) : c[2] <= Len(attempts[c[1]])}
           after == {c \in S \X (1 .. MaxAttempts) : c[2] <= Len(attempts'[c[1]])}
<1>1. IsFiniteSet(S) /\ IsFiniteSet(1 .. MaxAttempts)
  BY WorkFinite, FS_Subset, FS_Interval, PanelConfig
<1>2. IsFiniteSet(S \X (1 .. MaxAttempts))
  BY <1>1, FS_Product
<1>3. IsFiniteSet(after)
  BY <1>2, FS_Subset
<1>4. before \subseteq after
  <2> SUFFICES ASSUME NEW c \in before PROVE c \in after
    OBVIOUS
  <2>1. c[1] \in Work /\ c[2] \in Nat
    OBVIOUS
  <2>2. Len(attempts[c[1]]) \in Nat /\ Len(attempts'[c[1]]) \in Nat
    BY <2>1, LedgerRow
  <2>3. c[2] <= Len(attempts[c[1]]) /\ Len(attempts[c[1]]) <= Len(attempts'[c[1]])
    BY <2>1
  <2> QED BY <2>1, <2>2, <2>3
<1>5. /\ IsFiniteSet(before) /\ Cardinality(before) <= Cardinality(after)
      /\ Cardinality(before) \in Nat /\ Cardinality(after) \in Nat
  <2> HIDE DEF before, after
  <2> QED BY <1>3, <1>4, FS_Subset, FS_CardinalityType
<1>6. Calls(S) = Cardinality(before) /\ Calls(S)' = Cardinality(after)
  BY DEF Calls
<1> HIDE DEF before, after
<1> QED BY <1>5, <1>6

LEMMA BudgetStaysSpent ==
    ASSUME attempts \in Ledgers, attempts' \in Ledgers,
           \A k \in Work : Len(attempts[k]) <= Len(attempts'[k]),
           NEW k \in Work, ~InBudget(k)
    PROVE  ~InBudget(k)'
<1>1. /\ Calls(Work) \in Nat /\ Calls(Work)' \in Nat /\ Calls(Work) <= Calls(Work)'
  BY CallsGrow
<1>2. PhaseOf(k) \subseteq Work
  BY DEF PhaseOf
<1>3. PICK S \in SUBSET Work : S = PhaseOf(k)
  BY <1>2
<1>4. Calls(S) \in Nat /\ Calls(S)' \in Nat /\ Calls(S) <= Calls(S)'
  BY CallsGrow
<1>5. Len(attempts[k]) \in Nat /\ Len(attempts'[k]) \in Nat
  BY LedgerRow
<1>6. PhaseOf(k)' = PhaseOf(k)
  BY DEF PhaseOf
<1>7. CASE ~(Calls(Work) < MaxCalls)
  <2>1. ~(Calls(Work)' < MaxCalls)
    BY <1>1, <1>7, PanelConfig
  <2> QED BY <2>1 DEF InBudget
<1>8. CASE ~(Calls(S) < MaxPhaseCalls)
  <2>1. ~(Calls(S)' < MaxPhaseCalls)
    BY <1>4, <1>8, PanelConfig
  <2>2. Calls(PhaseOf(k))' = Calls(S)'
    BY <1>3, <1>6
  <2> QED BY <2>1, <2>2 DEF InBudget
<1>9. CASE ~(Len(attempts[k]) < MaxAttempts)
  <2>1. ~(Len(attempts'[k]) < MaxAttempts)
    BY <1>5, <1>9, PanelConfig
  <2> QED BY <2>1 DEF InBudget
<1> QED BY <1>3, <1>7, <1>8, <1>9 DEF InBudget

LEMMA InvalidCount ==
    ASSUME attempts \in Ledgers, NEW k \in Work
    PROVE  /\ IsFiniteSet({n \in DOMAIN attempts[k] : attempts[k][n] = "invalid_output"})
           /\ InvalidAnswers(k) \in Nat
<1>1. IsFiniteSet(DOMAIN attempts[k])
  BY LedgerRow, FS_Interval
<1>2. IsFiniteSet({n \in DOMAIN attempts[k] : attempts[k][n] = "invalid_output"})
  BY <1>1, FS_Subset
<1> QED BY <1>2, FS_CardinalityType DEF InvalidAnswers

(* Work that nobody will be granted stays so while its rows do.             *)
LEMMA SpentStays ==
    ASSUME attempts \in Ledgers, attempts' \in Ledgers,
           \A k \in Work : Len(attempts[k]) <= Len(attempts'[k]),
           \A k \in Spent : attempts'[k] = attempts[k]
    PROVE  Spent \subseteq Spent'
<1> SUFFICES ASSUME NEW k \in Spent PROVE k \in Spent'
  OBVIOUS
<1>1. k \in Work /\ k \notin Done /\ k \notin Running /\ Exhausted(k) /\ attempts'[k] = attempts[k]
  BY DEF Spent
<1>2. k \notin Done' /\ k \notin Running'
  BY <1>1 DEF Done, Running, HasAttempt
<1>3. CASE HasAttempt(k, "unknown")
  <2>1. HasAttempt(k, "unknown")'
    BY <1>1, <1>3 DEF HasAttempt
  <2> QED BY <1>1, <1>2, <2>1 DEF Spent, Exhausted
<1>4. CASE InvalidAnswers(k) >= 2
  <2>1. InvalidAnswers(k)' >= 2
    BY <1>1, <1>4 DEF InvalidAnswers
  <2> QED BY <1>1, <1>2, <2>1 DEF Spent, Exhausted
<1>5. CASE ~InBudget(k)
  <2>1. ~InBudget(k)'
    BY <1>1, <1>5, BudgetStaysSpent
  <2> QED BY <1>1, <1>2, <2>1 DEF Spent, Exhausted
<1> QED BY <1>1, <1>3, <1>4, <1>5 DEF Exhausted

LEMMA OutcomesApart ==
    ASSUME LedgerOK
    PROVE  /\ Done \cap Running = {} /\ Done \cup Running \subseteq Begun
           /\ Spent \cap (Done \cup Running) = {}
<1>1. ASSUME NEW k \in Done PROVE k \notin Running
  <2>1. PICK n \in DOMAIN attempts[k] : attempts[k][n] = "succeeded"
    BY DEF Done, HasAttempt
  <2>2. n = Len(attempts[k])
    BY <2>1 DEF LedgerOK, OneCallPerWork, Done
  <2>3. \A m \in DOMAIN attempts[k] : attempts[k][m] = "started" => m = n
    BY <2>2 DEF LedgerOK, OneCallPerWork, Done
  <2> QED BY <2>1, <2>3 DEF Running, HasAttempt
<1>2. Done \cup Running \subseteq Begun
  BY DEF Done, Running, Begun, HasAttempt
<1> QED BY <1>1, <1>2 DEF Spent

(* What every change of the ledger keeps.                                   *)
LedgerGrows ==
    /\ LedgerOK'
    /\ Done \subseteq Done' /\ Spent \subseteq Spent' /\ Begun \subseteq Begun'
    /\ \A k \in Work : DOMAIN attempts[k] \subseteq DOMAIN attempts'[k]
    /\ Oversized \subseteq Oversized'

(* An answer once too large stays one.                                      *)
LEMMA OversizedStays ==
    ASSUME \A k \in Work : \A n \in DOMAIN attempts[k] :
             attempts[k][n] = "budget_exhausted" =>
                 n \in DOMAIN attempts'[k] /\ attempts'[k][n] = "budget_exhausted"
    PROVE  Oversized \subseteq Oversized'
<1>1. \A k \in Work : HasAttempt(k, "budget_exhausted") => HasAttempt(k, "budget_exhausted")'
  BY DEF HasAttempt
<1> QED BY <1>1 DEF Oversized

LEMMA LedgerRests ==
    ASSUME LedgerOK, attempts' = attempts
    PROVE  LedgerGrows /\ Done' = Done /\ Begun' = Begun /\ Running' = Running
<1>1. LedgerOK' /\ Done' = Done /\ Begun' = Begun /\ Running' = Running
  BY DEF LedgerOK, OneCallPerWork, Done, Begun, Running, HasAttempt
<1>2. \A k \in Work : Exhausted(k)' <=> Exhausted(k)
  BY DEF Exhausted, HasAttempt, InvalidAnswers, InBudget, Calls, PhaseOf
<1>3. Spent' = Spent
  BY <1>1, <1>2 DEF Spent
<1>4. Oversized \subseteq Oversized'
  BY OversizedStays
<1> QED BY <1>1, <1>3, <1>4 DEF LedgerGrows

LEMMA LedgerCancels ==
    ASSUME LedgerOK, attempts' = CancelStarted(attempts)
    PROVE  LedgerGrows /\ Done' = Done /\ Begun' = Begun
<1>1. attempts \in Ledgers
  BY DEF LedgerOK, Ledgers
<1>2. ASSUME NEW k \in Work
      PROVE  /\ attempts'[k] \in Seq(CallStatus)
             /\ DOMAIN attempts'[k] = DOMAIN attempts[k] /\ Len(attempts'[k]) = Len(attempts[k])
             /\ \A n \in DOMAIN attempts[k] : attempts'[k][n] =
                  IF attempts[k][n] = "started" THEN "cancelled" ELSE attempts[k][n]
  <2>1. /\ Len(attempts[k]) \in Nat /\ DOMAIN attempts[k] = 1 .. Len(attempts[k])
        /\ \A n \in DOMAIN attempts[k] : attempts[k][n] \in CallStatus
    BY <1>1, LedgerRow
  <2>2. attempts'[k] = [n \in 1 .. Len(attempts[k]) |->
                          IF attempts[k][n] = "started" THEN "cancelled" ELSE attempts[k][n]]
    BY <2>1 DEF CancelStarted
  <2>3. \A n \in 1 .. Len(attempts[k]) :
          (IF attempts[k][n] = "started" THEN "cancelled" ELSE attempts[k][n]) \in CallStatus
    BY <2>1 DEF CallStatus
  <2>4. attempts'[k] \in Seq(CallStatus)
    BY <2>1, <2>2, <2>3, IsASeq
  <2>5. Len(attempts'[k]) = Len(attempts[k])
    BY <2>1, <2>2, <2>4, LenProperties
  <2> QED BY <2>1, <2>2, <2>4, <2>5
<1>3. attempts' \in Ledgers
  BY <1>2 DEF CancelStarted, Ledgers
<1>4. OneCallPerWork'
  <2> SUFFICES ASSUME NEW k \in Work, NEW n \in DOMAIN attempts'[k],
                      attempts'[k][n] \in {"started", "succeeded"}
               PROVE  n = Len(attempts'[k])
    BY DEF OneCallPerWork
  <2>1. attempts[k][n] = "succeeded" /\ n \in DOMAIN attempts[k]
    BY <1>2
  <2> QED BY <1>2, <2>1 DEF LedgerOK, OneCallPerWork
<1>5. Done' = Done
  <2>1. \A k \in Work : HasAttempt(k, "succeeded")' <=> HasAttempt(k, "succeeded")
    BY <1>2 DEF HasAttempt
  <2> QED BY <2>1 DEF Done
<1>6. Begun' = Begun
  <2>1. ASSUME NEW k \in Work PROVE attempts'[k] = <<>> <=> attempts[k] = <<>>
    BY <1>1, <1>2, <1>3, LedgerRow, EmptySeq
  <2> QED BY <2>1 DEF Begun
<1>7. Spent \subseteq Spent'
  <2>1. ASSUME NEW k \in Spent PROVE attempts'[k] = attempts[k]
    <3>1. k \in Work /\ \A n \in DOMAIN attempts[k] : attempts[k][n] # "started"
      BY DEF Spent, Running, HasAttempt
    <3>2. /\ DOMAIN attempts'[k] = DOMAIN attempts[k]
          /\ \A n \in DOMAIN attempts[k] : attempts'[k][n] = attempts[k][n]
      BY <1>2, <3>1
    <3>3. attempts[k] \in Seq(CallStatus) /\ attempts'[k] \in Seq(CallStatus)
          /\ Len(attempts'[k]) = Len(attempts[k]) /\ DOMAIN attempts[k] = 1 .. Len(attempts[k])
      BY <1>1, <1>2, <3>1, LedgerRow
    <3> QED BY <3>2, <3>3, SeqEqual
  <2>2. \A k \in Work : Len(attempts[k]) <= Len(attempts'[k])
    BY <1>1, <1>2, LedgerRow
  <2> QED BY <1>1, <1>3, <2>1, <2>2, SpentStays
<1>8. ASSUME NEW k \in Work PROVE k \notin Running'
  <2>1. ASSUME NEW n \in DOMAIN attempts'[k] PROVE attempts'[k][n] # "started"
    BY <1>2
  <2> QED BY <2>1 DEF Running, HasAttempt
<1>9. LedgerOK'
  BY <1>3, <1>4, <1>8 DEF LedgerOK, Ledgers
<1>10. Oversized \subseteq Oversized'
  BY <1>2, OversizedStays
<1> QED BY <1>2, <1>5, <1>6, <1>7, <1>9, <1>10 DEF LedgerGrows

(* A call in flight is answered.                                            *)
LEMMA LedgerSettles ==
    ASSUME LedgerOK,
           NEW k \in Work, NEW n \in DOMAIN attempts[k], attempts[k][n] = "started",
           NEW s \in CallStatus \ {"started"},
           attempts' = [attempts EXCEPT ![k][n] = s]
    PROVE  /\ LedgerGrows /\ Begun' = Begun
           /\ Done' = IF s = "succeeded" THEN Done \cup {k} ELSE Done
           /\ k \in Running /\ k \notin Running'
<1>1. attempts \in Ledgers
  BY DEF LedgerOK, Ledgers
<1>2. /\ attempts[k] \in Seq(CallStatus) /\ Len(attempts[k]) \in Nat
      /\ DOMAIN attempts[k] = 1 .. Len(attempts[k])
  BY <1>1, LedgerRow
<1>3. attempts' = [attempts EXCEPT ![k] = [attempts[k] EXCEPT ![n] = s]]
  OBVIOUS
<1>4. /\ [attempts[k] EXCEPT ![n] = s] \in Seq(CallStatus)
      /\ Len([attempts[k] EXCEPT ![n] = s]) = Len(attempts[k])
  BY <1>2, ExceptSeq
<1>5. attempts' \in Ledgers
  BY <1>1, <1>3, <1>4 DEF Ledgers
<1>6. /\ attempts'[k] = [attempts[k] EXCEPT ![n] = s]
      /\ \A j \in Work : j # k => attempts'[j] = attempts[j]
  BY <1>1, <1>3 DEF Ledgers
<1>7. n = Len(attempts[k])
  BY DEF LedgerOK, OneCallPerWork
<1>8. OneCallPerWork'
  <2> SUFFICES ASSUME NEW j \in Work, NEW m \in DOMAIN attempts'[j],
                      attempts'[j][m] \in {"started", "succeeded"}
               PROVE  m = Len(attempts'[j])
    BY DEF OneCallPerWork
  <2>1. CASE j # k
    BY <1>6, <2>1 DEF LedgerOK, OneCallPerWork
  <2>2. CASE j = k /\ m = n
    BY <1>4, <1>6, <1>7, <2>2
  <2>3. CASE j = k /\ m # n
    <3>1. m \in DOMAIN attempts[k] /\ attempts[k][m] \in {"started", "succeeded"}
      BY <1>6, <2>3
    <3> QED BY <1>7, <2>3, <3>1 DEF LedgerOK, OneCallPerWork
  <2> QED BY <2>1, <2>2, <2>3
<1>9. k \in Running /\ k \notin Done
  <2>1. k \in Running
    BY DEF Running, HasAttempt
  <2> QED BY <2>1, OutcomesApart
<1>10. ASSUME NEW j \in Work
       PROVE  HasAttempt(j, "succeeded")' <=> HasAttempt(j, "succeeded") \/ (j = k /\ s = "succeeded")
  <2>1. CASE j # k
    BY <1>6, <2>1 DEF HasAttempt
  <2>2. CASE j = k
    <3>1. ~HasAttempt(k, "succeeded")
      BY <1>9 DEF Done
    <3>2. \A m \in DOMAIN attempts[k] : m # n => attempts'[k][m] # "succeeded"
      BY <1>6, <3>1 DEF HasAttempt
    <3>3. attempts'[k][n] = s /\ DOMAIN attempts'[k] = DOMAIN attempts[k]
      BY <1>6
    <3> QED BY <2>2, <3>1, <3>2, <3>3 DEF HasAttempt
  <2> QED BY <2>1, <2>2
<1>11. Done' = IF s = "succeeded" THEN Done \cup {k} ELSE Done
  BY <1>10 DEF Done
<1>12. k \notin Running'
  <2>1. ASSUME NEW m \in DOMAIN attempts'[k] PROVE attempts'[k][m] # "started"
    <3>1. CASE m = n
      BY <1>6, <3>1
    <3>2. CASE m # n
      <4>1. m \in DOMAIN attempts[k] /\ attempts'[k][m] = attempts[k][m]
        BY <1>6, <3>2
      <4> QED BY <1>7, <3>2, <4>1 DEF LedgerOK, OneCallPerWork
    <3> QED BY <3>1, <3>2
  <2> QED BY <2>1 DEF Running, HasAttempt
<1>13. Begun' = Begun
  <2>1. attempts'[k] # <<>> /\ attempts[k] # <<>>
    BY <1>6
  <2> QED BY <1>6, <2>1 DEF Begun
<1>14. \A j \in Work : Len(attempts[j]) <= Len(attempts'[j])
  <2> SUFFICES ASSUME NEW j \in Work PROVE Len(attempts[j]) <= Len(attempts'[j])
    OBVIOUS
  <2>1. Len(attempts[j]) \in Nat
    BY <1>1, LedgerRow
  <2>2. Len(attempts'[j]) = Len(attempts[j])
    BY <1>4, <1>6
  <2> QED BY <2>1, <2>2
<1>15. Spent \subseteq Spent'
  <2>1. \A j \in Spent : attempts'[j] = attempts[j]
    BY <1>6, <1>9 DEF Spent
  <2> QED BY <1>1, <1>5, <1>14, <2>1, SpentStays
<1>16. \A j \in Work : DOMAIN attempts[j] \subseteq DOMAIN attempts'[j]
  BY <1>6
<1>17. ASSUME NEW j \in Work, HasAttempt(j, "unknown")' PROVE j \notin Running'
  <2>1. CASE j = k
    BY <1>12, <2>1
  <2>2. CASE j # k
    <3>1. attempts'[j] = attempts[j]
      BY <1>6, <2>2
    <3>2. HasAttempt(j, "unknown") /\ j \notin Running
      BY <1>17, <3>1 DEF HasAttempt, LedgerOK
    <3> QED BY <3>1, <3>2 DEF Running, HasAttempt
  <2> QED BY <2>1, <2>2
<1>18. LedgerOK'
  BY <1>5, <1>8, <1>17 DEF LedgerOK, Ledgers
<1>19. Done \subseteq Done'
  BY <1>11
<1>20. Oversized \subseteq Oversized'
  <2> SUFFICES ASSUME NEW j \in Work, NEW m \in DOMAIN attempts[j],
                      attempts[j][m] = "budget_exhausted"
               PROVE  m \in DOMAIN attempts'[j] /\ attempts'[j][m] = "budget_exhausted"
    BY OversizedStays
  <2>1. CASE j # k
    BY <1>6, <2>1
  <2>2. CASE j = k
    <3>1. m # n
      BY <2>2
    <3> QED BY <1>6, <2>2, <3>1
  <2> QED BY <2>1, <2>2
<1> QED BY <1>9, <1>11, <1>12, <1>13, <1>15, <1>16, <1>18, <1>19, <1>20 DEF LedgerGrows

(* A call is granted.                                                       *)
LEMMA LedgerReserves ==
    ASSUME LedgerOK, NEW k \in Work, Verdict(k) = "granted",
           attempts' = [attempts EXCEPT ![k] = Append(@, "started")]
    PROVE  /\ LedgerGrows /\ Done' = Done /\ Begun' = Begun \cup {k}
           /\ k \notin Done \cup Spent \cup Running
           /\ Len(attempts[k]) + 1 \in DOMAIN attempts'[k]
<1>1. attempts \in Ledgers
  BY DEF LedgerOK, Ledgers
<1>2. ~HasAttempt(k, "succeeded") /\ ~HasAttempt(k, "started") /\ ~Exhausted(k)
  BY <1>1, InvalidCount DEF Verdict, Exhausted
<1>3. k \notin Done \cup Spent \cup Running
  BY <1>2 DEF Done, Spent, Running
<1>4. /\ attempts[k] \in Seq(CallStatus) /\ Len(attempts[k]) \in Nat
      /\ DOMAIN attempts[k] = 1 .. Len(attempts[k])
  BY <1>1, LedgerRow
<1> DEFINE row == Append(attempts[k], "started")
<1>5. /\ row \in Seq(CallStatus) /\ Len(row) = Len(attempts[k]) + 1
      /\ \A n \in 1 .. Len(attempts[k]) : row[n] = attempts[k][n]
      /\ row[Len(attempts[k]) + 1] = "started" /\ row # <<>>
  BY <1>4, AppendProperties DEF CallStatus
<1>6. DOMAIN row = 1 .. Len(attempts[k]) + 1
  BY <1>4, <1>5
<1>7. /\ attempts' \in Ledgers /\ attempts'[k] = row
      /\ \A j \in Work : j # k => attempts'[j] = attempts[j]
  <2> HIDE DEF row
  <2>1. attempts' = [attempts EXCEPT ![k] = row]
    BY DEF row
  <2> QED BY <1>1, <1>5, <2>1 DEF Ledgers
<1> HIDE DEF row
<1>8. OneCallPerWork'
  <2> SUFFICES ASSUME NEW j \in Work, NEW m \in DOMAIN attempts'[j],
                      attempts'[j][m] \in {"started", "succeeded"}
               PROVE  m = Len(attempts'[j])
    BY DEF OneCallPerWork
  <2>1. CASE j # k
    BY <1>7, <2>1 DEF LedgerOK, OneCallPerWork
  <2>2. CASE j = k
    <3>1. m \in 1 .. Len(attempts[k]) \/ m = Len(attempts[k]) + 1
      BY <1>4, <1>6, <1>7, <2>2
    <3>2. m \notin 1 .. Len(attempts[k])
      BY <1>2, <1>4, <1>5, <1>7, <2>2 DEF HasAttempt
    <3> QED BY <1>5, <1>7, <2>2, <3>1, <3>2
  <2> QED BY <2>1, <2>2
<1>9. Done' = Done
  <2>1. ASSUME NEW j \in Work PROVE HasAttempt(j, "succeeded")' <=> HasAttempt(j, "succeeded")
    <3>1. CASE j # k
      BY <1>7, <3>1 DEF HasAttempt
    <3>2. CASE j = k
      <4>1. \A m \in 1 .. Len(attempts[k]) + 1 : row[m] # "succeeded"
        BY <1>2, <1>4, <1>5 DEF HasAttempt
      <4> QED BY <1>2, <1>6, <1>7, <3>2, <4>1 DEF HasAttempt
    <3> QED BY <3>1, <3>2
  <2> QED BY <2>1 DEF Done
<1>10. Begun' = Begun \cup {k}
  BY <1>5, <1>7 DEF Begun
<1>11. /\ \A j \in Work : Len(attempts[j]) <= Len(attempts'[j])
       /\ \A j \in Work : DOMAIN attempts[j] \subseteq DOMAIN attempts'[j]
  <2> SUFFICES ASSUME NEW j \in Work
               PROVE  /\ Len(attempts[j]) <= Len(attempts'[j])
                      /\ DOMAIN attempts[j] \subseteq DOMAIN attempts'[j]
    OBVIOUS
  <2>1. Len(attempts[j]) \in Nat
    BY <1>1, LedgerRow
  <2>2. CASE j = k
    BY <1>4, <1>5, <1>6, <1>7, <2>1, <2>2
  <2>3. CASE j # k
    BY <1>7, <2>1, <2>3
  <2> QED BY <2>2, <2>3
<1>12. Spent \subseteq Spent'
  <2>1. \A j \in Spent : attempts'[j] = attempts[j]
    BY <1>3, <1>7 DEF Spent
  <2> QED BY <1>1, <1>7, <1>11, <2>1, SpentStays
<1>13. Len(attempts[k]) + 1 \in DOMAIN attempts'[k]
  BY <1>4, <1>6, <1>7
<1>14. ASSUME NEW j \in Work, HasAttempt(j, "unknown")' PROVE j \notin Running'
  <2>1. CASE j = k
    <3>1. ~HasAttempt(k, "unknown")
      BY DEF Verdict
    <3>2. \A m \in 1 .. Len(attempts[k]) + 1 : row[m] # "unknown"
      BY <1>4, <1>5, <3>1 DEF HasAttempt
    <3> QED BY <1>6, <1>7, <1>14, <2>1, <3>2 DEF HasAttempt
  <2>2. CASE j # k
    <3>1. attempts'[j] = attempts[j]
      BY <1>7, <2>2
    <3>2. HasAttempt(j, "unknown") /\ j \notin Running
      BY <1>14, <3>1 DEF HasAttempt, LedgerOK
    <3> QED BY <3>1, <3>2 DEF Running, HasAttempt
  <2> QED BY <2>1, <2>2
<1>15. LedgerOK'
  BY <1>7, <1>8, <1>14 DEF LedgerOK, Ledgers
<1>16. Oversized \subseteq Oversized'
  <2> SUFFICES ASSUME NEW j \in Work, NEW m \in DOMAIN attempts[j],
                      attempts[j][m] = "budget_exhausted"
               PROVE  m \in DOMAIN attempts'[j] /\ attempts'[j][m] = "budget_exhausted"
    BY OversizedStays
  <2>1. CASE j # k
    BY <1>7, <2>1
  <2>2. CASE j = k
    BY <1>4, <1>5, <1>6, <1>7, <2>2
  <2> QED BY <2>1, <2>2
<1> QED BY <1>3, <1>9, <1>10, <1>11, <1>12, <1>13, <1>15, <1>16 DEF LedgerGrows

(* A failure that is not retried leaves work that nobody will be granted:   *)
(* an answer that was too large is the one exception.                       *)
LEMMA UnretriedIsSpent ==
    ASSUME LedgerOK,
           NEW k \in Work, NEW n \in DOMAIN attempts[k], attempts[k][n] = "started",
           NEW s \in {"unavailable", "invalid_output", "unknown"},
           attempts' = [attempts EXCEPT ![k][n] = s],
           ~ (/\ n < MaxAttempts /\ s \in {"unavailable", "invalid_output"}
              /\ s = "invalid_output" => InvalidAnswers(k) = 0)
    PROVE  k \in Spent'
<1>1. s \in CallStatus \ {"started"} /\ s # "succeeded"
  BY DEF CallStatus
<1>2. LedgerOK' /\ Done' = Done /\ k \in Running /\ k \notin Running'
  BY <1>1, LedgerSettles DEF LedgerGrows
<1>3. attempts \in Ledgers /\ attempts' \in Ledgers
  BY <1>2 DEF LedgerOK, Ledgers
<1>4. k \notin Done' /\ k \notin Running'
  BY <1>2, OutcomesApart
<1>5. /\ attempts[k] \in Seq(CallStatus) /\ Len(attempts[k]) \in Nat
      /\ DOMAIN attempts[k] = 1 .. Len(attempts[k])
  BY <1>3, LedgerRow
<1>6. attempts'[k] = [attempts[k] EXCEPT ![n] = s]
  BY <1>3 DEF Ledgers
<1>7. DOMAIN attempts'[k] = DOMAIN attempts[k] /\ attempts'[k][n] = s
  BY <1>5, <1>6
<1>8. Len(attempts'[k]) = Len(attempts[k])
  BY <1>1, <1>5, <1>6, ExceptSeq
<1>9. n = Len(attempts[k])
  BY DEF LedgerOK, OneCallPerWork
<1>10. CASE ~ (n < MaxAttempts)
  <2>1. ~InBudget(k)'
    BY <1>8, <1>9, <1>10 DEF InBudget
  <2> QED BY <1>4, <2>1 DEF Spent, Exhausted
<1>11. CASE s = "unknown"
  <2>1. HasAttempt(k, "unknown")'
    BY <1>7, <1>11 DEF HasAttempt
  <2> QED BY <1>4, <2>1 DEF Spent, Exhausted
<1>12. CASE s = "invalid_output" /\ InvalidAnswers(k) # 0
  <2> DEFINE before == {m \in DOMAIN attempts[k] : attempts[k][m] = "invalid_output"}
             after == {m \in DOMAIN attempts'[k] : attempts'[k][m] = "invalid_output"}
  <2>1. after = before \cup {n} /\ n \notin before
    BY <1>6, <1>7, <1>12
  <2>2. /\ IsFiniteSet(before) /\ Cardinality(before) = InvalidAnswers(k)
        /\ InvalidAnswers(k) \in Nat
    BY <1>3, InvalidCount DEF InvalidAnswers
  <2>3. InvalidAnswers(k)' = Cardinality(after)
    BY DEF InvalidAnswers
  <2> HIDE DEF before, after
  <2>4. Cardinality(after) = Cardinality(before) + 1
    BY <2>1, <2>2, FS_AddElement
  <2>5. InvalidAnswers(k)' >= 2
    BY <1>12, <2>2, <2>3, <2>4
  <2> QED BY <1>4, <2>5 DEF Spent, Exhausted
<1> QED BY <1>10, <1>11, <1>12

(* So does a refusal, unless time is up or a speech is one too many.        *)
LEMMA RefusedIsSpent ==
    ASSUME LedgerOK, NEW k \in Work, Verdict(k) = "failed", ~expired, ~Speech(k)
    PROVE  k \in Spent
<1>1. panel.status \notin Terminal /\ ~HasAttempt(k, "succeeded")
  BY DEF Verdict
<1>2. CASE HasAttempt(k, "unknown")
  <2>1. k \notin Running
    BY <1>2 DEF LedgerOK
  <2> QED BY <1>1, <1>2, <2>1 DEF Spent, Exhausted, Done
<1>3. CASE ~HasAttempt(k, "unknown")
  BY <1>1, <1>3 DEF Verdict, Spent, Exhausted, Done, Running
<1> QED BY <1>2, <1>3

-----------------------------------------------------------------------------
(* A step of the panel.                                                     *)

(* What no step takes back.                                                 *)
Onward ==
    /\ LedgerGrows
    /\ expired => expired'
    /\ Over => Over'
    /\ panel.initial => panel'.initial
    /\ panel.reported \subseteq panel'.reported
    /\ DOMAIN panel.issues \subseteq DOMAIN panel'.issues

LEMMA LossStays ==
    ASSUME LedgerGrows, expired => expired'
    PROVE  \A r : Lost(r) => Lost(r)'
BY DEF LedgerGrows, Lost

LEMMA BlockedStays == LedgerGrows => Blocked \subseteq Blocked'
<1> SUFFICES ASSUME LedgerGrows, NEW r \in Blocked PROVE r \in Blocked'
  OBVIOUS
<1>1. PICK i \in Issue : Ballot(<<r, i>>) \in Spent /\ \A j \in 1 .. i - 1 : Ballot(<<r, j>>) \in Done
  BY DEF Blocked
<1>2. Ballot(<<r, i>>) \in Spent' /\ \A j \in 1 .. i - 1 : Ballot(<<r, j>>) \in Done'
  BY <1>1 DEF LedgerGrows
<1> QED BY <1>2 DEF Blocked

(* What one request knows stays true whatever another one does.             *)
LEMMA RequestsStay ==
    ASSUME Onward, NEW x \in Requests
    PROVE  x \in Requests'
<1>1. x \in Request /\ Fits(x) /\ GivesUp(x) /\ Reads(x) /\ Votes(x)
  BY DEF Requests
<1>2. /\ Done \subseteq Done' /\ Spent \subseteq Spent'
      /\ \A k \in Work : DOMAIN attempts[k] \subseteq DOMAIN attempts'[k]
      /\ \A r : Lost(r) => Lost(r)'
      /\ Over => Over'
      /\ panel.initial => panel'.initial
      /\ panel.reported \subseteq panel'.reported
      /\ DOMAIN panel.issues \subseteq DOMAIN panel'.issues
  BY LossStays DEF Onward, LedgerGrows
<1>3. Fits(x)'
  <2>1. x.at = "calling" => x.n \in DOMAIN attempts'[x.work]
    BY <1>1, <1>2 DEF Fits, Calling
  <2>2. x.job = "discuss" /\ x.at # "enter" => panel'.initial
    BY <1>1, <1>2 DEF Fits
  <2> QED BY <1>1, <2>1, <2>2 DEF Fits
<1>4. GivesUp(x)'
  BY <1>1, <1>2 DEF GivesUp
<1>5. Reads(x)'
  BY <1>1, <1>2 DEF Reads
<1>6. Votes(x)'
  <2>1. Ordered(x.votes) => Ordered(x.votes)'
    BY <1>2 DEF Ordered
  <2>2. x.votes # {} /\ x.job = "ballot" =>
           x.votes \subseteq panel'.reported \X DOMAIN panel'.issues /\ Ordered(x.votes)'
    BY <1>1, <1>2, <2>1 DEF Votes, IssuesOf
  <2> QED BY <1>1, <2>2 DEF Votes, IssuesOf
<1> QED BY <1>1, <1>3, <1>4, <1>5, <1>6 DEF Requests

LEMMA RequestsKept ==
    ASSUME RequestsOK, Onward, NEW w \in Workers, NEW y \in Requests',
           worker' = [worker EXCEPT ![w] = y]
    PROVE  RequestsOK'
<1>1. \A x \in Requests : x \in Requests'
  BY RequestsStay
<1> QED BY <1>1 DEF RequestsOK

(* A request that has nothing at hand.                                      *)
LEMMA RestingRequest ==
    ASSUME NEW x \in Request, x.at = "enter" \/ (x.at \in {"idle", "dead"} /\ x.job = "none"),
           x.votes = {}
    PROVE  x \in Requests
<1>1. x.at \in {"idle", "dead", "enter"}
  OBVIOUS
<1>2. ~Calling(x) /\ x.at # "calling" /\ x.at # "quorum" /\ x.at \notin {"cast", "seal"}
      /\ x.at # "failed" /\ x.at \notin {"turns", "close", "finals", "tally"} /\ x.at # "turns"
  BY <1>1 DEF Calling
<1>3. Fits(x)
  BY <1>2 DEF Fits, Calling
<1>4. GivesUp(x) /\ Reads(x) /\ Votes(x)
  BY <1>2 DEF GivesUp, Reads, Votes, Calling
<1> QED BY <1>3, <1>4 DEF Requests

LEMMA FreshRequest ==
    /\ Idle \in Request /\ Idle.at = "idle" /\ Idle.votes = {}
    /\ [Idle EXCEPT !.at = "dead"] \in Request
    /\ \A job \in Jobs : /\ Begin(job) \in Request
                         /\ Begin(job) = [Idle EXCEPT !.at = "enter", !.job = job]
<1>1. Idle \in Request
  BY PanelConfig DEF Idle, NoView, Views, Request, Steps, Jobs, Snaps
<1>2. "dead" \in Steps /\ "enter" \in Steps
  BY DEF Steps
<1>3. [Idle EXCEPT !.at = "dead"] \in Request
  BY <1>1, <1>2 DEF Request
<1>4. \A job \in Jobs : Begin(job) = [Idle EXCEPT !.at = "enter", !.job = job]
  BY DEF Begin
<1>5. ASSUME NEW job \in Jobs
      PROVE  Begin(job) \in Request
  <2>1. [Idle EXCEPT !.at = "enter", !.job = job] \in Request
    BY <1>1, <1>2 DEF Request
  <2> QED BY <1>4, <2>1
<1>6. Idle.at = "idle" /\ Idle.votes = {}
  BY DEF Idle
<1> QED BY <1>1, <1>3, <1>4, <1>5, <1>6

LEMMA FreshIsRequest ==
    /\ Idle \in Requests /\ [Idle EXCEPT !.at = "dead"] \in Requests
    /\ \A job \in Jobs : Begin(job) \in Requests
<1>1. /\ [Idle EXCEPT !.at = "dead"].at = "dead" /\ [Idle EXCEPT !.at = "dead"].votes = {}
      /\ [Idle EXCEPT !.at = "dead"].job = "none" /\ Idle.job = "none"
      /\ \A job \in Jobs : [Idle EXCEPT !.at = "enter", !.job = job].at = "enter"
                           /\ [Idle EXCEPT !.at = "enter", !.job = job].votes = {}
  BY DEF Idle
<1> QED BY <1>1, FreshRequest, RestingRequest

(* A call stays the request's own unless somebody touches its attempt.      *)
Undisturbed ==
    /\ \A v \in Workers : worker'[v] = worker[v] \/ worker'[v].at # "calling"
    /\ \A v \in Workers :
         worker'[v].at = "calling" /\ worker'[v].work[1] = "initial_ballot" =>
             \/ attempts'[worker[v].work][worker[v].n] = attempts[worker[v].work][worker[v].n]
             \/ Over'

LEMMA CallsKept ==
    ASSUME CallsOK, Over => Over', Undisturbed
    PROVE  CallsOK'
<1>1. ASSUME NEW v \in Workers, NEW w \in Workers, v # w, worker'[v].at = "calling",
             worker'[w].at = "calling", worker'[v].work = worker'[w].work
      PROVE  worker'[v].n # worker'[w].n
  <2>1. worker'[v] = worker[v] /\ worker'[w] = worker[w]
    BY <1>1 DEF Undisturbed
  <2> QED BY <1>1, <2>1 DEF CallsOK, At
<1>2. ASSUME NEW w \in Workers, worker'[w].at = "calling", worker'[w].work[1] = "initial_ballot"
      PROVE  attempts'[worker'[w].work][worker'[w].n] = "started" \/ Over'
  <2>1. worker'[w] = worker[w]
    BY <1>2 DEF Undisturbed
  <2>2. Pending(w) \/ Over
    BY <1>2, <2>1 DEF CallsOK, At
  <2> QED BY <1>2, <2>1, <2>2 DEF Undisturbed, Pending
<1> QED BY <1>1, <1>2 DEF CallsOK, At, Pending

LEMMA JobOfCall ==
    ASSUME NEW x \in Requests, Calling(x)
    PROVE  /\ x.work \in Work /\ x.work[1] \in Phases(x.job)
           /\ x.work[1] = "initial_reading" <=> x.job = "read"
           /\ x.work[1] \in {"issue_extraction", "initial_ballot"} <=> x.job = "ballot"
           /\ x.work[1] \in {"discussion_turn", "discussion_summary", "final_ballot"}
                <=> x.job = "discuss"
           /\ x.work[1] = "report_synthesis" <=> x.job = "handoff"
<1>1. x.work \in Work /\ x.work[1] \in Phases(x.job)
  BY DEF Requests, Fits
<1> QED BY <1>1 DEF Phases

(* The ballot a request asks for is the first one it still wants of that    *)
(* reader, and it is on an issue.                                           *)
LEMMA BallotAtHand ==
    ASSUME NEW x \in Requests, Calling(x), x.work[1] = "initial_ballot"
    PROVE  /\ x.votes \subseteq panel.reported \X DOMAIN panel.issues /\ Ordered(x.votes)
           /\ <<x.work[4], x.work[2]>> \in x.votes /\ <<x.work[4], x.work[2]>> \in Pairs
           /\ x.work = Ballot(<<x.work[4], x.work[2]>>)
           /\ \A q \in x.votes : q[1] = x.work[4] => x.work[2] <= q[2]
           /\ panel.issues # <<>>
<1>1. x.job = "ballot" /\ x.work \in Work
  BY JobOfCall
<1>2. x.votes \in SUBSET Pairs /\ Votes(x)
  BY DEF Requests, Request
<1>3. PICK p \in x.votes : x.work = Ballot(p) /\ \A q \in x.votes : q[1] = p[1] => p[2] <= q[2]
  BY <1>2 DEF Votes
<1>4. p \in Pairs /\ p = <<p[1], p[2]>> /\ x.work[4] = p[1] /\ x.work[2] = p[2]
  BY <1>2, <1>3, WorkShape
<1>5. x.votes \subseteq panel.reported \X DOMAIN panel.issues /\ Ordered(x.votes)
  BY <1>1, <1>2, <1>3 DEF Votes, IssuesOf
<1>6. p[2] \in DOMAIN panel.issues
  BY <1>3, <1>5
<1>7. panel.issues # <<>>
  BY <1>6
<1> QED BY <1>3, <1>4, <1>5, <1>7

LEMMA WaitingUndisturbed ==
    ASSUME LedgerOK, RequestsOK, CallsOK,
           \A v \in Workers : worker'[v] = worker[v] \/ worker'[v].at # "calling",
           \/ attempts' = attempts
           \/ /\ attempts' = CancelStarted(attempts) /\ panel'.status \in Terminal
              /\ DOMAIN panel.issues \subseteq DOMAIN panel'.issues
           \/ \E w \in Workers : /\ At(w, "calling") /\ worker'[w].at # "calling"
                                 /\ \E s \in CallStatus : attempts' = Settled(w, s)
    PROVE  Undisturbed
<1> SUFFICES ASSUME NEW v \in Workers, worker'[v].at = "calling",
                    worker'[v].work[1] = "initial_ballot"
             PROVE  \/ attempts'[worker[v].work][worker[v].n] = attempts[worker[v].work][worker[v].n]
                    \/ Over'
  BY DEF Undisturbed
<1>1. worker'[v] = worker[v]
  OBVIOUS
<1>2. PICK x \in Requests : x = worker[v]
  BY DEF RequestsOK
<1>3. x.at = "calling" /\ x.work[1] = "initial_ballot" /\ Calling(x)
  BY <1>1, <1>2 DEF Calling
<1>4. CASE attempts' = attempts
  BY <1>4
<1>5. CASE /\ attempts' = CancelStarted(attempts) /\ panel'.status \in Terminal
           /\ DOMAIN panel.issues \subseteq DOMAIN panel'.issues
  <2>1. /\ x.votes \subseteq panel.reported \X DOMAIN panel.issues
        /\ <<x.work[4], x.work[2]>> \in x.votes
    BY <1>3, BallotAtHand
  <2>2. x.work[2] \in DOMAIN panel'.issues
    BY <1>5, <2>1
  <2>3. panel'.issues # <<>>
    BY <2>2
  <2> QED BY <1>5, <2>3 DEF Over, Ended
<1>6. ASSUME NEW w \in Workers, At(w, "calling"), worker'[w].at # "calling",
             NEW s \in CallStatus, attempts' = Settled(w, s)
      PROVE  attempts'[worker[v].work][worker[v].n] = attempts[worker[v].work][worker[v].n]
  <2>1. PICK y \in Requests : y = worker[w]
    BY DEF RequestsOK
  <2>2. y.at = "calling" /\ Calling(y)
    BY <1>6, <2>1 DEF At, Calling
  <2>3. x.work = y.work => x.n # y.n
    BY <1>2, <1>3, <1>6, <2>1, <2>2 DEF CallsOK, At
  <2>4. x.work \in Work /\ y.work \in Work /\ x.n \in DOMAIN attempts[x.work]
    BY <1>3, <2>2 DEF Requests, Fits
  <2>5. attempts' = [attempts EXCEPT ![y.work][y.n] = s]
    BY <1>6, <2>1 DEF Settled
  <2>6. attempts'[x.work] = IF x.work = y.work THEN [attempts[x.work] EXCEPT ![y.n] = s]
                            ELSE attempts[x.work]
    BY <2>4, <2>5 DEF LedgerOK
  <2>7. attempts'[x.work][x.n] = attempts[x.work][x.n]
    BY <2>3, <2>4, <2>6
  <2> QED BY <1>2, <2>7
<1> QED BY <1>4, <1>5, <1>6

-----------------------------------------------------------------------------
(* What keeps the rows consistent.                                          *)
ReadingsKept == \A r \in Reader : Reading(r) \in Done' => Reading(r) \in Done

LEMMA ChainKept ==
    ASSUME Chain, LedgerGrows, Begun' = Begun
    PROVE  Chain'
BY DEF Chain, LedgerGrows

LEMMA ReadersKept ==
    ASSUME ReadersOK, LedgerGrows, ReadingsKept, expired => expired',
           panel'.reported = panel.reported, panel'.readers = panel.readers,
           panel'.issues = <<>> /\ ~panel'.initial => panel.issues = <<>> /\ ~panel.initial,
           panel'.reports # 0 => panel.reports # 0
    PROVE  ReadersOK'
<1>1. Completed(panel') = Completed(panel)
  BY DEF Completed
<1>2. \A r \in Reader : Reading(r) \in Done' <=> Reading(r) \in Done
  BY DEF ReadingsKept, LedgerGrows
<1>3. \A r : Lost(r) => Lost(r)'
  BY LossStays
<1> QED BY <1>1, <1>2, <1>3 DEF ReadersOK, LedgerGrows

LEMMA LossesKept ==
    ASSUME LossesFinal, LedgerGrows, expired => expired', Over => Over',
           panel.initial => panel'.initial,
           panel'.reported = panel.reported, panel'.readers = panel.readers
    PROVE  LossesFinal'
<1>1. Completed(panel') = Completed(panel)
  BY DEF Completed
<1> QED BY <1>1, BlockedStays, LossStays DEF LossesFinal

LEMMA VotesKept ==
    ASSUME VotesIn, LedgerGrows, expired => expired', panel'.initial => panel.initial,
           panel'.reported = panel.reported, DOMAIN panel'.issues = DOMAIN panel.issues
    PROVE  VotesIn'
BY BlockedStays, LossStays DEF VotesIn, LedgerGrows, IssuesOf

LEMMA CompletedFinite ==
    ASSUME NEW S \in SUBSET Reader
    PROVE  IsFiniteSet(S) /\ Cardinality(S) \in Nat
<1>1. IsFiniteSet(Reader)
  BY PanelConfig, FS_Interval DEF Reader
<1> QED BY <1>1, FS_Subset, FS_CardinalityType

(* More readers are at least as many.                                       *)
LEMMA MoreReaders ==
    ASSUME NEW S \in SUBSET Reader, NEW T \in SUBSET Reader, S \subseteq T, Cardinality(S) >= MinValid
    PROVE  Cardinality(T) >= MinValid
<1>1. IsFiniteSet(T) /\ Cardinality(S) \in Nat /\ Cardinality(T) \in Nat
  BY CompletedFinite
<1>2. Cardinality(S) <= Cardinality(T)
  BY <1>1, FS_Subset
<1> QED BY <1>1, <1>2, PanelConfig

LEMMA QuorateKept ==
    ASSUME Quorate, LedgerGrows, expired => expired', Over => Over',
           panel'.reports # 0 => panel.reports # 0, panel'.readers = panel.readers
    PROVE  Quorate'
<1>1. Completed(panel') = Completed(panel) /\ Completed(panel) \subseteq Reader
  BY DEF Completed
<1>2. Oversized \subseteq Oversized' /\ Oversized' \subseteq Reader
  BY DEF LedgerGrows, Oversized
<1>3. Cardinality(Completed(panel) \cup Oversized) >= MinValid =>
          Cardinality(Completed(panel') \cup Oversized') >= MinValid
  BY <1>1, <1>2, MoreReaders
<1> QED BY <1>3 DEF Quorate

LEMMA ReportKept ==
    ASSUME ReportCountsReaders, LedgerGrows, panel'.handoffs = panel.handoffs,
           panel'.handoffs # <<>> => panel'.finals = panel.finals,
           DOMAIN panel'.issues = DOMAIN panel.issues,
           panel.degraded => panel'.degraded,
           panel'.status = "completed" => panel.status = "completed"
    PROVE  ReportCountsReaders'
<1>1. Oversized \subseteq Oversized' /\ Oversized' \subseteq Reader
  BY DEF LedgerGrows, Oversized
<1>2. PICK hs : hs = panel.handoffs /\ hs = panel'.handoffs
  OBVIOUS
<1>3. ASSUME NEW i \in DOMAIN hs
      PROVE  /\ Cardinality(hs[i].valid \cup Oversized') >= MinValid
             /\ hs[i].valid \cap hs[i].failed = {} /\ hs[i].valid \cup hs[i].failed = Reader
             /\ panel'.finals = hs[i].valid \X IssuesOf(panel)'
             /\ hs[i].failed # {} => panel'.degraded
  <2>1. PICK h : h = hs[i]
    OBVIOUS
  <2>2. /\ Cardinality(h.valid \cup Oversized) >= MinValid
        /\ h.valid \cap h.failed = {} /\ h.valid \cup h.failed = Reader
        /\ panel.finals = h.valid \X IssuesOf(panel)
        /\ h.failed # {} => panel.degraded
    BY <1>2, <2>1 DEF ReportCountsReaders
  <2>3. h.valid \subseteq Reader
    BY <2>2
  <2>4. Cardinality(h.valid \cup Oversized') >= MinValid
    BY <1>1, <2>2, <2>3, MoreReaders
  <2>5. panel'.finals = panel.finals /\ IssuesOf(panel)' = IssuesOf(panel)
    <3>1. hs # <<>>
      OBVIOUS
    <3> QED BY <1>2, <3>1 DEF IssuesOf
  <2> QED BY <2>1, <2>2, <2>4, <2>5
<1>4. Len(hs) <= 1 /\ (panel'.status = "completed" => \E i \in DOMAIN hs : hs[i].failed = {})
  BY <1>2 DEF ReportCountsReaders
<1> QED BY <1>2, <1>3, <1>4 DEF ReportCountsReaders

(* The rows the later phases leave alone.                                   *)
LEMMA RowsKept ==
    ASSUME PanelOK, LedgerGrows, Begun' = Begun, ReadingsKept,
           expired => expired', Over => Over',
           panel'.reported = panel.reported, panel'.readers = panel.readers,
           panel'.ballots = panel.ballots, panel'.reports = panel.reports,
           panel'.initial = panel.initial, DOMAIN panel'.issues = DOMAIN panel.issues,
           PanelType', PhaseOK', ReportCountsReaders'
    PROVE  PanelOK' /\ Onward
<1>1. panel'.issues = <<>> <=> panel.issues = <<>>
  <2>1. panel.issues \in Seq(IssueStatus) /\ panel'.issues \in Seq(IssueStatus)
    BY DEF PanelOK, PanelType, PanelRow
  <2> QED BY <2>1
<1>2. BallotsPaid'
  BY DEF PanelOK, BallotsPaid, LedgerGrows
<1>3. Chain'
  BY ChainKept DEF PanelOK
<1>4. ReadersOK'
  BY <1>1, ReadersKept DEF PanelOK
<1>5. LossesFinal'
  BY LossesKept DEF PanelOK
<1>6. VotesIn'
  BY VotesKept DEF PanelOK
<1>7. Quorate'
  BY QuorateKept DEF PanelOK
<1>8. PanelOK'
  BY <1>2, <1>3, <1>4, <1>5, <1>6, <1>7 DEF PanelOK
<1>9. Onward
  BY DEF Onward
<1> QED BY <1>8, <1>9

LEMMA PanelRests ==
    ASSUME PanelOK, LedgerGrows, Begun' = Begun, ReadingsKept,
           expired => expired', panel' = panel
    PROVE  PanelOK' /\ Onward
<1>1. Over' <=> Over
  BY DEF Over
<1>2. PanelType' /\ PhaseOK'
  BY DEF PanelOK, PanelType, PhaseOK, LedgerGrows, IssuesOf, OpenIssues
<1>3. ReportCountsReaders'
  BY ReportKept DEF PanelOK
<1> QED BY <1>1, <1>2, <1>3, RowsKept

(* The promises of ResultsStay, of one step.                                *)
Stays ==
    /\ panel.initial => panel.ballots \subseteq panel'.ballots
    /\ Frozen(panel.initial, ByOthers(panel.ballots), panel'.initial, ByOthers(panel'.ballots))
    /\ Frozen(panel.final, panel.finals, panel'.final, panel'.finals)
    /\ panel.status \in Terminal => Results(panel') = Results(panel)

LEMMA StatusIsStatus ==
    Terminal \subseteq Reached /\ Ended \subseteq Reached /\ Reached \subseteq Status
BY DEF Terminal, Ended, Status, Reached

LEMMA ResultsRest ==
    ASSUME panel'.initial = panel.initial, panel'.final = panel.final,
           panel'.reported = panel.reported, panel'.issues = panel.issues,
           panel'.ballots = panel.ballots, panel'.finals = panel.finals,
           panel'.messages = panel.messages, panel'.handoffs = panel.handoffs
    PROVE  Stays
BY DEF Stays, Frozen, Results

(* Nothing but the status, the end and the marks of a loss is written.      *)
LEMMA StatusOnly ==
    ASSUME PanelOK, NEW s \in Reached, NEW e \in BOOLEAN, NEW d \in BOOLEAN, panel.degraded => d,
           panel' = [panel EXCEPT !.status = s, !.ended = e, !.degraded = d],
           LedgerGrows, Begun' = Begun, ReadingsKept,
           expired => expired', Over => Over', PhaseOK',
           s = "completed" => panel.status = "completed"
    PROVE  PanelOK' /\ Onward /\ Stays
<1>1. panel \in PanelRow
  BY DEF PanelOK, PanelType
<1>2. panel' \in PanelRow
  BY <1>1 DEF PanelRow
<1>3. /\ panel'.initial = panel.initial /\ panel'.final = panel.final
      /\ panel'.reported = panel.reported /\ panel'.issues = panel.issues
      /\ panel'.ballots = panel.ballots /\ panel'.finals = panel.finals
      /\ panel'.messages = panel.messages /\ panel'.handoffs = panel.handoffs
      /\ panel'.readers = panel.readers /\ panel'.reports = panel.reports
      /\ panel'.status = s /\ panel'.degraded = d
  BY <1>1 DEF PanelRow
<1>4. PanelType'
  BY <1>2, <1>3 DEF PanelOK, PanelType, IssuesOf, OpenIssues
<1>5. ReportCountsReaders'
  BY <1>3, ReportKept DEF PanelOK
<1>6. PanelOK' /\ Onward
  BY <1>3, <1>4, <1>5, RowsKept
<1>7. Stays
  BY <1>3, ResultsRest
<1> QED BY <1>6, <1>7

(* The panel fails or is cancelled.                                         *)
LEMMA SettleKeeps ==
    ASSUME LedgerOK, PanelOK, NEW s \in {"failed", "cancelled"}, SettleNow(s),
           expired' = expired
    PROVE  PanelOK' /\ Onward /\ Stays /\ panel'.status \in Terminal
           /\ attempts' = CancelStarted(attempts) /\ panel'.issues = panel.issues
<1>1. attempts' = CancelStarted(attempts)
      /\ panel' = [panel EXCEPT !.status = s, !.ended = TRUE]
  BY DEF SettleNow, Settle
<1>2. LedgerGrows /\ Done' = Done /\ Begun' = Begun
  BY <1>1, LedgerCancels
<1>3. ReadingsKept
  BY <1>2 DEF ReadingsKept
<1>4. panel \in PanelRow /\ panel.degraded \in BOOLEAN
  BY DEF PanelOK, PanelType, PanelRow
<1>5. panel' = [panel EXCEPT !.status = s, !.ended = TRUE, !.degraded = panel.degraded]
  BY <1>1, <1>4 DEF PanelRow
<1>6. /\ panel'.status = s /\ panel'.issues = panel.issues /\ panel'.initial = panel.initial
      /\ panel'.final = panel.final /\ panel'.handoffs = panel.handoffs
      /\ panel'.reports = panel.reports
  BY <1>1, <1>4 DEF PanelRow
<1>7. s \in Reached /\ s \in Terminal /\ s \in Ended /\ s # "completed" /\ s # "degraded_completed"
  BY StatusIsStatus DEF Terminal, Ended
<1>8. Over => Over'
  BY <1>6, <1>7 DEF Over
<1>9. PhaseOK'
  <2>1. s \notin {"initial_balloting", "initial_ballots_locked", "discussing", "final_balloting",
                  "final_ballots_locked", "report_generating"}
    OBVIOUS
  <2> QED BY <1>2, <1>6, <1>7, <2>1 DEF PanelOK, PhaseOK
<1>11. PanelOK' /\ Onward /\ Stays
  BY <1>2, <1>3, <1>4, <1>5, <1>7, <1>8, <1>9, StatusOnly
<1> QED BY <1>1, <1>6, <1>7, <1>11

(* A reader is lost after the issues are known, before the ballots are      *)
(* sealed only for good.                                                    *)
LEMMA EliminateKeeps ==
    ASSUME LedgerOK, PanelOK, NEW r \in Reader, EliminateNow(r), expired' = expired,
           panel.issues # <<>> \/ panel.initial,
           panel.initial \/ Over \/ Lost(r) \/ r \in Blocked
    PROVE  /\ PanelOK' /\ Onward /\ Stays /\ panel'.issues = panel.issues
           /\ panel'.reported = panel.reported
           /\ \/ attempts' = attempts
              \/ /\ attempts' = CancelStarted(attempts) /\ panel'.status \in Terminal
                 /\ TooFewWithout(panel, r)
<1> DEFINE few == TooFewWithout(panel, r)
           left == Completed(panel) \ {r}
<1>1. panel \in PanelRow
  BY DEF PanelOK, PanelType
<1>2. /\ few => panel' = [panel EXCEPT !.readers[r] = "failed", !.status = "failed", !.ended = TRUE]
                /\ attempts' = CancelStarted(attempts)
      /\ ~few => panel' = [panel EXCEPT !.readers[r] = "failed", !.degraded = TRUE]
                 /\ attempts' = attempts
  <2>1. WithoutReader(panel, r) = [panel EXCEPT !.readers[r] = "failed"]
    BY DEF WithoutReader
  <2> QED BY <1>1, <2>1 DEF EliminateNow, Settle, PanelRow
<1>3. panel.readers \in [Reader -> ReaderStatus] /\ panel.degraded \in BOOLEAN
      /\ panel.issues \in Seq(IssueStatus)
  BY <1>1 DEF PanelRow
<1>4. /\ panel'.initial = panel.initial /\ panel'.final = panel.final
      /\ panel'.reported = panel.reported /\ panel'.issues = panel.issues
      /\ panel'.ballots = panel.ballots /\ panel'.finals = panel.finals
      /\ panel'.messages = panel.messages /\ panel'.handoffs = panel.handoffs
      /\ panel'.readers = [panel.readers EXCEPT ![r] = "failed"] /\ panel'.reports = panel.reports
      /\ panel'.status = IF few THEN "failed" ELSE panel.status
      /\ panel'.degraded = IF few THEN panel.degraded ELSE TRUE
  BY <1>1, <1>2 DEF PanelRow
<1>5. panel' \in PanelRow
  <2>1. [panel.readers EXCEPT ![r] = "failed"] \in [Reader -> ReaderStatus]
    BY <1>3 DEF ReaderStatus
  <2>2. "failed" \in Reached
    BY DEF Status, Reached
  <2>3. panel' = [panel EXCEPT !.readers = [panel.readers EXCEPT ![r] = "failed"],
                     !.status = panel'.status, !.ended = panel'.ended, !.degraded = panel'.degraded]
    BY <1>1, <1>2 DEF PanelRow
  <2>4. panel'.status \in Reached /\ panel'.degraded \in BOOLEAN
    BY <1>1, <1>3, <1>4, <2>2 DEF PanelRow
  <2>5. panel'.ended \in BOOLEAN
    BY <1>1, <1>2 DEF PanelRow
  <2> HIDE DEF few
  <2> QED BY <1>1, <2>1, <2>3, <2>4, <2>5 DEF PanelRow
<1>6. LedgerGrows /\ Done' = Done /\ Begun' = Begun
  BY <1>2, LedgerCancels, LedgerRests
<1>7. ReadingsKept
  BY <1>6 DEF ReadingsKept
<1>8. Completed(panel') = left
  BY <1>3, <1>4 DEF Completed
<1>9. few => Over'
  <2> HIDE DEF few
  <2> QED BY <1>4 DEF Over, Ended, Terminal
<1>10. Over => Over'
  <2> HIDE DEF few
  <2> QED BY <1>4, <1>9 DEF Over
<1>11. PanelType'
  BY <1>4, <1>5 DEF PanelOK, PanelType, IssuesOf, OpenIssues
<1>12. Chain' /\ BallotsPaid'
  BY <1>4, <1>6, ChainKept DEF PanelOK, BallotsPaid
<1>13. PhaseOK'
  <2>1. PhaseOK
    BY DEF PanelOK
  <2>2. CASE few
    <3>1. panel'.status = "failed" /\ "failed" \in Ended
      BY <1>4, <2>2 DEF Ended, Terminal
    <3> QED BY <1>4, <1>6, <2>1, <3>1 DEF PhaseOK
  <2>3. CASE ~few
    <3>1. panel'.status = panel.status
      BY <1>4, <2>3
    <3> QED BY <1>4, <1>6, <2>1, <3>1 DEF PhaseOK
  <2> QED BY <2>2, <2>3
<1>14. ReadersOK'
  <2>1. \A q : Lost(q) => Lost(q)'
    BY <1>6, LossStays
  <2> HIDE DEF few
  <2> QED BY <1>4, <1>6, <1>8, <2>1 DEF PanelOK, ReadersOK, LedgerGrows
<1>15. LossesFinal'
  <2>1. panel'.initial \/ Over' \/ \A q \in panel'.reported \ Completed(panel') :
                                        Lost(q) \/ q \in Blocked
    BY <1>4, <1>8, <1>10 DEF PanelOK, LossesFinal
  <2> QED BY <1>6, <2>1, BlockedStays, LossStays DEF LossesFinal
<1>16. VotesIn'
  BY <1>4, <1>6, VotesKept DEF PanelOK
<1>17. Quorate'
  <2>1. ~few => Cardinality(left) >= MinValid
    <3>1. Cardinality(left) \in Nat
      BY CompletedFinite DEF Completed
    <3> QED BY <3>1, PanelConfig DEF TooFewWithout
  <2>2. left \subseteq Reader /\ Oversized' \subseteq Reader
    BY DEF Completed, Oversized
  <2>3. ~few => Cardinality(left \cup Oversized') >= MinValid
    <3> HIDE DEF few, left
    <3> QED BY <2>1, <2>2, MoreReaders
  <2> HIDE DEF few, left
  <2> QED BY <1>8, <1>9, <2>3 DEF Quorate
<1>18. ReportCountsReaders'
  <2> HIDE DEF few
  <2> QED BY <1>4, <1>6, ReportKept DEF PanelOK
<1>19. PanelOK'
  BY <1>1, <1>11, <1>12, <1>13, <1>14, <1>15, <1>16, <1>17, <1>18 DEF PanelOK
<1>20. Onward
  BY <1>4, <1>6, <1>10 DEF Onward
<1>21. Stays
  BY <1>4, ResultsRest
<1>22. few => panel'.status \in Terminal
  <2> HIDE DEF few
  <2> QED BY <1>4 DEF Terminal
<1> QED BY <1>2, <1>4, <1>19, <1>20, <1>21, <1>22

-----------------------------------------------------------------------------
(* What is left to show of a step of request w that does not call.          *)
LEMMA StepKeeps ==
    ASSUME PanelInv, NEW w \in Workers, NEW y \in Requests \cup Requests',
           worker' = [worker EXCEPT ![w] = y], y.at # "calling",
           LedgerGrows, Onward, PanelOK',
           \/ attempts' = attempts
           \/ attempts' = CancelStarted(attempts) /\ panel'.status \in Terminal
           \/ At(w, "calling") /\ \E s \in CallStatus : attempts' = Settled(w, s)
    PROVE  PanelInv'
<1>1. y \in Requests'
  BY RequestsStay
<1>2. RequestsOK'
  BY <1>1, RequestsKept DEF PanelInv
<1>3. /\ worker'[w] = y
      /\ \A v \in Workers : worker'[v] = worker[v] \/ worker'[v].at # "calling"
  BY DEF PanelInv, RequestsOK
<1>4. Undisturbed
  BY <1>3, WaitingUndisturbed DEF PanelInv, Onward
<1>5. CallsOK'
  BY <1>4, CallsKept DEF PanelInv, Onward
<1> QED BY <1>2, <1>5 DEF PanelInv, LedgerGrows

LEMMA QuietPanel ==
    ASSUME PanelInv, UNCHANGED <<panel, attempts, expired>>
    PROVE  LedgerGrows /\ Onward /\ PanelOK' /\ Stays
<1>1. LedgerGrows /\ Done' = Done /\ Begun' = Begun
  BY LedgerRests DEF PanelInv
<1>2. ReadingsKept
  BY <1>1 DEF ReadingsKept
<1>3. PanelOK' /\ Onward
  BY <1>1, <1>2, PanelRests DEF PanelInv, PanelOK
<1>4. Stays
  BY ResultsRest
<1> QED BY <1>1, <1>3, <1>4

LEMMA QuietStep ==
    ASSUME PanelInv, NEW w \in Workers, NEW y \in Requests \cup Requests',
           worker' = [worker EXCEPT ![w] = y], y.at # "calling",
           UNCHANGED <<panel, attempts, expired>>
    PROVE  PanelInv' /\ Stays
BY QuietPanel, StepKeeps

LEMMA ViewIsView ==
    ASSUME NEW p \in PanelRow, OpenIssues(p) \subseteq OnAgenda, NEW job
    PROVE  View(job, p) \in Views
<1>1. p.status \in Status
  BY StatusIsStatus DEF PanelRow
<1>2. Completed(p) \subseteq Reader
  BY DEF Completed
<1> QED BY <1>1, <1>2 DEF View, Views

LEMMA ViewOfPanel ==
    ASSUME PanelOK, NEW job
    PROVE  View(job, panel) \in Views
BY ViewIsView DEF PanelOK, PanelType

(* A call that failed or is to be tried again.                              *)
LEMMA CallMoves ==
    ASSUME NEW x \in Requests', Calling(x), NEW y \in Request,
           y.at \in {"failed", "reserve", "enter"},
           y.job = x.job, y.work = x.work, y.who = x.who, y.todo = x.todo, y.votes = x.votes,
           y.issue = x.issue, y.round = x.round, y.at = "failed" => GivesUp(y)'
    PROVE  y \in Requests'
<1>1. Fits(x)' /\ Reads(x)' /\ Votes(x)'
  BY DEF Requests
<1>2. /\ x.at # "enter"
      /\ y.at \notin {"calling", "quorum", "cast", "seal", "turns", "close", "finals", "tally"}
  BY DEF Calling
<1>3. Fits(y)'
  BY <1>1, <1>2 DEF Fits
<1>4. Reads(y)'
  BY <1>1, <1>2 DEF Reads
<1>5. Votes(y)'
  BY <1>1 DEF Votes
<1>6. GivesUp(y)'
  BY DEF GivesUp
<1> QED BY <1>3, <1>4, <1>5, <1>6 DEF Requests

LEMMA RequestMoves ==
    ASSUME NEW x \in Request, NEW at \in Steps, NEW n \in Nat, NEW seen \in Views
    PROVE  /\ [x EXCEPT !.at = at, !.n = n] \in Request
           /\ [x EXCEPT !.at = at, !.n = n, !.seen = seen] \in Request
           /\ [x EXCEPT !.seen = seen] \in Request
BY DEF Request

LEMMA AtSteps ==
    ASSUME RequestsOK, NEW w \in Workers
    PROVE  worker[w] \in Requests /\ worker[w] \in Request
BY DEF RequestsOK, Requests

-----------------------------------------------------------------------------
(* The actions, one by one.                                                 *)
LEMMA ResumeKeeps ==
    ASSUME PanelInv, NEW w \in Workers, Resume(w)
    PROVE  PanelInv' /\ Stays
<1>1. panel.status \in Reached
  BY DEF PanelInv, PanelOK, PanelType, PanelRow
<1>2. JobOf \in Jobs
  BY <1>1 DEF Resume, JobOf, Jobs, Reached, Status, Terminal
<1>3. PICK y \in Requests : y = Begin(JobOf) /\ y.at = "enter"
  BY <1>2, FreshIsRequest DEF Begin, Idle
<1> QED BY <1>3, QuietStep DEF Resume, Put

LEMMA CrashKeeps ==
    ASSUME PanelInv, NEW w \in Workers, Crash(w)
    PROVE  PanelInv' /\ Stays
<1>1. PICK y \in Requests : y = [Idle EXCEPT !.at = "dead"] /\ y.at = "dead"
  BY FreshIsRequest DEF Idle
<1> QED BY <1>1, QuietStep DEF Crash, Put

(* A refused request gives up only what nobody will be granted.             *)
LEMMA RefusalGivesUp ==
    ASSUME PanelInv, NEW x \in Requests, Calling(x), NEW y,
           y.job = x.job, y.work = x.work, y.at = "failed",
           \/ Verdict(x.work) = "failed" /\ x.work \in Work
           \/ x.job # "read" /\ panel.status \in Terminal
    PROVE  GivesUp(y)
<1>1. x.work \in Work /\ (x.work[1] = "initial_reading" <=> x.job = "read")
  BY JobOfCall
<1>2. ASSUME Verdict(x.work) = "failed", x.work[1] \in {"initial_reading", "initial_ballot"}
      PROVE  expired \/ x.work \in Spent
  <2>1. ~Speech(x.work)
    BY <1>2 DEF Speech
  <2> QED BY <1>1, <1>2, <2>1, RefusedIsSpent DEF PanelInv
<1>3. ASSUME panel.status \in Terminal, x.work[1] = "initial_ballot"
      PROVE  Over
  <2>1. panel.issues # <<>>
    BY <1>3, BallotAtHand
  <2> QED BY <1>3, <2>1 DEF Over, Ended
<1> QED BY <1>1, <1>2, <1>3 DEF GivesUp, Lost

LEMMA RefuseKeeps ==
    ASSUME PanelInv, NEW w \in Workers, Refuse(w)
    PROVE  PanelInv' /\ Stays
<1>1. PICK x \in Requests : x = worker[w] /\ x \in Request /\ x.at = "reserve" /\ Calling(x)
  BY AtSteps DEF PanelInv, Refuse, At, Calling
<1>2. PICK seen \in Views : seen = View(x.job, panel)
  BY ViewOfPanel DEF PanelInv
<1>3. PICK v : v = Verdict(x.work)
  OBVIOUS
<1>4. CASE Ends(x.job, v)
  <2>1. worker' = [worker EXCEPT ![w] = Idle]
    BY <1>1, <1>3, <1>4 DEF Refuse, Put, AfterRefusal, Request
  <2>2. PICK y \in Requests : y = Idle /\ y.at = "idle"
    BY FreshIsRequest DEF Idle
  <2> QED BY <2>1, <2>2, QuietStep DEF Refuse
<1>5. CASE ~Ends(x.job, v)
  <2>1. PICK at \in {"enter", "failed"} : at = IF v = "already" THEN "enter" ELSE "failed"
    OBVIOUS
  <2>2. PICK y \in Request : y = [x EXCEPT !.at = at, !.n = 0, !.seen = seen]
    BY <1>1, <2>1, RequestMoves DEF Steps
  <2>3. worker' = [worker EXCEPT ![w] = y]
    BY <1>1, <1>2, <1>3, <1>5, <2>1, <2>2 DEF Refuse, Put, AfterRefusal, Request
  <2>4. /\ y.at = at /\ y.job = x.job /\ y.work = x.work /\ y.who = x.who /\ y.todo = x.todo
        /\ y.votes = x.votes /\ y.issue = x.issue /\ y.round = x.round
    BY <1>1, <2>2 DEF Request
  <2>5. y.at = "failed" => GivesUp(y)
    <3>1. v # "granted" /\ x.work \in Work
      BY <1>1, <1>3, JobOfCall DEF Refuse
    <3>2. y.at = "failed" => \/ v = "failed"
                             \/ x.job # "read" /\ panel.status \in Terminal
      BY <1>3, <1>5, <2>1, <2>4, <3>1 DEF Ends, Verdict
    <3> QED BY <1>1, <1>3, <2>4, <3>1, <3>2, RefusalGivesUp
  <2>6. Onward /\ x \in Requests'
    BY QuietPanel, RequestsStay DEF Refuse
  <2>7. y.at = "failed" => GivesUp(y)'
    BY <2>5, <2>6, LossStays DEF GivesUp, Onward, LedgerGrows
  <2>8. y \in Requests'
    BY <1>1, <2>1, <2>4, <2>6, <2>7, CallMoves
  <2> QED BY <2>1, <2>3, <2>4, <2>8, QuietStep DEF Refuse
<1> QED BY <1>4, <1>5

(* A call is granted: a ballot only when the reader has voted on every      *)
(* issue before.                                                            *)
LEMMA ReserveKeeps ==
    ASSUME PanelInv, NEW w \in Workers, Reserve(w)
    PROVE  PanelInv' /\ Stays
<1>1. PICK x \in Requests : x = worker[w] /\ x \in Request /\ x.at = "reserve" /\ Calling(x)
  BY AtSteps DEF PanelInv, Reserve, At, Calling
<1>2. PICK seen \in Views : seen = View(x.job, panel)
  BY ViewOfPanel DEF PanelInv
<1>3. x.work \in Work
  BY <1>1, JobOfCall
<1>4. PICK k \in Work : k = x.work
  BY <1>3
<1>5. Verdict(k) = "granted" /\ attempts' = [attempts EXCEPT ![k] = Append(@, "started")]
  BY <1>1, <1>4 DEF Reserve
<1>6. /\ LedgerGrows /\ Done' = Done /\ Begun' = Begun \cup {k}
      /\ Len(attempts[k]) + 1 \in DOMAIN attempts'[k]
  BY <1>5, LedgerReserves DEF PanelInv
<1>7. Len(attempts[k]) \in Nat /\ DOMAIN attempts[k] = 1 .. Len(attempts[k])
  BY LedgerRow DEF PanelInv, LedgerOK, Ledgers
<1>8. PICK n \in Nat : n = Len(attempts[k]) + 1
  BY <1>7
<1>9. PICK y \in Request : y = [x EXCEPT !.at = "calling", !.n = n, !.seen = seen]
  BY <1>1, RequestMoves DEF Steps
<1>10. worker' = [worker EXCEPT ![w] = y]
  BY <1>1, <1>2, <1>4, <1>8, <1>9 DEF Reserve, Put
<1>11. /\ y.at = "calling" /\ y.job = x.job /\ y.work = x.work /\ y.who = x.who /\ y.todo = x.todo
       /\ y.votes = x.votes /\ y.issue = x.issue /\ y.round = x.round /\ y.n = n
  BY <1>1, <1>9 DEF Request
<1>12. panel' = panel /\ expired' = expired
  BY DEF Reserve
<1>13. Chain'
  <2> SUFFICES ASSUME NEW p \in Pairs, Ballot(p) \in Begun', NEW j \in 1 .. p[2] - 1
               PROVE  Ballot(<<p[1], j>>) \in Done
    BY <1>6 DEF Chain
  <2>1. CASE Ballot(p) \in Begun
    BY <2>1 DEF PanelInv, PanelOK, Chain
  <2>2. CASE Ballot(p) = k
    <3>1. x.work[1] = "initial_ballot" /\ x.work[4] = p[1] /\ x.work[2] = p[2]
          /\ p = <<p[1], p[2]>> /\ p[2] \in Issue
      BY <1>4, <2>2, WorkShape
    <3>2. /\ Ordered(x.votes) /\ p \in x.votes
          /\ \A q \in x.votes : q[1] = p[1] => p[2] <= q[2]
      BY <1>1, <3>1, BallotAtHand
    <3>3. <<p[1], j>> \notin x.votes
      <4>1. j \in Int /\ p[2] \in Int /\ j < p[2]
        BY <3>1 DEF Issue
      <4> QED BY <3>2, <4>1
    <3> QED BY <3>2, <3>3 DEF Ordered
  <2> QED BY <1>6, <2>1, <2>2
<1>14. Over' <=> Over
  BY <1>12 DEF Over
<1>15. PanelOK'
  <2>1. PanelType' /\ PhaseOK'
    BY <1>6, <1>12 DEF PanelInv, PanelOK, PanelType, PhaseOK, IssuesOf, OpenIssues
  <2>2. BallotsPaid'
    BY <1>6, <1>12 DEF PanelInv, PanelOK, BallotsPaid
  <2>3. ReadersOK'
    BY <1>6, <1>12, ReadersKept DEF PanelInv, PanelOK, ReadingsKept
  <2>4. LossesFinal' /\ VotesIn'
    BY <1>6, <1>12, <1>14, LossesKept, VotesKept DEF PanelInv, PanelOK
  <2>5. Quorate' /\ ReportCountsReaders'
    BY <1>6, <1>12, <1>14, QuorateKept, ReportKept DEF PanelInv, PanelOK
  <2> QED BY <1>13, <2>1, <2>2, <2>3, <2>4, <2>5 DEF PanelOK
<1>16. Onward
  BY <1>6, <1>12, <1>14 DEF Onward
<1>17. x \in Requests'
  BY <1>16, RequestsStay
<1>18. y \in Requests'
  <2>1. Fits(x)' /\ Reads(x)' /\ Votes(x)' /\ x.at # "enter"
    BY <1>1, <1>17 DEF Requests
  <2>2. Fits(y)'
    BY <1>1, <1>4, <1>6, <1>8, <1>11, <2>1 DEF Fits, Calling
  <2>3. Reads(y)' /\ Votes(y)' /\ GivesUp(y)'
    BY <1>1, <1>11, <2>1 DEF Reads, Votes, GivesUp, Calling
  <2> QED BY <2>2, <2>3 DEF Requests
<1>19. RequestsOK'
  BY <1>10, <1>16, <1>18, RequestsKept DEF PanelInv
<1>20. worker'[w] = y /\ \A v \in Workers : v # w => worker'[v] = worker[v]
  BY <1>10 DEF PanelInv, RequestsOK
<1>21. ASSUME NEW v \in Workers, v # w, worker[v].at = "calling"
       PROVE  /\ worker[v].work = k => worker[v].n # n
              /\ attempts'[worker[v].work][worker[v].n] = attempts[worker[v].work][worker[v].n]
  <2>1. PICK z \in Requests : z = worker[v] /\ z.at = "calling"
    BY <1>21, AtSteps DEF PanelInv
  <2>2. z.work \in Work /\ z.n \in DOMAIN attempts[z.work]
    BY <2>1 DEF Requests, Fits, Calling
  <2>3. z.work = k => z.n # n
    BY <1>7, <1>8, <2>2
  <2>4. attempts'[z.work][z.n] = attempts[z.work][z.n]
    <3>1. CASE z.work = k
      <4>1. attempts'[k] = Append(attempts[k], "started")
        BY <1>5 DEF PanelInv, LedgerOK
      <4>2. attempts[k] \in Seq(CallStatus) /\ z.n \in 1 .. Len(attempts[k])
        BY <1>7, <2>2, <3>1 DEF PanelInv, LedgerOK
      <4> QED BY <3>1, <4>1, <4>2, AppendProperties DEF CallStatus
    <3>2. CASE z.work # k
      BY <1>5, <2>2, <3>2 DEF PanelInv, LedgerOK
    <3> QED BY <3>1, <3>2
  <2> QED BY <2>1, <2>3, <2>4
<1>22. attempts'[k][n] = "started"
  <2>1. attempts'[k] = Append(attempts[k], "started") /\ attempts[k] \in Seq(CallStatus)
    BY <1>5 DEF PanelInv, LedgerOK
  <2> QED BY <1>8, <2>1, AppendProperties DEF CallStatus
<1>23. CallsOK'
  <2>1. ASSUME NEW v \in Workers, NEW u \in Workers, v # u, worker'[v].at = "calling",
               worker'[u].at = "calling", worker'[v].work = worker'[u].work
        PROVE  worker'[v].n # worker'[u].n
    BY <1>4, <1>11, <1>20, <1>21, <2>1 DEF PanelInv, CallsOK, At
  <2>2. ASSUME NEW v \in Workers, worker'[v].at = "calling",
               worker'[v].work[1] = "initial_ballot"
        PROVE  attempts'[worker'[v].work][worker'[v].n] = "started" \/ Over'
    <3>1. CASE v = w
      BY <1>4, <1>11, <1>20, <1>22, <3>1
    <3>2. CASE v # w
      BY <1>14, <1>20, <1>21, <2>2, <3>2 DEF PanelInv, CallsOK, At, Pending
    <3> QED BY <3>1, <3>2
  <2> QED BY <2>1, <2>2 DEF CallsOK, At, Pending
<1>24. Stays
  BY <1>12, ResultsRest
<1> QED BY <1>6, <1>15, <1>19, <1>23, <1>24 DEF PanelInv, LedgerGrows

(* What settling the request's own call changes: nothing but that call.     *)
LEMMA SettledCall ==
    ASSUME PanelInv, NEW w \in Workers, At(w, "calling"), Pending(w),
           NEW s \in CallStatus \ {"started"}, attempts' = Settled(w, s)
    PROVE  /\ LedgerGrows /\ Begun' = Begun /\ worker[w].work \in Running
           /\ Done' = IF s = "succeeded" THEN Done \cup {worker[w].work} ELSE Done
           /\ worker[w].work[1] # "initial_reading" \/ s # "succeeded" => ReadingsKept
<1>1. PICK x \in Requests : x = worker[w] /\ x.at = "calling" /\ Calling(x)
  BY AtSteps DEF PanelInv, At, Calling
<1>2. x.work \in Work /\ x.n \in DOMAIN attempts[x.work]
  BY <1>1 DEF Requests, Fits
<1>3. PICK k \in Work : k = x.work
  BY <1>2
<1>4. PICK n \in DOMAIN attempts[k] : n = x.n
  BY <1>2, <1>3
<1>5. attempts[k][n] = "started" /\ attempts' = [attempts EXCEPT ![k][n] = s]
  BY <1>1, <1>3, <1>4 DEF Pending, Settled
<1>6. /\ LedgerGrows /\ Begun' = Begun /\ k \in Running
      /\ Done' = IF s = "succeeded" THEN Done \cup {k} ELSE Done
  BY <1>5, LedgerSettles DEF PanelInv
<1>7. k[1] # "initial_reading" \/ s # "succeeded" => ReadingsKept
  BY <1>6, WorkShape DEF ReadingsKept
<1> QED BY <1>1, <1>3, <1>6, <1>7

LEMMA AnswerLateKeeps ==
    ASSUME PanelInv, NEW w \in Workers, AnswerLate(w)
    PROVE  PanelInv' /\ Stays
<1>1. PICK x \in Requests : x = worker[w] /\ x \in Request /\ x.at = "calling" /\ Calling(x)
  BY AtSteps DEF PanelInv, AnswerLate, At, Calling
<1>2. panel' = panel /\ expired' = expired /\ At(w, "calling")
  BY DEF AnswerLate
<1>3. /\ LedgerGrows /\ Begun' = Begun /\ ReadingsKept
      /\ attempts' = attempts \/ \E s \in CallStatus : attempts' = Settled(w, s)
  <2>1. CASE Pending(w)
    <3>1. "cancelled" \in CallStatus \ {"started"} /\ attempts' = Settled(w, "cancelled")
      BY <2>1 DEF CallStatus, AnswerLate
    <3> QED BY <1>2, <2>1, <3>1, SettledCall
  <2>2. CASE ~Pending(w)
    BY <2>2, LedgerRests DEF AnswerLate, PanelInv, ReadingsKept
  <2> QED BY <2>1, <2>2
<1>4. PanelOK' /\ Onward /\ Stays
  BY <1>2, <1>3, PanelRests, ResultsRest DEF PanelInv, PanelOK
<1>5. CASE x.job = "read"
  <2>1. PICK y \in Requests : y = Idle /\ y.at = "idle"
    BY FreshIsRequest DEF Idle
  <2>2. worker' = [worker EXCEPT ![w] = y]
    BY <1>1, <1>5, <2>1 DEF AnswerLate, Put, AfterRefusal, Ends
  <2> QED BY <1>2, <1>3, <1>4, <2>1, <2>2, StepKeeps
<1>6. CASE x.job # "read"
  <2>1. PICK y \in Request : y = [x EXCEPT !.at = "failed", !.n = 0]
    <3>1. PICK at \in Steps : at = "failed"
      BY DEF Steps
    <3>2. [x EXCEPT !.at = at, !.n = 0] \in Request
      BY <1>1 DEF Request
    <3> QED BY <3>1, <3>2
  <2>2. worker' = [worker EXCEPT ![w] = y]
    BY <1>1, <1>6, <2>1 DEF AnswerLate, Put, AfterRefusal, Ends
  <2>3. /\ y.at = "failed" /\ y.job = x.job /\ y.work = x.work /\ y.who = x.who /\ y.todo = x.todo
        /\ y.votes = x.votes /\ y.issue = x.issue /\ y.round = x.round
    BY <1>1, <2>1 DEF Request
  <2>4. x.work[1] = "initial_ballot" => Over
    <3>1. ASSUME x.work[1] = "initial_ballot", panel.status \in Terminal PROVE Over
      BY <1>1, <3>1, BallotAtHand DEF Over, Ended
    <3>2. ASSUME x.work[1] = "initial_ballot", ~Pending(w) PROVE Over
      BY <1>1, <1>2, <3>2 DEF PanelInv, CallsOK
    <3> QED BY <3>1, <3>2 DEF AnswerLate
  <2>5. GivesUp(y)'
    BY <1>4, <1>6, <2>3, <2>4 DEF GivesUp, Onward
  <2>6. y \in Requests'
    BY <1>1, <1>4, <2>3, <2>5, RequestsStay, CallMoves
  <2> QED BY <1>2, <1>3, <1>4, <2>2, <2>3, <2>6, StepKeeps
<1> QED BY <1>5, <1>6

(* The call fails.  After an answer that was too large the work could be    *)
(* asked for again, but the reader is marked by it.                         *)
LEMMA AnswerFailsKeeps ==
    ASSUME PanelInv, NEW w \in Workers, NEW code \in Failures \cup {"budget_exhausted"},
           AnswerFails(w, code)
    PROVE  PanelInv' /\ Stays
<1>1. PICK x \in Requests : x = worker[w] /\ x \in Request /\ x.at = "calling" /\ Calling(x)
  BY AtSteps DEF PanelInv, AnswerFails, At, Calling
<1>2. panel' = panel /\ expired' = expired /\ At(w, "calling") /\ Pending(w)
  BY DEF AnswerFails
<1>3. code \in CallStatus \ {"started"} /\ code # "succeeded" /\ attempts' = Settled(w, code)
  BY PanelConfig DEF CallStatus, AnswerFails
<1>4. LedgerGrows /\ Begun' = Begun /\ ReadingsKept
  BY <1>2, <1>3, SettledCall
<1>5. PanelOK' /\ Onward /\ Stays
  BY <1>2, <1>4, PanelRests, ResultsRest DEF PanelInv, PanelOK
<1>6. PICK at \in {"reserve", "failed"} : at = IF Retried(w, code) THEN "reserve" ELSE "failed"
  OBVIOUS
<1>7. PICK y : y = [x EXCEPT !.at = at, !.n = 0, !.seen.status = View(x.job, panel).status]
  OBVIOUS
<1>8. worker' = [worker EXCEPT ![w] = y]
  BY <1>1, <1>6, <1>7 DEF AnswerFails, Put
<1>9. y \in Request
  <2>1. View(x.job, panel).status \in Status \cup {"none"} /\ x.seen \in Views
    BY <1>1, ViewOfPanel DEF PanelInv, Views, Request
  <2>2. PICK seen : seen = [x.seen EXCEPT !.status = View(x.job, panel).status]
    OBVIOUS
  <2>3. seen \in Views
    BY <2>1, <2>2 DEF Views
  <2>4. y = [x EXCEPT !.at = at, !.n = 0, !.seen = seen]
    BY <1>1, <1>7, <2>2 DEF Request
  <2> QED BY <1>1, <1>6, <2>3, <2>4, RequestMoves DEF Steps
<1>10. /\ y.at = at /\ y.job = x.job /\ y.work = x.work /\ y.who = x.who /\ y.todo = x.todo
       /\ y.votes = x.votes /\ y.issue = x.issue /\ y.round = x.round
  BY <1>1, <1>7 DEF Request
<1>11. ASSUME at = "failed", x.work[4] \in Reader, x.work[4] \notin Oversized'
       PROVE  x.work \in Spent'
  <2>1. x.work \in Work /\ x.n \in DOMAIN attempts[x.work]
    BY <1>1 DEF Requests, Fits
  <2>2. PICK k \in Work : k = x.work
    BY <2>1
  <2>3. PICK n \in DOMAIN attempts[k] : n = x.n
    BY <2>1, <2>2
  <2>4. attempts[k][n] = "started" /\ attempts' = [attempts EXCEPT ![k][n] = code]
    BY <1>1, <1>2, <1>3, <2>2, <2>3 DEF Pending, Settled
  <2>5. ~ (/\ n < MaxAttempts /\ code \in {"unavailable", "invalid_output"}
           /\ code = "invalid_output" => InvalidAnswers(k) = 0)
    BY <1>1, <1>6, <1>11, <2>2, <2>3 DEF Retried
  <2>6. code \in {"unavailable", "invalid_output", "unknown"}
    <3>1. HasAttempt(k, code)'
      <4>1. n \in DOMAIN attempts'[k]
        BY <1>4 DEF LedgerGrows
      <4>2. attempts'[k][n] = code
        BY <2>4 DEF PanelInv, LedgerOK
      <4> QED BY <4>1, <4>2 DEF HasAttempt
    <3>2. code # "budget_exhausted"
      BY <1>11, <2>2, <3>1 DEF Oversized
    <3> QED BY <3>2, PanelConfig
  <2> QED BY <2>2, <2>4, <2>5, <2>6, UnretriedIsSpent DEF PanelInv
<1>12. y.at = "failed" => GivesUp(y)'
  <2>1. x.work \in Work /\ (x.work[1] = "initial_reading" <=> x.job = "read")
    BY <1>1, JobOfCall
  <2>2. x.work[1] \in {"initial_reading", "initial_ballot"} => x.work[4] \in Reader
    BY <2>1, WorkOfPhase DEF Pairs
  <2> QED BY <1>10, <1>11, <2>1, <2>2 DEF GivesUp, Lost
<1>13. y \in Requests'
  BY <1>1, <1>5, <1>6, <1>9, <1>10, <1>12, RequestsStay, CallMoves
<1> QED BY <1>2, <1>3, <1>4, <1>5, <1>6, <1>8, <1>10, <1>13, StepKeeps

-----------------------------------------------------------------------------
(* The author, the clock and the process.                                   *)
LEMMA CancelKeeps ==
    ASSUME PanelInv, Cancel
    PROVE  PanelInv' /\ Stays
<1>1. /\ PanelOK' /\ Onward /\ Stays /\ panel'.status \in Terminal
      /\ attempts' = CancelStarted(attempts) /\ panel'.issues = panel.issues
  BY SettleKeeps DEF PanelInv, Cancel
<1>2. Undisturbed
  BY <1>1, WaitingUndisturbed DEF PanelInv, Cancel
<1>3. CallsOK'
  BY <1>1, <1>2, CallsKept DEF PanelInv, Onward
<1>4. RequestsOK'
  <2>1. \A x \in Requests : x \in Requests'
    BY <1>1, RequestsStay
  <2> QED BY <2>1 DEF PanelInv, RequestsOK, Cancel
<1> QED BY <1>1, <1>3, <1>4 DEF PanelInv, Onward, LedgerGrows

LEMMA ExpireKeeps ==
    ASSUME PanelInv, Expire
    PROVE  PanelInv' /\ Stays
<1>1. panel' = panel /\ attempts' = attempts /\ worker' = worker /\ expired' = TRUE
  BY DEF Expire
<1>2. LedgerGrows /\ Done' = Done /\ Begun' = Begun
  BY <1>1, LedgerRests DEF PanelInv
<1>3. PanelOK' /\ Onward /\ Stays
  BY <1>1, <1>2, PanelRests, ResultsRest DEF PanelInv, ReadingsKept
<1>4. RequestsOK'
  <2>1. \A x \in Requests : x \in Requests'
    BY <1>3, RequestsStay
  <2> QED BY <1>1, <2>1 DEF PanelInv, RequestsOK
<1>5. CallsOK'
  BY <1>1, <1>3, CallsKept DEF PanelInv, Onward, Undisturbed
<1> QED BY <1>2, <1>3, <1>4, <1>5 DEF PanelInv, LedgerGrows

LEMMA AbortKeeps ==
    ASSUME PanelInv, NEW w \in Workers, Abort(w)
    PROVE  PanelInv' /\ Stays
<1>1. PICK y \in Requests : y = Idle /\ y.at = "idle"
  BY FreshIsRequest DEF Idle
<1>2. worker' = [worker EXCEPT ![w] = y] /\ expired' = expired /\ At(w, "calling")
  BY <1>1 DEF Abort, Return, Put
<1>3. CASE panel.status \in Terminal \ {"cancelled"}
  <2>1. panel' = panel
    BY <1>3 DEF Abort
  <2>2. /\ LedgerGrows /\ Begun' = Begun /\ ReadingsKept
        /\ attempts' = attempts \/ \E s \in CallStatus : attempts' = Settled(w, s)
    <3>1. CASE Pending(w)
      <4>1. "cancelled" \in CallStatus \ {"started"} /\ attempts' = Settled(w, "cancelled")
        BY <1>3, <3>1 DEF CallStatus, Abort
      <4> QED BY <1>2, <3>1, <4>1, SettledCall
    <3>2. CASE ~Pending(w)
      BY <1>3, <3>2, LedgerRests DEF Abort, PanelInv, ReadingsKept
    <3> QED BY <3>1, <3>2
  <2>3. PanelOK' /\ Onward /\ Stays
    BY <1>2, <2>1, <2>2, PanelRests, ResultsRest DEF PanelInv, PanelOK
  <2> QED BY <1>1, <1>2, <2>2, <2>3, StepKeeps
<1>4. CASE panel.status \notin Terminal \ {"cancelled"}
  <2>1. SettleNow("cancelled")
    BY <1>4 DEF Abort
  <2>2. /\ PanelOK' /\ Onward /\ Stays /\ panel'.status \in Terminal
        /\ attempts' = CancelStarted(attempts)
    BY <1>2, <2>1, SettleKeeps DEF PanelInv
  <2> QED BY <1>1, <1>2, <2>2, StepKeeps DEF Onward
<1> QED BY <1>3, <1>4

-----------------------------------------------------------------------------
(* Independent reading.                                                     *)

(* A request turns to the next reader, or to the quorum.                    *)
LEMMA NextReadingIsRequest ==
    ASSUME NEW x \in Request, x.job = "read", NEW todo \in SUBSET Reader, x.at # "enter",
           x.votes = {} \/ x.job = "read",
           \A r \in x.who : Reading(r) \in Done',
           \A r \in Reader \ todo : Lost(r)' \/ Reading(r) \in Done' \cup Spent'
    PROVE  NextReading(x, todo) \in Requests' /\ NextReading(x, todo).at # "calling"
<1>1. CASE todo = {}
  <2>1. PICK y : y = [x EXCEPT !.at = "quorum", !.work = NoWork, !.todo = {}, !.n = 0]
    OBVIOUS
  <2>2. NextReading(x, todo) = y
    BY <1>1, <2>1 DEF NextReading
  <2>3. y \in Request
    BY <2>1 DEF Request, Steps
  <2>4. /\ y.at = "quorum" /\ y.job = "read" /\ y.todo = {} /\ y.who = x.who
    BY <2>1 DEF Request
  <2>5. ~Calling(y)
    BY <2>4 DEF Calling
  <2>6. Fits(y)'
    BY <2>4, <2>5 DEF Fits, Calling
  <2>7. Reads(y)'
    BY <1>1, <2>4, <2>5 DEF Reads, Calling
  <2>8. GivesUp(y)' /\ Votes(y)'
    BY <2>4, <2>5 DEF GivesUp, Votes, Calling
  <2> QED BY <2>2, <2>3, <2>4, <2>6, <2>7, <2>8 DEF Requests
<1>2. CASE todo # {}
  <2>1. PICK r \in Reader : r = First(todo) /\ r \in todo
    <3>1. todo \in SUBSET Nat
      BY PanelConfig DEF Reader
    <3>2. First(todo) \in todo
      BY <1>2, <3>1, FirstIsOne
    <3> QED BY <3>2
  <2>2. PICK y : y = [x EXCEPT !.at = "reserve", !.work = Reading(r), !.todo = todo, !.n = 0]
    OBVIOUS
  <2>3. NextReading(x, todo) = y
    BY <1>2, <2>1, <2>2 DEF NextReading
  <2>4. Reading(r) \in Work /\ Reading(r)[1] = "initial_reading"
    BY WorkShape
  <2>5. y \in Request
    BY <2>2, <2>4 DEF Request, Steps
  <2>6. y.at = "reserve" /\ y.job = "read" /\ y.todo = todo /\ y.who = x.who /\ y.work = Reading(r)
    BY <2>2 DEF Request
  <2>7. Fits(y)'
    <3>1. y.work[1] \in Phases(y.job)
      BY <2>4, <2>6 DEF Phases
    <3> QED BY <2>4, <2>6, <3>1 DEF Fits, Calling
  <2>8. Reads(y)'
    BY <2>1, <2>6 DEF Reads, Calling
  <2>9. GivesUp(y)' /\ Votes(y)'
    BY <2>4, <2>6 DEF GivesUp, Votes, Calling
  <2> QED BY <2>3, <2>5, <2>6, <2>7, <2>8, <2>9 DEF Requests
<1> QED BY <1>1, <1>2

LEMMA ReadEnterKeeps ==
    ASSUME PanelInv, NEW w \in Workers, ReadEnter(w)
    PROVE  PanelInv' /\ Stays
<1>1. LedgerGrows /\ Onward /\ PanelOK' /\ Stays
  BY QuietPanel DEF ReadEnter
<1>2. CASE panel.reports # 0
  <2>1. PICK y \in Requests : y = Idle /\ y.at = "idle"
    BY FreshIsRequest DEF Idle
  <2> QED BY <1>2, <2>1, QuietStep DEF ReadEnter, Return, Put
<1>3. CASE panel.reports = 0
  <2>1. PICK done \in SUBSET Reader : done = Completed(panel) \cap panel.reported
    BY DEF Completed
  <2>2. \A r \in done : Reading(r) \in Done
    BY <2>1 DEF PanelInv, PanelOK, ReadersOK
  <2>3. PICK seen \in Views : seen = View("read", panel)
    BY ViewOfPanel DEF PanelInv
  <2>4. PICK x : x = [Begin("read") EXCEPT !.at = "reserve", !.who = done, !.seen = seen]
    OBVIOUS
  <2>5. "read" \in Jobs /\ "reserve" \in Steps /\ Begin("read") \in Request
    BY FreshRequest DEF Jobs, Steps
  <2>6. x \in Request /\ x.job = "read" /\ x.at # "enter" /\ x.who = done
    <3>1. Begin("read").job = "read"
      BY DEF Begin, Idle
    <3> QED BY <2>4, <2>5, <3>1 DEF Request
  <2>7. Done \subseteq Done'
    BY <1>1 DEF LedgerGrows
  <2>8. PICK y \in Requests' : y = NextReading(x, Reader \ done) /\ y.at # "calling"
    BY <2>2, <2>6, <2>7, NextReadingIsRequest
  <2>9. NextReading(x, Reader \ done)
          = NextReading([Begin("read") EXCEPT !.who = done, !.seen = seen], Reader \ done)
    BY <2>4, <2>5 DEF NextReading, Request
  <2>10. worker' = [worker EXCEPT ![w] = y]
    BY <1>3, <2>1, <2>3, <2>8, <2>9 DEF ReadEnter, Put
  <2> QED BY <2>8, <2>10, QuietStep DEF ReadEnter
<1>4. panel.reports \in Nat
  BY DEF PanelInv, PanelOK, PanelType, PanelRow
<1> QED BY <1>2, <1>3

LEMMA ReadSavedKeeps ==
    ASSUME PanelInv, NEW w \in Workers, ReadSaved(w)
    PROVE  PanelInv' /\ Stays
<1>1. PICK x \in Requests : x = worker[w] /\ x \in Request /\ x.at = "calling" /\ Calling(x)
  BY AtSteps DEF PanelInv, ReadSaved, Answered, At, Calling
<1>2. x.job = "read" /\ x.work \in Work /\ x.work[1] = "initial_reading"
  BY <1>1, JobOfCall DEF ReadSaved, Answered, On
<1>3. PICK r \in Reader : r = x.work[4] /\ x.work = Reading(r)
  BY <1>2, WorkOfPhase
<1>4. /\ At(w, "calling") /\ Pending(w) /\ ~expired /\ panel.status \notin Terminal
      /\ attempts' = Settled(w, "succeeded") /\ expired' = expired
      /\ panel' = [panel EXCEPT !.readers[r] = "completed", !.reported = @ \cup {r}]
  BY <1>1, <1>3 DEF ReadSaved, Answered, Deliver, ReadingReader
<1>5. "succeeded" \in CallStatus \ {"started"}
  BY DEF CallStatus
<1>6. LedgerGrows /\ Begun' = Begun /\ Reading(r) \in Running /\ Done' = Done \cup {Reading(r)}
  BY <1>1, <1>3, <1>4, <1>5, SettledCall
<1>7. Reading(r) \notin Done /\ Reading(r) \notin Spent
  BY <1>6, OutcomesApart DEF PanelInv
<1>8. r \in Oversized \/ panel.reports = 0
  BY <1>4, <1>7 DEF PanelInv, PanelOK, ReadersOK, Lost
<1>9. \A q : Lost(q) => Lost(q)'
  BY <1>4, <1>6, LossStays
<1>10. panel \in PanelRow
  BY DEF PanelInv, PanelOK, PanelType
<1>11. panel.readers \in [Reader -> ReaderStatus] /\ panel.reported \subseteq Reader
  BY <1>10 DEF PanelRow
<1>12. PICK rs \in [Reader -> ReaderStatus] : rs = [panel.readers EXCEPT ![r] = "completed"]
  BY <1>11 DEF ReaderStatus
<1>13. PICK rep \in SUBSET Reader : rep = panel.reported \cup {r}
  BY <1>11
<1>14. panel' = [panel EXCEPT !.readers = rs, !.reported = rep]
  BY <1>4, <1>10, <1>12, <1>13 DEF PanelRow
<1>15. /\ panel' \in PanelRow /\ panel'.readers = rs /\ panel'.reported = rep
       /\ panel'.initial = panel.initial /\ panel'.final = panel.final
       /\ panel'.issues = panel.issues /\ panel'.reports = panel.reports
       /\ panel'.ballots = panel.ballots /\ panel'.finals = panel.finals
       /\ panel'.messages = panel.messages /\ panel'.handoffs = panel.handoffs
       /\ panel'.status = panel.status /\ panel'.degraded = panel.degraded
  BY <1>10, <1>14 DEF PanelRow
<1>16. Completed(panel') = Completed(panel) \cup {r}
  BY <1>11, <1>12, <1>15 DEF Completed
<1>17. Over' <=> Over
  BY <1>15 DEF Over
<1>18. PanelOK'
  <2>1. PanelType' /\ PhaseOK'
    BY <1>4, <1>6, <1>15 DEF PanelInv, PanelOK, PanelType, PhaseOK, IssuesOf, OpenIssues
  <2>2. Chain' /\ BallotsPaid'
    BY <1>6, <1>15, ChainKept DEF PanelInv, PanelOK, BallotsPaid
  <2>3. ReadersOK'
    <3>1. panel'.reported = {q \in Reader : Reading(q) \in Done'}
      <4>1. panel.reported = {q \in Reader : Reading(q) \in Done}
        BY DEF PanelInv, PanelOK, ReadersOK
      <4>2. \A q \in Reader : Reading(q) = Reading(r) => q = r
        BY WorkShape
      <4> QED BY <1>6, <1>13, <1>15, <4>1, <4>2
    <3>2. /\ Completed(panel') \subseteq panel'.reported
          /\ panel'.issues = <<>> /\ ~panel'.initial =>
               \A q \in panel'.reported : Lost(q)' \/ q \in Completed(panel')
      BY <1>9, <1>13, <1>15, <1>16 DEF PanelInv, PanelOK, ReadersOK
    <3>3. panel'.reports # 0 => \A q \in Reader : Lost(q)' \/ Reading(q) \in Done' \cup Spent'
      BY <1>6, <1>9, <1>15 DEF PanelInv, PanelOK, ReadersOK, LedgerGrows
    <3> QED BY <3>1, <3>2, <3>3 DEF ReadersOK
  <2>4. LossesFinal'
    BY <1>6, <1>9, <1>13, <1>15, <1>16, <1>17, BlockedStays DEF PanelInv, PanelOK, LossesFinal
  <2>5. VotesIn'
    <3>1. panel.initial => r \in Oversized
      BY <1>8 DEF PanelInv, PanelOK, PhaseOK
    <3>2. panel.initial => Lost(r)'
      BY <1>9, <3>1 DEF Lost
    <3> QED BY <1>6, <1>9, <1>13, <1>15, <3>2, BlockedStays
         DEF PanelInv, PanelOK, VotesIn, LedgerGrows, IssuesOf
  <2>6. Quorate'
    <3>1. /\ Completed(panel) \subseteq Completed(panel') /\ Completed(panel') \subseteq Reader
          /\ Completed(panel) \subseteq Reader
      BY <1>16 DEF Completed
    <3>2. Oversized \subseteq Oversized' /\ Oversized' \subseteq Reader
      BY <1>6 DEF LedgerGrows, Oversized
    <3>3. Cardinality(Completed(panel) \cup Oversized) >= MinValid =>
              Cardinality(Completed(panel') \cup Oversized') >= MinValid
      BY <3>1, <3>2, MoreReaders
    <3> QED BY <1>4, <1>15, <1>17, <3>3 DEF PanelInv, PanelOK, Quorate
  <2>7. ReportCountsReaders'
    BY <1>6, <1>15, ReportKept DEF PanelInv, PanelOK
  <2> QED BY <2>1, <2>2, <2>3, <2>4, <2>5, <2>6, <2>7 DEF PanelOK
<1>19. Onward
  BY <1>4, <1>6, <1>13, <1>15, <1>17 DEF Onward
<1>20. Stays
  BY <1>4, <1>15 DEF Stays, Frozen
<1>21. PICK seen \in Views : seen = View("read", panel)
  BY ViewOfPanel DEF PanelInv
<1>22. PICK z : z = [x EXCEPT !.who = @ \cup {r}, !.seen = seen]
  OBVIOUS
<1>23. z \in Request /\ z.job = "read" /\ z.at # "enter" /\ z.who = x.who \cup {r}
  BY <1>1, <1>2, <1>21, <1>22 DEF Request
<1>24. x.todo \subseteq Reader /\ Reads(x)'
  BY <1>1, <1>19, RequestsStay DEF Request, Requests
<1>25. /\ \A q \in z.who : Reading(q) \in Done'
       /\ \A q \in Reader \ (x.todo \ {r}) : Lost(q)' \/ Reading(q) \in Done' \cup Spent'
  BY <1>1, <1>2, <1>6, <1>23, <1>24 DEF Reads
<1>26. PICK y \in Requests' : y = NextReading(z, x.todo \ {r}) /\ y.at # "calling"
  BY <1>23, <1>24, <1>25, NextReadingIsRequest
<1>27. worker' = [worker EXCEPT ![w] = y]
  BY <1>1, <1>3, <1>21, <1>22, <1>26 DEF ReadSaved, Put, ReadingReader
<1> QED BY <1>4, <1>5, <1>6, <1>18, <1>19, <1>20, <1>26, <1>27, StepKeeps

LEMMA ReadFailedKeeps ==
    ASSUME PanelInv, NEW w \in Workers, ReadFailed(w)
    PROVE  PanelInv' /\ Stays
<1>1. PICK x \in Requests : /\ x = worker[w] /\ x \in Request /\ x.at = "failed" /\ Calling(x)
                            /\ x.job = "read"
  BY AtSteps DEF PanelInv, ReadFailed, At, On, Calling
<1>2. x.work \in Work /\ x.work[1] = "initial_reading"
  BY <1>1, JobOfCall
<1>3. PICK r \in Reader : r = x.work[4] /\ x.work = Reading(r)
  BY <1>2, WorkOfPhase
<1>4. /\ attempts' = attempts /\ expired' = expired
      /\ panel' = [panel EXCEPT !.readers[r] = "failed"]
  BY <1>1, <1>3 DEF ReadFailed, ReadingReader, WithoutReader
<1>5. LedgerGrows /\ Begun' = Begun /\ Done' = Done
  BY <1>4, LedgerRests DEF PanelInv
<1>6. Lost(r) \/ Reading(r) \in Spent
  BY <1>1, <1>3 DEF Requests, GivesUp
<1>7. Lost(r) \/ r \notin Completed(panel)
  <2>1. Spent \cap Done = {}
    BY DEF Spent
  <2> QED BY <1>6, <2>1 DEF PanelInv, PanelOK, ReadersOK
<1>8. panel \in PanelRow
  BY DEF PanelInv, PanelOK, PanelType
<1>9. panel.readers \in [Reader -> ReaderStatus]
  BY <1>8 DEF PanelRow
<1>10. PICK rs \in [Reader -> ReaderStatus] : rs = [panel.readers EXCEPT ![r] = "failed"]
  BY <1>9 DEF ReaderStatus
<1>11. panel' = [panel EXCEPT !.readers = rs]
  BY <1>4, <1>8, <1>10 DEF PanelRow
<1>12. /\ panel' \in PanelRow /\ panel'.readers = rs /\ panel'.reported = panel.reported
       /\ panel'.initial = panel.initial /\ panel'.final = panel.final
       /\ panel'.issues = panel.issues /\ panel'.reports = panel.reports
       /\ panel'.ballots = panel.ballots /\ panel'.finals = panel.finals
       /\ panel'.messages = panel.messages /\ panel'.handoffs = panel.handoffs
       /\ panel'.status = panel.status /\ panel'.degraded = panel.degraded
  BY <1>8, <1>11 DEF PanelRow
<1>13. Completed(panel') = Completed(panel) \ {r}
  BY <1>9, <1>10, <1>12 DEF Completed
<1>14. \A q : Lost(q) => Lost(q)'
  BY <1>4, <1>5, LossStays
<1>15. Over' <=> Over
  BY <1>12 DEF Over
<1>16. PanelOK'
  <2>1. PanelType' /\ PhaseOK'
    BY <1>4, <1>5, <1>12 DEF PanelInv, PanelOK, PanelType, PhaseOK, IssuesOf, OpenIssues
  <2>2. Chain' /\ BallotsPaid'
    BY <1>5, <1>12, ChainKept DEF PanelInv, PanelOK, BallotsPaid
  <2>3. ReadersOK'
    BY <1>4, <1>5, <1>7, <1>12, <1>13, <1>14 DEF PanelInv, PanelOK, ReadersOK, LedgerGrows
  <2>4. LossesFinal' /\ VotesIn'
    BY <1>4, <1>5, <1>7, <1>12, <1>13, <1>14, <1>15, BlockedStays, VotesKept
    DEF PanelInv, PanelOK, LossesFinal
  <2>5. Quorate'
    <3>1. expired \/ Completed(panel) \cup Oversized \subseteq Completed(panel') \cup Oversized
      BY <1>7, <1>13 DEF Lost
    <3>2. Oversized \subseteq Oversized' /\ Oversized' \subseteq Reader
      BY <1>5 DEF LedgerGrows, Oversized
    <3>3. Completed(panel) \subseteq Reader /\ Completed(panel') \subseteq Reader
      BY DEF Completed
    <3>4. Cardinality(Completed(panel) \cup Oversized) >= MinValid =>
              expired \/ Cardinality(Completed(panel') \cup Oversized') >= MinValid
      BY <3>1, <3>2, <3>3, MoreReaders
    <3> QED BY <1>4, <1>12, <1>15, <3>4 DEF PanelInv, PanelOK, Quorate
  <2>6. ReportCountsReaders'
    BY <1>5, <1>12, ReportKept DEF PanelInv, PanelOK
  <2> QED BY <2>1, <2>2, <2>3, <2>4, <2>5, <2>6 DEF PanelOK
<1>17. Onward /\ Stays
  BY <1>4, <1>5, <1>12, <1>15, ResultsRest DEF Onward
<1>18. x.todo \subseteq Reader /\ Reads(x)'
  BY <1>1, <1>17, RequestsStay DEF Request, Requests
<1>19. /\ \A q \in x.who : Reading(q) \in Done'
       /\ \A q \in Reader \ (x.todo \ {r}) : Lost(q)' \/ Reading(q) \in Done' \cup Spent'
  BY <1>1, <1>4, <1>5, <1>6, <1>14, <1>18 DEF Reads, LedgerGrows
<1>20. PICK y \in Requests' : y = NextReading(x, x.todo \ {r}) /\ y.at # "calling"
  BY <1>1, <1>18, <1>19, NextReadingIsRequest
<1>21. worker' = [worker EXCEPT ![w] = y]
  BY <1>1, <1>3, <1>20 DEF ReadFailed, Put, ReadingReader
<1> QED BY <1>4, <1>5, <1>16, <1>17, <1>20, <1>21, StepKeeps

(* The quorum: the reports a request counts are all there, so that a panel  *)
(* whose issues are open cannot be opened again with fewer.                 *)
LEMMA QuorumKeeps ==
    ASSUME PanelInv, NEW w \in Workers, Quorum(w)
    PROVE  PanelInv' /\ Stays
<1>1. PICK x \in Requests : x = worker[w] /\ x \in Request /\ x.at = "quorum"
  BY AtSteps DEF PanelInv, Quorum, At
<1>2. x.job = "read" /\ x.todo = {} /\ Reads(x) /\ x.who \subseteq Reader
  BY <1>1 DEF Requests, Fits, Request
<1>3. PICK y \in Requests : y = Idle /\ y.at = "idle"
  BY FreshIsRequest DEF Idle
<1>4. worker' = [worker EXCEPT ![w] = y] /\ expired' = expired
  BY <1>3 DEF Quorum, Return, Put
<1>5. CASE ~(Cardinality(x.who) >= MinValid)
  <2>1. SettleNow("failed")
    BY <1>1, <1>5 DEF Quorum
  <2>2. /\ PanelOK' /\ Onward /\ Stays /\ panel'.status \in Terminal
        /\ attempts' = CancelStarted(attempts)
    BY <1>4, <2>1, SettleKeeps DEF PanelInv
  <2> QED BY <1>3, <1>4, <2>2, StepKeeps DEF Onward
<1>6. CASE Cardinality(x.who) >= MinValid
  <2>1. panel \in PanelRow
    BY DEF PanelInv, PanelOK, PanelType
  <2>2. panel.status \in Reached /\ panel.reports \in Nat /\ panel.degraded \in BOOLEAN
    BY <2>1 DEF PanelRow
  <2>3. PICK s \in Reached : s = IF x.seen.status = "initial_reports_locked" THEN panel.status
                                 ELSE "initial_reports_locked"
    BY <2>2 DEF Reached, Status
  <2>4. PICK n \in Nat : n = panel.reports + 1 /\ n # 0
    BY <2>2
  <2>5. PICK d \in BOOLEAN : d = (panel.degraded \/ x.who # Reader)
    OBVIOUS
  <2>6. panel' = [panel EXCEPT !.status = s, !.reports = n, !.degraded = d] /\ attempts' = attempts
    BY <1>1, <1>6, <2>1, <2>3, <2>4, <2>5 DEF Quorum, PanelRow
  <2>7. /\ panel' \in PanelRow /\ panel'.readers = panel.readers /\ panel'.reported = panel.reported
        /\ panel'.initial = panel.initial /\ panel'.final = panel.final
        /\ panel'.issues = panel.issues /\ panel'.reports = n
        /\ panel'.ballots = panel.ballots /\ panel'.finals = panel.finals
        /\ panel'.messages = panel.messages /\ panel'.handoffs = panel.handoffs
        /\ panel'.status = s /\ panel'.degraded = d
    BY <2>1, <2>6 DEF PanelRow
  <2>8. LedgerGrows /\ Begun' = Begun /\ Done' = Done
    BY <2>6, LedgerRests DEF PanelInv
  <2>9. s = panel.status \/ s = "initial_reports_locked"
    BY <2>3
  <2>10. Over => Over'
    BY <2>7, <2>9 DEF Over, Ended
  <2>11. Completed(panel') = Completed(panel)
    BY <2>7 DEF Completed
  <2>12. PhaseOK'
    <3>1. PhaseOK
      BY DEF PanelInv, PanelOK
    <3>2. CASE s = panel.status
      BY <2>4, <2>7, <2>8, <3>1, <3>2 DEF PhaseOK
    <3>3. CASE s = "initial_reports_locked"
      <4>1. panel'.status = "initial_reports_locked" /\ "initial_reports_locked" \in Ended
        BY <2>7, <3>3 DEF Ended
      <4> QED BY <2>4, <2>7, <2>8, <3>1, <4>1 DEF PhaseOK
    <3> QED BY <2>9, <3>2, <3>3
  <2>13. PanelType'
    BY <1>4, <2>1, <2>7 DEF PanelInv, PanelOK, PanelType, IssuesOf, OpenIssues
  <2>14. Chain' /\ BallotsPaid'
    BY <2>7, <2>8, ChainKept DEF PanelInv, PanelOK, BallotsPaid
  <2>15. ReadersOK'
    <3>1. \A r \in Reader : Lost(r) \/ Reading(r) \in Done \cup Spent
      BY <1>1, <1>2 DEF Reads
    <3>2. \A r : Lost(r) => Lost(r)'
      BY <1>4, <2>8, LossStays
    <3> QED BY <1>4, <2>7, <2>8, <2>11, <3>1, <3>2 DEF PanelInv, PanelOK, ReadersOK, LedgerGrows
  <2>16. LossesFinal' /\ VotesIn'
    BY <1>4, <2>7, <2>8, <2>10, LossesKept, VotesKept DEF PanelInv, PanelOK
  <2>17. Quorate'
    <3>1. ASSUME ~expired, panel.issues # <<>> \/ panel.initial
          PROVE  Over \/ Cardinality(Completed(panel) \cup Oversized) >= MinValid
      BY <3>1 DEF PanelInv, PanelOK, PhaseOK, Quorate
    <3>2. ASSUME ~expired, panel.issues = <<>>, ~panel.initial
          PROVE  Cardinality(Completed(panel) \cup Oversized) >= MinValid
      <4>1. x.who \subseteq Completed(panel) \cup Oversized
        BY <1>1, <1>2, <3>2 DEF Reads, PanelInv, PanelOK, ReadersOK, Lost
      <4>2. Completed(panel) \cup Oversized \subseteq Reader
        BY DEF Completed, Oversized
      <4> QED BY <1>2, <1>6, <4>1, <4>2, MoreReaders
    <3>3. Oversized' = Oversized
      BY <2>6 DEF Oversized, HasAttempt
    <3> QED BY <1>4, <2>10, <2>11, <3>1, <3>2, <3>3 DEF Quorate
  <2>18. ReportCountsReaders'
    BY <2>5, <2>7, <2>8, <2>9, ReportKept DEF PanelInv, PanelOK
  <2>19. PanelOK'
    BY <2>12, <2>13, <2>14, <2>15, <2>16, <2>17, <2>18 DEF PanelOK
  <2>20. Onward /\ Stays
    BY <1>4, <2>7, <2>8, <2>10, ResultsRest DEF Onward
  <2> QED BY <1>3, <1>4, <2>6, <2>8, <2>19, <2>20, StepKeeps
<1> QED BY <1>5, <1>6

-----------------------------------------------------------------------------
(* Blind ballots.                                                           *)

(* A request at a step of the ballots that asks for nothing.                *)
LEMMA BallotStep ==
    ASSUME NEW x \in Request, x.job = "ballot", x.at \in {"cast", "seal"}, x.votes = {}
    PROVE  x \in Requests'
<1>1. ~Calling(x) /\ x.at \notin {"calling", "quorum", "failed", "turns", "close", "finals", "tally"}
  BY DEF Calling
<1> QED BY <1>1 DEF Requests, Fits, GivesUp, Reads, Votes

(* A request turns to the next ballot, or to the seal.                      *)
LEMMA NextBallotIsRequest ==
    ASSUME NEW x \in Request, x.job = "ballot", NEW votes \in SUBSET Pairs,
           votes \subseteq panel'.reported \X DOMAIN panel'.issues, Ordered(votes)'
    PROVE  NextBallot(x, votes) \in Requests' /\ NextBallot(x, votes).at # "calling"
<1>1. CASE votes = {}
  <2>1. PICK y : y = [x EXCEPT !.at = "seal", !.work = NoWork, !.votes = {}, !.n = 0]
    OBVIOUS
  <2>2. NextBallot(x, votes) = y
    BY <1>1, <2>1 DEF NextBallot
  <2>3. y \in Request
    BY <2>1 DEF Request, Steps
  <2>4. y.at = "seal" /\ y.job = "ballot" /\ y.votes = {}
    BY <2>1 DEF Request
  <2>5. y \in Requests'
    BY <2>3, <2>4, BallotStep
  <2> QED BY <2>2, <2>4, <2>5
<1>2. CASE votes # {}
  <2>1. votes \in SUBSET (Nat \X Nat)
    BY PanelConfig DEF Pairs, Reader, Issue
  <2>2. PICK p \in Pairs : /\ p = FirstPair(votes) /\ p \in votes
                           /\ \A q \in votes : q[1] = p[1] => p[2] <= q[2]
    BY <1>2, <2>1, FirstPairIsFirst
  <2>3. PICK y : y = [x EXCEPT !.at = "reserve", !.work = Ballot(p), !.votes = votes, !.n = 0]
    OBVIOUS
  <2>4. NextBallot(x, votes) = y
    BY <1>2, <2>2, <2>3 DEF NextBallot
  <2>5. Ballot(p) \in Work /\ Ballot(p)[1] = "initial_ballot"
    BY WorkShape
  <2>6. y \in Request
    BY <2>3, <2>5 DEF Request, Steps
  <2>7. y.at = "reserve" /\ y.job = "ballot" /\ y.votes = votes /\ y.work = Ballot(p)
    BY <2>3 DEF Request
  <2>8. Fits(y)'
    <3>1. y.work[1] \in Phases(y.job)
      BY <2>5, <2>7 DEF Phases
    <3> QED BY <2>5, <2>7, <3>1 DEF Fits, Calling
  <2>9. Votes(y)'
    BY <2>2, <2>7 DEF Votes, IssuesOf
  <2>10. GivesUp(y)' /\ Reads(y)'
    BY <2>7 DEF GivesUp, Reads
  <2> QED BY <2>4, <2>6, <2>7, <2>8, <2>9, <2>10 DEF Requests
<1> QED BY <1>1, <1>2

LEMMA BallotEnterKeeps ==
    ASSUME PanelInv, NEW w \in Workers, BallotEnter(w)
    PROVE  PanelInv' /\ Stays
<1>1. panel \in PanelRow /\ panel.status \in Reached /\ panel.reports \in Nat
      /\ panel.reported \subseteq Reader /\ Eligible(panel) \subseteq Reader
  BY DEF PanelInv, PanelOK, PanelType, PanelRow, Eligible, Completed
<1>2. PICK snap \in Snaps : snap = Sources(panel)
  BY <1>1 DEF Sources, Snaps
<1>3. PICK who \in SUBSET Reader : who = Eligible(panel)
  BY <1>1
<1>4. PICK x \in Request : x = [Begin("ballot") EXCEPT !.who = who, !.snap = snap]
  <2>1. Begin("ballot") \in Request
    BY FreshRequest DEF Jobs
  <2> QED BY <2>1 DEF Request
<1>5. x.job = "ballot" /\ x.votes = {} /\ x.at = "enter"
  <2>1. Begin("ballot") \in Request /\ Begin("ballot").job = "ballot"
        /\ Begin("ballot").votes = {} /\ Begin("ballot").at = "enter"
    BY FreshRequest DEF Jobs, Begin, Idle
  <2> QED BY <1>4, <2>1 DEF Request
<1>6. LedgerGrows /\ Begun' = Begun /\ Done' = Done /\ attempts' = attempts
      /\ expired' = expired
  BY LedgerRests DEF PanelInv, BallotEnter
<1> DEFINE closed == ~BallotsOpen(panel) \/ Eligible(panel) = {}
           extracts == panel.issues = <<>>
                           /\ panel.status \in {"initial_reports_locked", "issue_extraction"}
<1>7. CASE closed
  <2>1. PICK y \in Requests : y = Idle /\ y.at = "idle"
    BY FreshIsRequest DEF Idle
  <2> QED BY <1>7, <2>1, QuietStep DEF BallotEnter, Return, Put
<1>8. CASE ~closed /\ ~extracts
  <2>1. PICK y : y = [x EXCEPT !.at = "cast"]
    OBVIOUS
  <2>2. y \in Request /\ y.job = "ballot" /\ y.at = "cast" /\ y.votes = {}
    BY <1>5, <2>1 DEF Request, Steps
  <2>3. y \in Requests'
    BY <2>2, BallotStep
  <2>4. worker' = [worker EXCEPT ![w] = y] /\ panel' = panel
    BY <1>2, <1>3, <1>4, <1>8, <2>1 DEF BallotEnter, Put
  <2> QED BY <1>6, <2>2, <2>3, <2>4, QuietStep
<1>9. CASE ~closed /\ extracts
  <2>1. PICK s \in Reached : s = "issue_extraction"
    BY DEF Reached, Status
  <2>2. panel.ended \in BOOLEAN /\ panel.degraded \in BOOLEAN
    BY <1>1 DEF PanelRow
  <2>3. panel' = [panel EXCEPT !.status = s]
    BY <1>9, <2>1 DEF BallotEnter
  <2>4. panel' = [panel EXCEPT !.status = s, !.ended = panel.ended, !.degraded = panel.degraded]
    BY <1>1, <2>3 DEF PanelRow
  <2>5. /\ panel'.status = s /\ panel'.issues = panel.issues /\ panel'.initial = panel.initial
        /\ panel'.final = panel.final /\ panel'.handoffs = panel.handoffs
        /\ panel'.reports = panel.reports
    BY <1>1, <2>3 DEF PanelRow
  <2>6. Over => Over'
    BY <1>9, <2>1, <2>5 DEF Over
  <2>7. PhaseOK'
    BY <1>6, <2>1, <2>5 DEF PanelInv, PanelOK, PhaseOK
  <2>8. s # "completed" /\ ReadingsKept
    BY <1>6, <2>1 DEF ReadingsKept, PanelInv, PanelOK
  <2>9. PanelOK' /\ Onward /\ Stays
    BY <1>6, <2>2, <2>4, <2>6, <2>7, <2>8, StatusOnly DEF PanelInv
  <2>10. PICK y : y = [x EXCEPT !.at = "reserve", !.work = Extraction]
    OBVIOUS
  <2>11. y \in Request /\ y.job = "ballot" /\ y.at = "reserve" /\ y.votes = {} /\ y.work = Extraction
    BY <1>5, <2>10, WorkShape DEF Request, Steps
  <2>12. Extraction \in Work /\ Extraction[1] = "issue_extraction"
    BY WorkShape
  <2>13. Fits(y)'
    <3>1. y.work[1] \in Phases(y.job)
      BY <2>11, <2>12 DEF Phases
    <3> QED BY <2>11, <2>12, <3>1 DEF Fits, Calling
  <2>14. GivesUp(y)' /\ Reads(y)' /\ Votes(y)'
    BY <2>11, <2>12 DEF GivesUp, Reads, Votes
  <2>15. y \in Requests' /\ y.at # "calling"
    BY <2>11, <2>13, <2>14 DEF Requests
  <2>16. worker' = [worker EXCEPT ![w] = y]
    BY <1>2, <1>3, <1>4, <1>9, <2>10 DEF BallotEnter, Put, Request
  <2> QED BY <1>6, <2>9, <2>15, <2>16, StepKeeps
<1> QED BY <1>7, <1>8, <1>9

(* The request goes on to the ballots.                                      *)
LEMMA CastNext ==
    ASSUME RequestsOK, NEW w \in Workers, Go(w, "cast"), worker[w].job = "ballot",
           worker[w].work = Extraction, Calling(worker[w]), Onward
    PROVE  \E y \in Requests' : worker' = [worker EXCEPT ![w] = y] /\ y.at # "calling"
<1>1. PICK x \in Requests : x = worker[w] /\ x \in Request
  BY AtSteps
<1>2. PICK y : y = [x EXCEPT !.at = "cast"]
  OBVIOUS
<1>3. y \in Request /\ y.job = "ballot" /\ y.at = "cast" /\ y.votes = x.votes
  BY <1>1, <1>2 DEF Request, Steps
<1>4. Votes(x)'
  BY <1>1, RequestsStay DEF Requests
<1>5. ~Calling(y) /\ y.at \notin {"calling", "quorum", "failed", "turns", "close", "finals", "tally"}
  BY <1>3 DEF Calling
<1>6. Votes(y)'
  BY <1>1, <1>3, <1>4, <1>5 DEF Votes, Calling
<1>7. Fits(y)' /\ GivesUp(y)' /\ Reads(y)'
  BY <1>3, <1>5 DEF Fits, GivesUp, Reads
<1>8. y \in Requests'
  BY <1>3, <1>6, <1>7 DEF Requests
<1> QED BY <1>1, <1>2, <1>3, <1>8 DEF Go, Put

LEMMA ExtractedKeeps ==
    ASSUME PanelInv, NEW w \in Workers, Extracted(w)
    PROVE  PanelInv' /\ Stays
<1>1. PICK x \in Requests : /\ x = worker[w] /\ x \in Request /\ x.at = "calling" /\ Calling(x)
                            /\ x.job = "ballot" /\ x.work[1] = "issue_extraction"
  BY AtSteps DEF PanelInv, Extracted, Answered, At, On, Calling
<1>2. x.work = Extraction /\ x.who \subseteq Reader
  BY <1>1, JobOfCall, WorkOfPhase DEF Request
<1>3. /\ At(w, "calling") /\ Pending(w) /\ ~expired /\ panel.status \notin Terminal
      /\ expired' = expired
  BY DEF Extracted, Answered
<1>4. PICK idle \in Requests : idle = Idle /\ idle.at = "idle"
  BY FreshIsRequest DEF Idle
<1>5. CASE ~BallotsOpen(panel)
  BY <1>3, <1>4, <1>5, QuietStep DEF Extracted, RollBack, Return, Put
<1>6. CASE BallotsOpen(panel)
  <2>1. attempts' = Settled(w, "succeeded") /\ "succeeded" \in CallStatus \ {"started"}
    BY <1>6 DEF Extracted, Deliver, CallStatus
  <2>2. /\ LedgerGrows /\ Begun' = Begun /\ Extraction \in Running
        /\ Done' = Done \cup {Extraction} /\ ReadingsKept
    BY <1>1, <1>2, <1>3, <2>1, SettledCall
  <2>3. Extraction \notin Done
    BY <2>2, OutcomesApart DEF PanelInv
  <2>4. /\ panel.issues = <<>> /\ ~panel.initial /\ ~panel.final /\ panel.handoffs = <<>>
        /\ panel.reports # 0
    BY <1>6, <2>3 DEF PanelInv, PanelOK, PhaseOK, BallotsOpen
  <2>5. CASE panel' = panel
    <3>1. PanelOK' /\ Onward /\ Stays
      BY <1>3, <2>2, <2>5, PanelRests, ResultsRest DEF PanelInv, PanelOK
    <3>2. CASE ~Bound(w)
      <4>1. worker' = [worker EXCEPT ![w] = idle]
        BY <1>4, <1>6, <3>2 DEF Extracted, Return, Put
      <4> QED BY <1>3, <1>4, <2>1, <2>2, <3>1, <4>1, StepKeeps
    <3>3. CASE Bound(w)
      <4>1. Go(w, "cast")
        BY <1>6, <3>3 DEF Extracted
      <4>2. PICK y \in Requests' : worker' = [worker EXCEPT ![w] = y] /\ y.at # "calling"
        BY <1>1, <1>2, <3>1, <4>1, CastNext DEF PanelInv
      <4> QED BY <1>3, <2>1, <2>2, <3>1, <4>2, StepKeeps
    <3> QED BY <3>2, <3>3
  <2>6. CASE panel' # panel
    <3>1. Bound(w) /\ AwaitsIssues /\ Go(w, "cast")
      BY <1>6, <2>6 DEF Extracted
    <3>2. PICK n \in 0 .. BallotIssues, src \in SUBSET x.who :
            panel' = [panel EXCEPT !.issues = [i \in 1 .. n |-> "queued"],
                                   !.sources = src, !.status = "initial_balloting"]
      BY <1>1, <1>6, <3>1, <2>6 DEF Extracted
    <3>3. panel \in PanelRow
      BY DEF PanelInv, PanelOK, PanelType
    <3>4. PICK is : is = [i \in 1 .. n |-> "queued"]
      OBVIOUS
    <3>5. n \in Nat /\ is \in Seq(IssueStatus) /\ DOMAIN is = 1 .. n /\ 1 .. n \subseteq Issue
          /\ \A i \in 1 .. n : is[i] = "queued"
      <4>1. n \in Nat /\ n <= BallotIssues
        BY PanelConfig
      <4>2. "queued" \in IssueStatus
        BY DEF IssueStatus
      <4> QED BY <3>4, <4>1, <4>2, PanelConfig, IsASeq DEF Issue
    <3>6. PICK s \in Reached : s = "initial_balloting"
      BY DEF Reached, Status
    <3>7. panel' = [panel EXCEPT !.issues = is, !.sources = src, !.status = s]
      BY <3>2, <3>4, <3>6
    <3>8. src \subseteq Reader
      BY <1>2, <3>2
    <3>9. /\ panel' \in PanelRow /\ panel'.readers = panel.readers
          /\ panel'.reported = panel.reported
          /\ panel'.initial = panel.initial /\ panel'.final = panel.final
          /\ panel'.issues = is /\ panel'.reports = panel.reports
          /\ panel'.ballots = panel.ballots /\ panel'.finals = panel.finals
          /\ panel'.messages = panel.messages /\ panel'.handoffs = panel.handoffs
          /\ panel'.status = s /\ panel'.degraded = panel.degraded
      BY <3>3, <3>5, <3>7, <3>8 DEF PanelRow
    <3>10. ~Over /\ DOMAIN panel.issues = {}
      BY <2>4 DEF Over
    <3>11. PanelType'
      <4>1. IssuesOf(panel') \subseteq Issue /\ OpenIssues(panel') = {}
        BY <3>5, <3>9 DEF IssuesOf, OpenIssues
      <4> QED BY <1>3, <3>9, <4>1 DEF PanelType, PanelInv, PanelOK
    <3>12. Chain' /\ BallotsPaid'
      BY <2>2, <3>9, ChainKept DEF PanelInv, PanelOK, BallotsPaid, LedgerGrows
    <3>13. PhaseOK'
      <4>1. panel'.status = "initial_balloting" /\ Extraction \in Done' /\ ~panel'.initial
            /\ ~panel'.final /\ panel'.handoffs = <<>> /\ panel'.reports # 0
        BY <2>2, <2>4, <3>6, <3>9
      <4> QED BY <4>1 DEF PhaseOK
    <3>14. ReadersOK'
      BY <1>3, <2>2, <2>4, <3>9, ReadersKept DEF PanelInv, PanelOK
    <3>15. Completed(panel') = Completed(panel)
      BY <3>9 DEF Completed
    <3>16. \A r \in panel.reported : Lost(r)' \/ r \in Completed(panel)
      BY <1>3, <2>2, <2>4, LossStays DEF PanelInv, PanelOK, ReadersOK
    <3>17. LossesFinal' /\ VotesIn' /\ Quorate'
      <4>1. LossesFinal' /\ VotesIn'
        BY <2>4, <3>9, <3>15, <3>16 DEF LossesFinal, VotesIn
      <4>2. Quorate'
        BY <1>3, <2>2, <3>9, <3>10, QuorateKept DEF PanelInv, PanelOK
      <4> QED BY <4>1, <4>2
    <3>18. ReportCountsReaders'
      <4>1. panel'.handoffs = <<>> /\ panel'.status # "completed"
        BY <2>4, <3>6, <3>9
      <4> QED BY <4>1 DEF ReportCountsReaders
    <3>19. PanelOK'
      BY <3>11, <3>12, <3>13, <3>14, <3>17, <3>18 DEF PanelOK
    <3>20. Onward
      BY <1>3, <2>2, <3>9, <3>10 DEF Onward
    <3>21. Stays
      BY <1>3, <3>9 DEF Stays, Frozen
    <3>22. PICK y \in Requests' : worker' = [worker EXCEPT ![w] = y] /\ y.at # "calling"
      BY <1>1, <1>2, <3>1, <3>20, CastNext DEF PanelInv
    <3> QED BY <1>3, <2>1, <2>2, <3>19, <3>20, <3>21, <3>22, StepKeeps
  <2> QED BY <2>5, <2>6
<1> QED BY <1>5, <1>6

LEMMA ExtractionFailedKeeps ==
    ASSUME PanelInv, NEW w \in Workers, ExtractionFailed(w)
    PROVE  PanelInv' /\ Stays
<1>1. PICK x \in Requests : /\ x = worker[w] /\ x \in Request /\ x.at = "failed" /\ Calling(x)
                            /\ x.work = Extraction
  BY AtSteps DEF PanelInv, ExtractionFailed, At, Calling
<1>2. x.job = "ballot"
  BY <1>1, WorkShape, JobOfCall
<1>3. PICK y \in Requests : y = Idle /\ y.at = "idle"
  BY FreshIsRequest DEF Idle
<1>4. expired' = expired
  BY DEF ExtractionFailed
<1>5. CASE ~BallotsOpen(panel) \/ ~Bound(w)
  BY <1>3, <1>4, <1>5, QuietStep DEF ExtractionFailed, RollBack, Return, Put
<1>6. CASE BallotsOpen(panel) /\ Bound(w) /\ AwaitsIssues
  <2>1. SettleNow("failed") /\ worker' = [worker EXCEPT ![w] = y]
    BY <1>3, <1>6 DEF ExtractionFailed, Return, Put
  <2>2. /\ PanelOK' /\ Onward /\ Stays /\ panel'.status \in Terminal
        /\ attempts' = CancelStarted(attempts)
    BY <1>4, <2>1, SettleKeeps DEF PanelInv
  <2> QED BY <1>3, <1>4, <2>1, <2>2, StepKeeps DEF Onward
<1>7. CASE BallotsOpen(panel) /\ Bound(w) /\ ~AwaitsIssues
  <2>1. Go(w, "cast") /\ panel' = panel /\ attempts' = attempts
    BY <1>7 DEF ExtractionFailed
  <2>2. LedgerGrows /\ Onward /\ PanelOK' /\ Stays
    BY <1>4, <2>1, QuietPanel
  <2>3. PICK z \in Requests' : worker' = [worker EXCEPT ![w] = z] /\ z.at # "calling"
    BY <1>1, <1>2, <2>1, <2>2, CastNext DEF PanelInv
  <2> QED BY <1>4, <2>1, <2>3, QuietStep
<1> QED BY <1>5, <1>6, <1>7

LEMMA CastKeeps ==
    ASSUME PanelInv, NEW w \in Workers, Cast(w)
    PROVE  PanelInv' /\ Stays
<1>1. PICK x \in Requests : x = worker[w] /\ x \in Request /\ x.at = "cast" /\ x.job = "ballot"
  BY AtSteps DEF PanelInv, Cast, At, Requests, Fits
<1>2. CASE BallotsOpen(panel) /\ Bound(w) /\ Balloting(panel)
  <2>1. PICK z \in Request : z = [x EXCEPT !.who = {}]
    BY <1>1 DEF Request
  <2>2. z.job = "ballot"
    BY <1>1, <2>1 DEF Request
  <2>3. /\ Eligible(panel) \subseteq panel.reported /\ Eligible(panel) \subseteq Reader
        /\ DOMAIN panel.issues \subseteq Issue /\ panel.issues \in Seq(IssueStatus)
    BY DEF Eligible, Completed, PanelInv, PanelOK, PanelType, IssuesOf, PanelRow
  <2>4. PICK votes \in SUBSET Pairs :
          votes = (Eligible(panel) \X DOMAIN panel.issues) \ panel.ballots
    BY <2>3 DEF Pairs
  <2>5. panel' = panel /\ LedgerGrows
    BY QuietPanel DEF Cast
  <2>6. Ordered(votes)'
    <3> SUFFICES ASSUME NEW p \in votes, NEW j \in 1 .. p[2] - 1
                 PROVE  <<p[1], j>> \in votes \/ Ballot(<<p[1], j>>) \in Done
      BY <2>5 DEF Ordered, LedgerGrows
    <3>1. p[1] \in Eligible(panel) /\ p[2] \in DOMAIN panel.issues
      BY <2>4
    <3>2. j \in DOMAIN panel.issues
      BY <2>3, <3>1
    <3>3. <<p[1], j>> \in votes \/ <<p[1], j>> \in panel.ballots
      BY <2>4, <3>1, <3>2
    <3> QED BY <3>3 DEF PanelInv, PanelOK, BallotsPaid
  <2>7. PICK y \in Requests' : y = NextBallot(z, votes) /\ y.at # "calling"
    BY <2>2, <2>3, <2>4, <2>5, <2>6, NextBallotIsRequest
  <2>8. worker' = [worker EXCEPT ![w] = y]
    BY <1>1, <1>2, <2>1, <2>4, <2>7 DEF Cast, Put, IssuesOf
  <2> QED BY <2>7, <2>8, QuietStep DEF Cast
<1>3. CASE ~(BallotsOpen(panel) /\ Bound(w) /\ Balloting(panel))
  <2>1. PICK y \in Requests : y = Idle /\ y.at = "idle"
    BY FreshIsRequest DEF Idle
  <2> QED BY <1>3, <2>1, QuietStep DEF Cast, Return, Put
<1> QED BY <1>2, <1>3

(* A sealed panel takes no more ballots, but of readers who are lost: those *)
(* of the others are in, or come after one that nobody will be asked for.   *)
LEMMA SealedBallot ==
    ASSUME PanelInv, NEW p \in Pairs, ~Lost(p[1]), panel.initial, Ballot(p) \in Running,
           p[1] \in panel.reported, p[2] \in DOMAIN panel.issues
    PROVE  FALSE
<1>1. Ballot(p) \in Begun /\ Ballot(p) \notin Done /\ Ballot(p) \notin Spent
  BY OutcomesApart DEF PanelInv
<1>2. p = <<p[1], p[2]>> /\ p[2] \in Issue
  BY WorkShape
<1>3. p[1] \in Blocked
  BY <1>1, <1>2 DEF PanelInv, PanelOK, VotesIn, IssuesOf
<1>4. PICK i \in Issue : /\ Ballot(<<p[1], i>>) \in Spent
                         /\ \A j \in 1 .. i - 1 : Ballot(<<p[1], j>>) \in Done
  BY <1>3 DEF Blocked
<1>5. i \in Nat /\ p[2] \in Nat /\ i >= 1 /\ p[2] >= 1
  BY <1>2, PanelConfig DEF Issue
<1>6. CASE p[2] < i
  <2>1. p[2] \in 1 .. i - 1
    BY <1>5, <1>6
  <2> QED BY <1>1, <1>2, <1>4, <2>1
<1>7. CASE p[2] = i
  BY <1>1, <1>2, <1>4, <1>7
<1>8. CASE i < p[2]
  <2>1. i \in 1 .. p[2] - 1
    BY <1>5, <1>8
  <2>2. Ballot(<<p[1], i>>) \in Done
    BY <1>1, <2>1 DEF PanelInv, PanelOK, Chain
  <2>3. Spent \cap Done = {}
    BY DEF Spent
  <2> QED BY <1>4, <2>2, <2>3
<1> QED BY <1>5, <1>6, <1>7, <1>8

LEMMA BallotSavedKeeps ==
    ASSUME PanelInv, NEW w \in Workers, BallotSaved(w)
    PROVE  PanelInv' /\ Stays
<1>1. PICK x \in Requests : /\ x = worker[w] /\ x \in Request /\ x.at = "calling" /\ Calling(x)
                            /\ x.job = "ballot" /\ x.work[1] = "initial_ballot"
  BY AtSteps DEF PanelInv, BallotSaved, Answered, At, On, Calling
<1>2. PICK p \in Pairs : p = <<x.work[4], x.work[2]>>
  BY <1>1, BallotAtHand
<1>3. /\ x.votes \subseteq panel.reported \X DOMAIN panel.issues /\ Ordered(x.votes)
      /\ p \in x.votes /\ x.work = Ballot(p)
  BY <1>1, <1>2, BallotAtHand
<1>4. /\ At(w, "calling") /\ Pending(w) /\ ~expired /\ panel.status \notin Terminal
      /\ expired' = expired
  BY DEF BallotSaved, Answered
<1>5. CASE ~BallotsOpen(panel)
  <2>1. PICK y \in Requests : y = Idle /\ y.at = "idle"
    BY FreshIsRequest DEF Idle
  <2> QED BY <1>4, <1>5, <2>1, QuietStep DEF BallotSaved, RollBack, Return, Put
<1>6. CASE BallotsOpen(panel)
  <2>1. /\ attempts' = Settled(w, "succeeded") /\ "succeeded" \in CallStatus \ {"started"}
        /\ panel' = [panel EXCEPT !.ballots = @ \cup {p}]
    BY <1>1, <1>2, <1>6 DEF BallotSaved, Deliver, CallStatus, PairAt
  <2>2. /\ LedgerGrows /\ Begun' = Begun /\ Ballot(p) \in Running
        /\ Done' = Done \cup {Ballot(p)} /\ ReadingsKept
    BY <1>1, <1>3, <1>4, <2>1, SettledCall
  <2>3. ~panel.initial \/ p[1] \in Oversized
    <3>1. p[1] \in panel.reported /\ p[2] \in DOMAIN panel.issues
      BY <1>3
    <3> QED BY <1>4, <2>2, <3>1, SealedBallot DEF Lost
  <2>4. panel \in PanelRow /\ panel.ballots \subseteq Pairs
    BY DEF PanelInv, PanelOK, PanelType, PanelRow
  <2>5. PICK bs \in SUBSET Pairs : bs = panel.ballots \cup {p}
    BY <2>4
  <2>6. panel' = [panel EXCEPT !.ballots = bs]
    BY <2>1, <2>4, <2>5 DEF PanelRow
  <2>7. /\ panel' \in PanelRow /\ panel'.readers = panel.readers /\ panel'.reported = panel.reported
        /\ panel'.initial = panel.initial /\ panel'.final = panel.final
        /\ panel'.issues = panel.issues /\ panel'.reports = panel.reports
        /\ panel'.ballots = bs /\ panel'.finals = panel.finals
        /\ panel'.messages = panel.messages /\ panel'.handoffs = panel.handoffs
        /\ panel'.status = panel.status /\ panel'.degraded = panel.degraded
    BY <2>4, <2>6 DEF PanelRow
  <2>8. Over' <=> Over
    BY <2>7 DEF Over
  <2>9. PanelOK'
    <3>1. PanelType' /\ PhaseOK'
      BY <1>4, <2>2, <2>7 DEF PanelInv, PanelOK, PanelType, PhaseOK, IssuesOf, OpenIssues
    <3>2. Chain' /\ BallotsPaid'
      BY <2>2, <2>5, <2>7, ChainKept DEF PanelInv, PanelOK, BallotsPaid
    <3>3. ReadersOK' /\ LossesFinal'
      BY <1>4, <2>2, <2>7, <2>8, ReadersKept, LossesKept DEF PanelInv, PanelOK
    <3>4. VotesIn' /\ Quorate' /\ ReportCountsReaders'
      BY <1>4, <2>2, <2>7, <2>8, VotesKept, QuorateKept, ReportKept DEF PanelInv, PanelOK
    <3> QED BY <3>1, <3>2, <3>3, <3>4 DEF PanelOK
  <2>10. Onward
    BY <1>4, <2>2, <2>7, <2>8 DEF Onward
  <2>11. Stays
    <3>1. panel.ballots \subseteq panel'.ballots
      BY <2>5, <2>7
    <3>2. panel.initial => ByOthers(panel.ballots) = ByOthers(panel'.ballots)
      BY <2>3, <2>5, <2>7 DEF ByOthers
    <3> QED BY <1>4, <2>7, <3>1, <3>2 DEF Stays, Frozen
  <2>12. PICK votes \in SUBSET Pairs : votes = x.votes \ {p}
    BY <1>1 DEF Request
  <2>13. Ordered(votes)'
    <3> SUFFICES ASSUME NEW q \in votes, NEW j \in 1 .. q[2] - 1
                 PROVE  <<q[1], j>> \in votes \/ Ballot(<<q[1], j>>) \in Done'
      BY DEF Ordered
    <3>1. <<q[1], j>> \in x.votes \/ Ballot(<<q[1], j>>) \in Done
      BY <1>3, <2>12 DEF Ordered
    <3> QED BY <2>2, <2>12, <3>1
  <2>14. PICK y \in Requests' : y = NextBallot(x, votes) /\ y.at # "calling"
    BY <1>1, <1>3, <2>7, <2>12, <2>13, NextBallotIsRequest
  <2>15. worker' = [worker EXCEPT ![w] = y]
    BY <1>1, <1>2, <1>6, <2>12, <2>14 DEF BallotSaved, Put, PairAt
  <2> QED BY <1>4, <2>1, <2>2, <2>9, <2>10, <2>11, <2>14, <2>15, StepKeeps
<1> QED BY <1>5, <1>6

LEMMA BallotFailedKeeps ==
    ASSUME PanelInv, NEW w \in Workers, BallotFailed(w)
    PROVE  PanelInv' /\ Stays
<1>1. PICK x \in Requests : /\ x = worker[w] /\ x \in Request /\ x.at = "failed" /\ Calling(x)
                            /\ x.work[1] = "initial_ballot"
  BY AtSteps DEF PanelInv, BallotFailed, At, Calling
<1>2. PICK p \in Pairs : p = <<x.work[4], x.work[2]>>
  BY <1>1, BallotAtHand
<1>3. /\ x.votes \subseteq panel.reported \X DOMAIN panel.issues /\ Ordered(x.votes)
      /\ p \in x.votes /\ x.work = Ballot(p) /\ x.job = "ballot"
      /\ \A q \in x.votes : q[1] = p[1] => p[2] <= q[2]
      /\ panel.issues # <<>>
  BY <1>1, <1>2, BallotAtHand, JobOfCall
<1>4. p = <<p[1], p[2]>> /\ p[2] \in Issue /\ p[1] \in Reader
  BY WorkShape
<1>5. PICK r \in Reader : r = p[1] /\ r = x.work[4]
  BY <1>2, <1>4
<1>6. expired' = expired
  BY DEF BallotFailed
<1>7. PICK idle \in Requests : idle = Idle /\ idle.at = "idle"
  BY FreshIsRequest DEF Idle
<1>8. CASE ~BallotsOpen(panel)
  BY <1>6, <1>7, <1>8, QuietStep DEF BallotFailed, RollBack, Return, Put
<1>9. CASE BallotsOpen(panel)
  <2>1. EliminateNow(r)
    BY <1>1, <1>5, <1>9 DEF BallotFailed
  <2>2. Over \/ Lost(r) \/ r \in Blocked
    <3>1. Over \/ Lost(r) \/ Ballot(p) \in Spent
      BY <1>1, <1>3, <1>5 DEF Requests, GivesUp
    <3>2. ASSUME NEW j \in 1 .. p[2] - 1 PROVE Ballot(<<r, j>>) \in Done
      <4>1. <<r, j>> \in x.votes \/ Ballot(<<r, j>>) \in Done
        BY <1>3, <1>5 DEF Ordered
      <4>2. j \in Int /\ p[2] \in Int /\ j < p[2]
        BY <1>4 DEF Issue
      <4> QED BY <1>3, <1>5, <4>1, <4>2
    <3>3. Ballot(p) \in Spent => r \in Blocked
      BY <1>4, <1>5, <3>2 DEF Blocked
    <3> QED BY <3>1, <3>3
  <2>3. /\ PanelOK' /\ Onward /\ Stays /\ panel'.issues = panel.issues
        /\ panel'.reported = panel.reported
        /\ \/ attempts' = attempts
           \/ /\ attempts' = CancelStarted(attempts) /\ panel'.status \in Terminal
              /\ TooFewWithout(panel, r)
    BY <1>3, <1>6, <2>1, <2>2, EliminateKeeps DEF PanelInv
  <2>4. CASE TooFewWithout(panel, r)
    <3>1. worker' = [worker EXCEPT ![w] = idle]
      BY <1>1, <1>5, <1>7, <1>9, <2>4 DEF BallotFailed, Return, Put
    <3> QED BY <1>7, <2>3, <3>1, StepKeeps DEF Onward
  <2>5. CASE ~TooFewWithout(panel, r)
    <3>1. PICK votes \in SUBSET Pairs : votes = {q \in x.votes : q[1] # r}
      BY <1>1 DEF Request
    <3>2. Ordered(votes)'
      <4> SUFFICES ASSUME NEW q \in votes, NEW j \in 1 .. q[2] - 1
                   PROVE  <<q[1], j>> \in votes \/ Ballot(<<q[1], j>>) \in Done'
        BY DEF Ordered
      <4>1. <<q[1], j>> \in x.votes \/ Ballot(<<q[1], j>>) \in Done
        BY <1>3, <3>1 DEF Ordered
      <4> QED BY <2>3, <3>1, <4>1 DEF Onward, LedgerGrows
    <3>3. PICK y \in Requests' : y = NextBallot(x, votes) /\ y.at # "calling"
      BY <1>3, <1>1, <2>3, <3>1, <3>2, NextBallotIsRequest
    <3>4. worker' = [worker EXCEPT ![w] = y]
      BY <1>1, <1>5, <1>9, <2>5, <3>1, <3>3 DEF BallotFailed, Put
    <3> QED BY <2>3, <2>5, <3>3, <3>4, StepKeeps DEF Onward
  <2> QED BY <2>4, <2>5
<1> QED BY <1>8, <1>9

(* The seal: every reader has voted that reported and is not lost for good. *)
LEMMA SealKeeps ==
    ASSUME PanelInv, NEW w \in Workers, Seal(w)
    PROVE  PanelInv' /\ Stays
<1>1. PICK y \in Requests : y = Idle /\ y.at = "idle"
  BY FreshIsRequest DEF Idle
<1>2. worker' = [worker EXCEPT ![w] = y]
      /\ expired' = expired /\ attempts' = attempts
  BY <1>1 DEF Seal, Return, Put
<1>3. LedgerGrows /\ Begun' = Begun /\ Done' = Done /\ ReadingsKept
  BY <1>2, LedgerRests DEF PanelInv, ReadingsKept
<1>4. panel \in PanelRow
  BY DEF PanelInv, PanelOK, PanelType
<1>5. CASE panel' = panel
  BY <1>1, <1>2, <1>5, QuietStep
<1> DEFINE complete == Eligible(panel) \X IssuesOf(panel) \subseteq panel.ballots
<1>6. CASE panel' # panel /\ ~complete
  <2>1. panel' = [panel EXCEPT !.degraded = TRUE]
    BY <1>6 DEF Seal
  <2>2. panel.status \in Reached /\ panel.ended \in BOOLEAN
    BY <1>4 DEF PanelRow
  <2>3. panel' = [panel EXCEPT !.status = panel.status, !.ended = panel.ended, !.degraded = TRUE]
    BY <1>4, <2>1 DEF PanelRow
  <2>4. /\ panel'.status = panel.status /\ panel'.issues = panel.issues
        /\ panel'.initial = panel.initial
        /\ panel'.final = panel.final /\ panel'.handoffs = panel.handoffs
        /\ panel'.reports = panel.reports
    BY <1>4, <2>1 DEF PanelRow
  <2>5. (Over => Over') /\ PhaseOK'
    BY <1>3, <2>4 DEF Over, PanelInv, PanelOK, PhaseOK
  <2>6. PanelOK' /\ Onward /\ Stays
    BY <1>2, <1>3, <1>4, <2>2, <2>3, <2>5, StatusOnly DEF PanelInv
  <2> QED BY <1>1, <1>2, <1>3, <2>6, StepKeeps
<1>7. CASE panel' # panel /\ complete
  <2>1. BallotsOpen(panel) /\ panel.status = "initial_balloting" /\ ~panel.initial
    BY <1>7 DEF Seal, Balloting
  <2>2. PICK s \in Reached : s = "initial_ballots_locked"
    BY DEF Reached, Status
  <2>3. panel' = [panel EXCEPT !.initial = TRUE, !.status = s]
    BY <1>7, <2>2 DEF Seal
  <2>4. /\ panel' \in PanelRow /\ panel'.readers = panel.readers /\ panel'.reported = panel.reported
        /\ panel'.initial = TRUE /\ panel'.final = panel.final
        /\ panel'.issues = panel.issues /\ panel'.reports = panel.reports
        /\ panel'.ballots = panel.ballots /\ panel'.finals = panel.finals
        /\ panel'.messages = panel.messages /\ panel'.handoffs = panel.handoffs
        /\ panel'.status = s /\ panel'.degraded = panel.degraded
    BY <1>4, <2>3 DEF PanelRow
  <2>5. ~Over /\ ~panel.final /\ panel.handoffs = <<>> /\ panel.reports # 0 /\ Extraction \in Done
    BY <2>1 DEF Over, Ended, Terminal, PanelInv, PanelOK, PhaseOK, BallotsOpen
  <2>6. Completed(panel') = Completed(panel) /\ Completed(panel) \subseteq panel.reported
    BY <2>4 DEF Completed, PanelInv, PanelOK, ReadersOK
  <2>7. PanelType'
    BY <1>2, <1>4, <2>4 DEF PanelInv, PanelOK, PanelType, IssuesOf, OpenIssues
  <2>8. PhaseOK'
    <3>1. panel'.status = "initial_ballots_locked" /\ panel'.initial /\ ~panel'.final
          /\ panel'.handoffs = <<>> /\ panel'.reports # 0 /\ Extraction \in Done'
      BY <1>3, <2>2, <2>4, <2>5
    <3> QED BY <3>1 DEF PhaseOK
  <2>9. Chain' /\ BallotsPaid'
    BY <1>3, <2>4, ChainKept DEF PanelInv, PanelOK, BallotsPaid
  <2>10. ReadersOK'
    BY <1>2, <1>3, <2>4, ReadersKept DEF PanelInv, PanelOK
  <2>11. VotesIn'
    <3> SUFFICES ASSUME NEW r \in panel.reported, NEW i \in DOMAIN panel.issues
                 PROVE  Lost(r) \/ Ballot(<<r, i>>) \in Done \/ r \in Blocked
      BY <1>2, <1>3, <2>4, BlockedStays, LossStays DEF VotesIn, IssuesOf
    <3>1. CASE r \in Completed(panel)
      <4>1. <<r, i>> \in panel.ballots
        BY <1>7, <3>1 DEF Eligible, IssuesOf
      <4> QED BY <4>1 DEF PanelInv, PanelOK, BallotsPaid
    <3>2. CASE r \notin Completed(panel)
      BY <2>1, <2>5, <3>2 DEF PanelInv, PanelOK, LossesFinal
    <3> QED BY <3>1, <3>2
  <2>12. LossesFinal' /\ Quorate'
    BY <1>2, <1>3, <2>4, <2>5, <2>6, QuorateKept DEF PanelInv, PanelOK, LossesFinal
  <2>13. ReportCountsReaders'
    <3>1. panel'.status # "completed" /\ panel'.handoffs = <<>>
      BY <2>2, <2>4, <2>5
    <3> QED BY <3>1 DEF ReportCountsReaders
  <2>14. PanelOK'
    BY <2>7, <2>8, <2>9, <2>10, <2>11, <2>12, <2>13 DEF PanelOK
  <2>15. Onward
    BY <1>2, <1>3, <2>4, <2>5 DEF Onward
  <2>16. Stays
    BY <2>1, <2>4, <2>5 DEF Stays, Frozen, Terminal
  <2> QED BY <1>1, <1>2, <1>3, <2>14, <2>15, <2>16, StepKeeps
<1> QED BY <1>5, <1>6, <1>7

-----------------------------------------------------------------------------
(* Discussion and final ballots.                                            *)
LEMMA FirstByIssueIsOne ==
    ASSUME NEW S \in SUBSET (Nat \X Nat), S # {}
    PROVE  FirstByIssue(S) \in S
<1> DEFINE Seconds == {p[2] : p \in S}
<1>1. PICK i \in Seconds : \A q \in Seconds : i <= q
  <2>1. Seconds \in SUBSET Nat /\ Seconds # {}
    OBVIOUS
  <2> HIDE DEF Seconds
  <2> QED BY <2>1, LeastNumber
<1> DEFINE Firsts == {p[1] : p \in {q \in S : q[2] = i}}
<1>2. PICK r \in Firsts : \A q \in Firsts : r <= q
  <2>1. Firsts \in SUBSET Nat /\ Firsts # {}
    OBVIOUS
  <2> HIDE DEF Firsts
  <2> QED BY <2>1, LeastNumber
<1>3. \A p \in S : p = <<p[1], p[2]>> /\ p[1] \in Nat /\ p[2] \in Nat
  OBVIOUS
<1>4. <<r, i>> \in S
  BY <1>3
<1>5. \A q \in S : i <= q[2] /\ (q[2] = i => r <= q[1])
  BY <1>1, <1>2
<1> HIDE DEF Firsts, Seconds
<1>6. \A q \in S : i < q[2] \/ (i = q[2] /\ r <= q[1])
  BY <1>3, <1>4, <1>5
<1>7. \E p \in S : \A q \in S : p[2] < q[2] \/ (p[2] = q[2] /\ p[1] <= q[1])
  BY <1>4, <1>6
<1> QED BY <1>7 DEF FirstByIssue

LEMMA OnAgendaNumbers ==
    ASSUME NEW i \in OnAgenda
    PROVE  i \in 1 .. AgendaIssues /\ i # 0 /\ Rounds # 0 /\ 1 \in 0 .. Rounds /\ i \in Nat
BY PanelConfig DEF OnAgenda

(* A request between two calls of the discussion.                           *)
LEMMA DiscussStep ==
    ASSUME NEW x \in Request, x.job = "discuss", panel'.initial,
           \/ x.at \in {"close", "finals", "tally"}
           \/ x.at = "turns" /\ x.issue # 0 /\ x.round # 0
    PROVE  x \in Requests'
<1>1. ~Calling(x) /\ x.at \notin {"calling", "quorum", "failed", "cast", "seal"}
  BY DEF Calling
<1> QED BY <1>1 DEF Requests, Fits, GivesUp, Reads, Votes

LEMMA DiscussCall ==
    ASSUME NEW x \in Request, x.job = "discuss", panel'.initial, x.at = "reserve",
           x.work \in Work,
           \/ x.work[1] \in {"discussion_turn", "discussion_summary"} /\ x.issue # 0 /\ x.round # 0
           \/ x.work[1] = "final_ballot"
    PROVE  x \in Requests'
<1>1. x.work[1] \in Phases(x.job) /\ x.work[1] # "initial_ballot"
  BY DEF Phases
<1>2. Fits(x)'
  BY <1>1 DEF Fits, Calling
<1> QED BY <1>1, <1>2 DEF Requests, GivesUp, Reads, Votes

LEMMA StartIssueIsRequest ==
    ASSUME NEW x \in Request, x.job = "discuss", panel'.initial, NEW last
    PROVE  StartIssue(x, last) \in Requests' /\ StartIssue(x, last).at # "calling"
<1> DEFINE left == {i \in x.seen.open : i > last}
<1>1. left \subseteq OnAgenda
  BY DEF Request, Views
<1>2. CASE left = {}
  <2>1. PICK y : y = [x EXCEPT !.at = "close", !.work = NoWork, !.n = 0,
                               !.issue = 0, !.round = 0, !.todo = {}]
    OBVIOUS
  <2>2. StartIssue(x, last) = y
    BY <1>2, <2>1 DEF StartIssue
  <2>3. 0 \in 0 .. Rounds
    BY PanelConfig
  <2>4. y \in Request /\ y.job = "discuss" /\ y.at = "close"
    BY <2>1, <2>3 DEF Request, Steps
  <2> QED BY <2>2, <2>4, DiscussStep
<1>3. CASE left # {}
  <2>1. left \in SUBSET Nat
    BY <1>1, OnAgendaNumbers
  <2>2. PICK i \in OnAgenda : i = First(left)
    BY <1>1, <1>3, <2>1, FirstIsOne
  <2>3. i # 0 /\ 1 \in 0 .. Rounds /\ x.who \subseteq Reader
    BY OnAgendaNumbers DEF Request
  <2>4. PICK y : y = [x EXCEPT !.at = "turns", !.work = NoWork, !.n = 0,
                               !.issue = i, !.round = 1, !.todo = x.who]
    OBVIOUS
  <2>5. StartIssue(x, last) = y
    BY <1>3, <2>2, <2>4 DEF StartIssue
  <2>6. y \in Request /\ y.job = "discuss" /\ y.at = "turns" /\ y.issue = i /\ y.round = 1
    BY <2>3, <2>4 DEF Request, Steps
  <2> QED BY <2>3, <2>5, <2>6, DiscussStep
<1> QED BY <1>2, <1>3

LEMMA NextRoundIsRequest ==
    ASSUME NEW x \in Request, x.job = "discuss", panel'.initial
    PROVE  NextRound(x) \in Requests' /\ NextRound(x).at # "calling"
<1>1. CASE x.round = Rounds \/ x.issue \notin x.seen.open
  BY <1>1, StartIssueIsRequest DEF NextRound
<1>2. CASE ~(x.round = Rounds \/ x.issue \notin x.seen.open)
  <2>1. x.round \in 0 .. Rounds /\ x.issue \in OnAgenda /\ x.who \subseteq Reader
    BY <1>2 DEF Request, Views
  <2>2. PICK k \in 0 .. Rounds : k = x.round + 1 /\ k # 0
    BY <1>2, <2>1, PanelConfig
  <2>3. PICK y : y = [x EXCEPT !.at = "turns", !.work = NoWork, !.n = 0, !.round = k,
                               !.todo = x.who]
    OBVIOUS
  <2>4. NextRound(x) = y
    BY <1>2, <2>2, <2>3 DEF NextRound, Request
  <2>5. /\ y \in Request /\ y.job = "discuss" /\ y.at = "turns" /\ y.issue = x.issue
        /\ y.round = k
    BY <2>1, <2>3 DEF Request, Steps
  <2> QED BY <2>1, <2>2, <2>4, <2>5, DiscussStep, OnAgendaNumbers
<1> QED BY <1>1, <1>2

LEMMA DiscussEnterKeeps ==
    ASSUME PanelInv, NEW w \in Workers, DiscussEnter(w)
    PROVE  PanelInv' /\ Stays
<1>1. attempts' = attempts /\ expired' = expired
  BY DEF DiscussEnter
<1>2. LedgerGrows /\ Begun' = Begun /\ Done' = Done /\ ReadingsKept
  BY <1>1, LedgerRests DEF PanelInv, ReadingsKept
<1>3. panel \in PanelRow /\ panel.issues \in Seq(IssueStatus)
      /\ DOMAIN panel.issues \subseteq Issue
  BY DEF PanelInv, PanelOK, PanelType, PanelRow, IssuesOf
<1> DEFINE refused == \/ panel.status \notin {"initial_ballots_locked", "discussing",
                                              "final_balloting", "final_ballots_locked"}
                      \/ ~panel.initial
                      \/ ~(Completed(panel) \X IssuesOf(panel) \subseteq panel.ballots)
<1>4. CASE refused
  <2>1. PICK y \in Requests : y = Idle /\ y.at = "idle"
    BY FreshIsRequest DEF Idle
  <2> QED BY <1>1, <1>4, <2>1, QuietStep DEF DiscussEnter, Return, Put
<1>5. CASE ~refused
  <2>1. panel' = (IF panel.status = "initial_ballots_locked" THEN OpenDiscussion(panel) ELSE panel)
    BY <1>5 DEF DiscussEnter
  <2>2. PanelOK' /\ Onward /\ Stays /\ panel'.initial
    <3>1. CASE panel.status # "initial_ballots_locked"
      <4>1. panel' = panel
        BY <2>1, <3>1
      <4> QED BY <1>1, <1>5, <4>1, QuietPanel
    <3>2. CASE panel.status = "initial_ballots_locked"
      <4>1. PICK s \in Reached : s = IF Agenda(panel) = {} THEN "final_balloting" ELSE "discussing"
        BY DEF Reached, Status
      <4>2. PICK is : is = [i \in DOMAIN panel.issues |->
                              IF i \in Agenda(panel) THEN "discussing" ELSE "skipped"]
        OBVIOUS
      <4>3. /\ is \in Seq(IssueStatus) /\ DOMAIN is = DOMAIN panel.issues
            /\ \A i \in DOMAIN is : is[i] = "discussing" => i \in Agenda(panel)
        <5>1. Len(panel.issues) \in Nat /\ DOMAIN panel.issues = 1 .. Len(panel.issues)
          BY <1>3
        <5>2. "discussing" \in IssueStatus /\ "skipped" \in IssueStatus
          BY DEF IssueStatus
        <5> QED BY <4>2, <5>1, <5>2, IsASeq
      <4>4. panel' = [panel EXCEPT !.status = s, !.issues = is]
        BY <2>1, <3>2, <4>1, <4>2 DEF OpenDiscussion, IssuesOf
      <4>5. /\ panel' \in PanelRow /\ panel'.readers = panel.readers
            /\ panel'.reported = panel.reported
            /\ panel'.initial = panel.initial /\ panel'.final = panel.final
            /\ panel'.issues = is /\ panel'.reports = panel.reports
            /\ panel'.ballots = panel.ballots /\ panel'.finals = panel.finals
            /\ panel'.messages = panel.messages /\ panel'.handoffs = panel.handoffs
            /\ panel'.status = s /\ panel'.degraded = panel.degraded
        BY <1>3, <4>3, <4>4 DEF PanelRow
      <4>6. ~Over /\ ~panel.final /\ panel.handoffs = <<>> /\ panel.initial
        BY <3>2 DEF Over, Ended, Terminal, PanelInv, PanelOK, PhaseOK
      <4>7. PanelType'
        <5>1. IssuesOf(panel') \subseteq Issue
          BY <1>3, <4>3, <4>5 DEF IssuesOf
        <5>2. OpenIssues(panel') \subseteq Agenda(panel)
          BY <4>3, <4>5 DEF OpenIssues, IssuesOf
        <5>3. Agenda(panel) \subseteq OnAgenda
          <6>1. ASSUME NEW i \in DOMAIN panel.issues, i <= AgendaIssues PROVE i \in 1 .. AgendaIssues
            BY <1>3, <6>1, PanelConfig DEF Issue
          <6> QED BY <6>1 DEF Agenda, OnAgenda, IssuesOf
        <5> QED BY <4>5, <5>1, <5>2, <5>3 DEF PanelType
      <4>8. PhaseOK'
        <5>1. panel'.status \in {"final_balloting", "discussing"} /\ panel'.initial /\ ~panel'.final
              /\ panel'.handoffs = <<>>
          BY <4>1, <4>5, <4>6
        <5>2. panel'.reports # 0 /\ Extraction \in Done'
          BY <1>2, <4>5, <4>6 DEF PanelInv, PanelOK, PhaseOK
        <5> QED BY <5>1, <5>2 DEF PhaseOK
      <4>9. ReportCountsReaders'
        <5>1. panel'.status # "completed" /\ panel'.handoffs = <<>>
          BY <4>1, <4>5, <4>6
        <5> QED BY <5>1 DEF ReportCountsReaders
      <4>10. PanelOK' /\ Onward
        BY <1>1, <1>2, <1>3, <4>3, <4>5, <4>6, <4>7, <4>8, <4>9, RowsKept DEF PanelInv
      <4>11. Stays
        BY <3>2, <4>5, <4>6 DEF Stays, Frozen, Terminal
      <4> QED BY <4>5, <4>6, <4>10, <4>11
    <3> QED BY <3>1, <3>2
  <2>3. PICK seen \in Views : seen = View("discuss", panel')
    <3>1. PICK p \in PanelRow : p = panel' /\ OpenIssues(p) \subseteq OnAgenda
      BY <2>2 DEF PanelOK, PanelType
    <3>2. View("discuss", p) \in Views
      BY <3>1, ViewIsView
    <3> QED BY <3>1, <3>2
  <2>4. PICK who \in SUBSET Reader : who = Completed(panel)
    BY DEF Completed
  <2>5. PICK x : x = [Begin("discuss") EXCEPT !.who = who, !.seen = seen]
    OBVIOUS
  <2>6. x \in Request /\ x.job = "discuss"
    <3>1. Begin("discuss") \in Request /\ Begin("discuss").job = "discuss"
      BY FreshRequest DEF Jobs, Begin, Idle
    <3> QED BY <2>5, <3>1 DEF Request
  <2>7. PICK y \in Requests' : y = StartIssue(x, 0) /\ y.at # "calling"
    BY <2>2, <2>6, StartIssueIsRequest
  <2>8. worker' = [worker EXCEPT ![w] = y]
    BY <1>5, <2>3, <2>4, <2>5, <2>7 DEF DiscussEnter, Put
  <2> QED BY <1>1, <1>2, <2>2, <2>7, <2>8, StepKeeps
<1> QED BY <1>4, <1>5

(* What a request at the turns of a round knows.                            *)
LEMMA AtTurns ==
    ASSUME NEW x \in Requests, x.at = "turns"
    PROVE  /\ x \in Request /\ x.job = "discuss" /\ panel.initial
           /\ x.issue # 0 /\ x.round # 0
           /\ x.issue \in 1 .. AgendaIssues /\ x.round \in 1 .. Rounds
           /\ x.who \subseteq Reader /\ x.todo \subseteq Reader
<1>1. /\ x \in Request /\ x.job = "discuss" /\ panel.initial /\ x.issue # 0 /\ x.round # 0
  BY DEF Requests, Fits
<1>2. x.issue \in OnAgenda /\ x.round \in 0 .. Rounds
      /\ x.who \subseteq Reader /\ x.todo \subseteq Reader
  BY <1>1 DEF Request
<1>3. x.round \in 1 .. Rounds
  BY <1>1, <1>2, PanelConfig
<1> QED BY <1>1, <1>2, <1>3, OnAgendaNumbers

LEMMA TakeTurnKeeps ==
    ASSUME PanelInv, NEW w \in Workers, TakeTurn(w)
    PROVE  PanelInv' /\ Stays
<1>1. PICK x \in Requests : x = worker[w] /\ x.at = "turns" /\ x.todo # {}
  BY AtSteps DEF PanelInv, TakeTurn, At
<1>2. /\ x \in Request /\ x.job = "discuss" /\ panel.initial /\ x.issue # 0 /\ x.round # 0
      /\ x.issue \in 1 .. AgendaIssues /\ x.round \in 1 .. Rounds
      /\ x.who \subseteq Reader /\ x.todo \subseteq Reader
  BY <1>1, AtTurns
<1>3. UNCHANGED <<panel, attempts, expired>> /\ panel'.initial
  BY <1>2 DEF TakeTurn
<1>4. PICK r \in Reader : r = First(x.todo)
  <2>1. x.todo \in SUBSET Nat
    BY <1>2, PanelConfig DEF Reader
  <2> QED BY <1>1, <1>2, <2>1, FirstIsOne
<1>5. CASE worker' = [worker EXCEPT ![w] = Idle]
  <2>1. PICK y \in Requests : y = Idle /\ y.at = "idle"
    BY FreshIsRequest DEF Idle
  <2> QED BY <1>3, <1>5, <2>1, QuietStep
<1>6. CASE worker' = [worker EXCEPT ![w] = [x EXCEPT !.todo = @ \ {r}]]
  <2>1. PICK y : y = [x EXCEPT !.todo = @ \ {r}]
    OBVIOUS
  <2>2. /\ y \in Request /\ y.job = "discuss" /\ y.at = "turns" /\ y.issue # 0 /\ y.round # 0
    BY <1>1, <1>2, <2>1 DEF Request
  <2>3. y \in Requests'
    BY <1>3, <2>2, DiscussStep
  <2> QED BY <1>3, <1>6, <2>1, <2>2, <2>3, QuietStep
<1>7. CASE worker' = [worker EXCEPT ![w] =
                        [x EXCEPT !.at = "reserve", !.work = Turn(x.issue, x.round, r)]]
  <2>1. PICK k \in Work : k = Turn(x.issue, x.round, r) /\ k[1] = "discussion_turn"
    <3>1. Turn(x.issue, x.round, r) \in Work
      BY <1>2 DEF Work
    <3> QED BY <3>1 DEF Turn
  <2>2. PICK y : y = [x EXCEPT !.at = "reserve", !.work = k]
    OBVIOUS
  <2>3. /\ y \in Request /\ y.job = "discuss" /\ y.at = "reserve" /\ y.issue # 0 /\ y.round # 0
        /\ y.work = k
    BY <1>2, <2>2 DEF Request, Steps
  <2>4. y \in Requests'
    BY <1>3, <2>1, <2>3, DiscussCall
  <2> QED BY <1>3, <1>7, <2>1, <2>2, <2>3, <2>4, QuietStep
<1>8. \/ worker' = [worker EXCEPT ![w] = Idle]
      \/ worker' = [worker EXCEPT ![w] = [x EXCEPT !.todo = @ \ {r}]]
      \/ worker' = [worker EXCEPT ![w] =
                      [x EXCEPT !.at = "reserve", !.work = Turn(x.issue, x.round, r)]]
  BY <1>1, <1>4 DEF TakeTurn, Put
<1> QED BY <1>5, <1>6, <1>7, <1>8

LEMMA SumUpKeeps ==
    ASSUME PanelInv, NEW w \in Workers, SumUp(w)
    PROVE  PanelInv' /\ Stays
<1>1. PICK x \in Requests : x = worker[w] /\ x.at = "turns"
  BY AtSteps DEF PanelInv, SumUp, At
<1>2. /\ x \in Request /\ x.job = "discuss" /\ panel.initial /\ x.issue # 0 /\ x.round # 0
      /\ x.issue \in 1 .. AgendaIssues /\ x.round \in 1 .. Rounds
  BY <1>1, AtTurns
<1>3. UNCHANGED <<panel, attempts, expired>> /\ panel'.initial
  BY <1>2 DEF SumUp
<1>4. CASE worker' = [worker EXCEPT ![w] = Idle]
  <2>1. PICK y \in Requests : y = Idle /\ y.at = "idle"
    BY FreshIsRequest DEF Idle
  <2> QED BY <1>3, <1>4, <2>1, QuietStep
<1>5. CASE worker' = [worker EXCEPT ![w] = StartIssue(x, x.issue)]
  <2>1. PICK y \in Requests' : y = StartIssue(x, x.issue) /\ y.at # "calling"
    BY <1>2, <1>3, StartIssueIsRequest
  <2> QED BY <1>3, <1>5, <2>1, QuietStep
<1>6. CASE worker' = [worker EXCEPT ![w] = NextRound(x)]
  <2>1. PICK y \in Requests' : y = NextRound(x) /\ y.at # "calling"
    BY <1>2, <1>3, NextRoundIsRequest
  <2> QED BY <1>3, <1>6, <2>1, QuietStep
<1>7. CASE worker' = [worker EXCEPT ![w] =
                        [x EXCEPT !.at = "reserve", !.work = Summary(x.issue, x.round)]]
  <2>1. PICK k \in Work : k = Summary(x.issue, x.round) /\ k[1] = "discussion_summary"
    <3>1. Summary(x.issue, x.round) \in Work
      BY <1>2 DEF Work
    <3> QED BY <3>1 DEF Summary
  <2>2. PICK y : y = [x EXCEPT !.at = "reserve", !.work = k]
    OBVIOUS
  <2>3. /\ y \in Request /\ y.job = "discuss" /\ y.at = "reserve" /\ y.issue # 0 /\ y.round # 0
        /\ y.work = k
    BY <1>2, <2>2 DEF Request, Steps
  <2>4. y \in Requests'
    BY <1>3, <2>1, <2>3, DiscussCall
  <2> QED BY <1>3, <1>7, <2>1, <2>2, <2>3, <2>4, QuietStep
<1>8. \/ worker' = [worker EXCEPT ![w] = Idle]
      \/ worker' = [worker EXCEPT ![w] = StartIssue(x, x.issue)]
      \/ worker' = [worker EXCEPT ![w] = NextRound(x)]
      \/ worker' = [worker EXCEPT ![w] =
                      [x EXCEPT !.at = "reserve", !.work = Summary(x.issue, x.round)]]
  BY <1>1 DEF SumUp, Put
<1> QED BY <1>4, <1>5, <1>6, <1>7, <1>8

(* What is said on an issue, and that it is closed, touches nothing else.   *)
LEMMA SpeechKept ==
    ASSUME PanelOK, panel.status \notin Terminal, panel.initial,
           NEW m \in SUBSET (Nat \X Nat \X (Reader \cup {Moderator})),
           NEW is \in Seq(IssueStatus), DOMAIN is = DOMAIN panel.issues,
           \A i \in DOMAIN is : is[i] = "discussing" => panel.issues[i] = "discussing",
           panel' = [panel EXCEPT !.messages = m, !.issues = is],
           LedgerGrows, Begun' = Begun, ReadingsKept, expired' = expired
    PROVE  PanelOK' /\ Onward /\ Stays
<1>1. panel \in PanelRow
  BY DEF PanelOK, PanelType
<1>2. /\ panel' \in PanelRow /\ panel'.readers = panel.readers
      /\ panel'.reported = panel.reported
      /\ panel'.initial = panel.initial /\ panel'.final = panel.final
      /\ panel'.issues = is /\ panel'.reports = panel.reports
      /\ panel'.ballots = panel.ballots /\ panel'.finals = panel.finals
      /\ panel'.messages = m /\ panel'.handoffs = panel.handoffs
      /\ panel'.status = panel.status /\ panel'.degraded = panel.degraded
  BY <1>1 DEF PanelRow
<1>3. Over => Over'
  BY <1>2 DEF Over
<1>4. PanelType'
  BY <1>2 DEF PanelOK, PanelType, IssuesOf, OpenIssues
<1>5. PhaseOK'
  <2>1. PhaseOK /\ Done \subseteq Done'
    BY DEF PanelOK, LedgerGrows
  <2> QED BY <1>2, <2>1 DEF PhaseOK
<1>6. ReportCountsReaders'
  BY <1>2, ReportKept DEF PanelOK
<1>7. PanelOK' /\ Onward
  BY <1>1, <1>2, <1>3, <1>4, <1>5, <1>6, RowsKept
<1>8. Stays
  BY <1>2 DEF Stays, Frozen
<1> QED BY <1>7, <1>8

LEMMA TurnSavedKeeps ==
    ASSUME PanelInv, NEW w \in Workers, TurnSaved(w)
    PROVE  PanelInv' /\ Stays
<1>1. PICK x \in Requests : /\ x = worker[w] /\ x \in Request /\ x.at = "calling" /\ Calling(x)
                            /\ x.job = "discuss" /\ x.work[1] = "discussion_turn"
  BY AtSteps DEF PanelInv, TurnSaved, Answered, At, On, Calling
<1>2. PICK r \in Reader : r = x.work[4]
  BY <1>1, JobOfCall, WorkOfPhase
<1>3. /\ panel.initial /\ x.issue # 0 /\ x.round # 0
      /\ x.issue \in OnAgenda \cup {0} /\ x.round \in 0 .. Rounds /\ x.todo \subseteq Reader
  BY <1>1 DEF Requests, Fits, Request
<1>4. /\ At(w, "calling") /\ Pending(w) /\ panel.status \notin Terminal
      /\ expired' = expired
      /\ attempts' = Settled(w, "succeeded") /\ "succeeded" \in CallStatus \ {"started"}
  BY DEF TurnSaved, Answered, Deliver, CallStatus
<1>5. LedgerGrows /\ Begun' = Begun /\ ReadingsKept
  BY <1>1, <1>4, SettledCall
<1>6. panel \in PanelRow /\ panel.issues \in Seq(IssueStatus)
      /\ panel.messages \in SUBSET (Nat \X Nat \X (Reader \cup {Moderator}))
  BY DEF PanelInv, PanelOK, PanelType, PanelRow
<1>7. x.issue \in Nat /\ x.round \in Nat
  BY <1>3, OnAgendaNumbers
<1>8. panel' = panel \/ panel' = [panel EXCEPT !.messages = @ \cup {<<x.issue, x.round, r>>}]
  BY <1>1, <1>2 DEF TurnSaved, Said
<1>9. PanelOK' /\ Onward /\ Stays
  <2>1. CASE panel' = panel
    BY <1>4, <1>5, <2>1, PanelRests, ResultsRest DEF PanelInv, PanelOK
  <2>2. CASE panel' = [panel EXCEPT !.messages = @ \cup {<<x.issue, x.round, r>>}]
    <3>1. PICK m \in SUBSET (Nat \X Nat \X (Reader \cup {Moderator})) :
            m = panel.messages \cup {<<x.issue, x.round, r>>}
      <4>1. <<x.issue, x.round, r>> \in Nat \X Nat \X (Reader \cup {Moderator})
        BY <1>7
      <4> QED BY <1>6, <4>1
    <3>2. panel' = [panel EXCEPT !.messages = m, !.issues = panel.issues]
      BY <1>6, <2>2, <3>1 DEF PanelRow
    <3> QED BY <1>3, <1>4, <1>5, <1>6, <3>2, SpeechKept DEF PanelInv
  <2> QED BY <1>8, <2>1, <2>2
<1>10. PICK y : y = [x EXCEPT !.at = "turns", !.work = NoWork, !.n = 0, !.todo = @ \ {r}]
  OBVIOUS
<1>11. /\ y \in Request /\ y.job = "discuss" /\ y.at = "turns" /\ y.issue # 0 /\ y.round # 0
  BY <1>1, <1>3, <1>10 DEF Request, Steps
<1>12. y \in Requests'
  BY <1>3, <1>9, <1>11, DiscussStep DEF Onward
<1>13. worker' = [worker EXCEPT ![w] = y]
  BY <1>1, <1>2, <1>10 DEF TurnSaved, Put
<1> QED BY <1>4, <1>5, <1>9, <1>11, <1>12, <1>13, StepKeeps

LEMMA SummarySavedKeeps ==
    ASSUME PanelInv, NEW w \in Workers, SummarySaved(w)
    PROVE  PanelInv' /\ Stays
<1>1. PICK x \in Requests : /\ x = worker[w] /\ x \in Request /\ x.at = "calling" /\ Calling(x)
                            /\ x.job = "discuss" /\ x.work[1] = "discussion_summary"
  BY AtSteps DEF PanelInv, SummarySaved, Answered, At, On, Calling
<1>2. PICK i \in OnAgenda : i = x.issue
  BY <1>1 DEF Requests, Fits, Request
<1>3. /\ panel.initial /\ x.round \in Nat /\ x.seen \in Views
  BY <1>1 DEF Requests, Fits, Request
<1>4. /\ At(w, "calling") /\ Pending(w) /\ panel.status \notin Terminal
      /\ expired' = expired
      /\ attempts' = Settled(w, "succeeded") /\ "succeeded" \in CallStatus \ {"started"}
  BY DEF SummarySaved, Answered, Deliver, CallStatus
<1>5. LedgerGrows /\ Begun' = Begun /\ ReadingsKept
  BY <1>1, <1>4, SettledCall
<1>6. panel \in PanelRow /\ panel.issues \in Seq(IssueStatus)
      /\ panel.messages \in SUBSET (Nat \X Nat \X (Reader \cup {Moderator}))
  BY DEF PanelInv, PanelOK, PanelType, PanelRow
<1>7. PICK stop \in BOOLEAN :
        LET said == ~NotNow(w) /\ Said(w, Moderator) \notin panel.messages
            closed == said /\ stop
            rec == [x EXCEPT !.seen.open = IF closed THEN @ \ {i} ELSE @]
        IN
        /\ panel' = [panel EXCEPT !.messages = IF said THEN @ \cup {Said(w, Moderator)} ELSE @,
                                  !.issues = IF closed THEN [@ EXCEPT ![i] = "closed"] ELSE @]
        /\ Put(w, IF stop THEN StartIssue(rec, i) ELSE NextRound(rec))
  BY <1>1, <1>2 DEF SummarySaved
<1>8. PICK said \in BOOLEAN : said = (~NotNow(w) /\ Said(w, Moderator) \notin panel.messages)
  OBVIOUS
<1>9. PICK closed \in BOOLEAN : closed = (said /\ stop)
  OBVIOUS
<1>10. PICK m \in SUBSET (Nat \X Nat \X (Reader \cup {Moderator})) :
         m = IF said THEN panel.messages \cup {Said(w, Moderator)} ELSE panel.messages
  <2>1. Said(w, Moderator) \in Nat \X Nat \X (Reader \cup {Moderator})
    BY <1>1, <1>2, <1>3, OnAgendaNumbers DEF Said
  <2> QED BY <1>6, <2>1
<1>11. PICK is : is = IF closed THEN [panel.issues EXCEPT ![i] = "closed"] ELSE panel.issues
  OBVIOUS
<1>12. /\ is \in Seq(IssueStatus) /\ DOMAIN is = DOMAIN panel.issues
       /\ \A j \in DOMAIN is : is[j] = "discussing" => panel.issues[j] = "discussing"
  <2>1. PICK n \in Nat : DOMAIN panel.issues = 1 .. n
    BY <1>6
  <2>2. \A j \in 1 .. n : panel.issues[j] \in IssueStatus
    BY <1>6, <2>1
  <2>3. "closed" \in IssueStatus
    BY DEF IssueStatus
  <2>4. CASE closed
    <3>1. is = [j \in 1 .. n |-> IF j = i THEN "closed" ELSE panel.issues[j]]
      BY <1>6, <1>11, <2>1, <2>4
    <3>2. is \in Seq(IssueStatus) /\ DOMAIN is = 1 .. n
      BY <2>2, <2>3, <3>1, IsASeq
    <3> QED BY <2>1, <3>1, <3>2
  <2>5. CASE ~closed
    BY <1>6, <1>11, <2>5
  <2> QED BY <2>4, <2>5
<1>13. panel' = [panel EXCEPT !.messages = m, !.issues = is]
  BY <1>6, <1>7, <1>8, <1>9, <1>10, <1>11 DEF PanelRow
<1>14. PanelOK' /\ Onward /\ Stays
  BY <1>3, <1>4, <1>5, <1>12, <1>13, SpeechKept DEF PanelInv
<1>15. PICK z : z = [x EXCEPT !.seen.open = IF closed THEN @ \ {i} ELSE @]
  OBVIOUS
<1>16. z \in Request /\ z.job = "discuss"
  <2>1. PICK seen : seen = [x.seen EXCEPT !.open = IF closed THEN @ \ {i} ELSE @]
    OBVIOUS
  <2>2. seen \in Views
    BY <1>3, <2>1 DEF Views
  <2>3. z = [x EXCEPT !.seen = seen]
    BY <1>1, <1>15, <2>1 DEF Request
  <2> QED BY <1>1, <2>2, <2>3 DEF Request
<1>17. PICK y \in Requests' : y = (IF stop THEN StartIssue(z, i) ELSE NextRound(z))
                              /\ y.at # "calling"
  <2>1. panel'.initial
    BY <1>3, <1>14 DEF Onward
  <2> QED BY <1>16, <2>1, StartIssueIsRequest, NextRoundIsRequest
<1>18. worker' = [worker EXCEPT ![w] = y]
  BY <1>7, <1>8, <1>9, <1>15, <1>17 DEF Put
<1> QED BY <1>4, <1>5, <1>14, <1>17, <1>18, StepKeeps

LEMMA SummaryFailedKeeps ==
    ASSUME PanelInv, NEW w \in Workers, SummaryFailed(w)
    PROVE  PanelInv' /\ Stays
<1>1. PICK y \in Requests : y = Idle /\ y.at = "idle"
  BY FreshIsRequest DEF Idle
<1>2. worker' = [worker EXCEPT ![w] = y]
      /\ expired' = expired /\ SettleNow("failed")
  BY <1>1 DEF SummaryFailed, Return, Put
<1>3. /\ PanelOK' /\ Onward /\ Stays /\ panel'.status \in Terminal
      /\ attempts' = CancelStarted(attempts)
  BY <1>2, SettleKeeps DEF PanelInv
<1> QED BY <1>1, <1>2, <1>3, StepKeeps DEF Onward

LEMMA ReaderFailedKeeps ==
    ASSUME PanelInv, NEW w \in Workers, ReaderFailed(w)
    PROVE  PanelInv' /\ Stays
<1>1. PICK x \in Requests : /\ x = worker[w] /\ x \in Request /\ x.at = "failed" /\ Calling(x)
                            /\ x.work[1] \in {"discussion_turn", "final_ballot"}
  BY AtSteps DEF PanelInv, ReaderFailed, At, Calling
<1>2. x.work \in Work /\ x.job = "discuss"
  BY <1>1, JobOfCall
<1>3. PICK r \in Reader : r = x.work[4]
  BY <1>1, <1>2, WorkOfPhase
<1>4. panel.initial
  BY <1>1, <1>2 DEF Requests, Fits
<1>5. EliminateNow(r) /\ expired' = expired
      /\ (IF TooFewWithout(panel, r) THEN Return(w) ELSE Put(w, Begin("discuss")))
  BY <1>1, <1>3 DEF ReaderFailed
<1>6. /\ PanelOK' /\ Onward /\ Stays
      /\ \/ attempts' = attempts
         \/ attempts' = CancelStarted(attempts) /\ panel'.status \in Terminal
  BY <1>4, <1>5, EliminateKeeps DEF PanelInv
<1>7. PICK y \in Requests :
        worker' = [worker EXCEPT ![w] = y] /\ (y.at = "idle" \/ y.at = "enter")
  <2>1. "discuss" \in Jobs /\ Begin("discuss").at = "enter" /\ Idle.at = "idle"
    BY DEF Jobs, Begin, Idle
  <2> QED BY <1>5, <2>1, FreshIsRequest DEF Return, Put
<1> QED BY <1>6, <1>7, StepKeeps DEF Onward

(* Only the status is written.                                              *)
LEMMA StatusKept ==
    ASSUME PanelOK, NEW s \in Reached, panel' = [panel EXCEPT !.status = s],
           LedgerGrows, Begun' = Begun, ReadingsKept,
           expired' = expired, ~Over, s # "completed", PhaseOK'
    PROVE  PanelOK' /\ Onward /\ Stays
<1>1. panel \in PanelRow
  BY DEF PanelOK, PanelType
<1>2. panel.ended \in BOOLEAN /\ panel.degraded \in BOOLEAN
  BY <1>1 DEF PanelRow
<1>3. panel' = [panel EXCEPT !.status = s, !.ended = panel.ended, !.degraded = panel.degraded]
  BY <1>1 DEF PanelRow
<1> QED BY <1>1, <1>2, <1>3, StatusOnly

LEMMA CloseKeeps ==
    ASSUME PanelInv, NEW w \in Workers, Close(w)
    PROVE  PanelInv' /\ Stays
<1>1. PICK x \in Requests : /\ x = worker[w] /\ x \in Request /\ x.at = "close"
                            /\ x.job = "discuss" /\ panel.initial /\ x.who \subseteq Reader
  BY AtSteps DEF PanelInv, Close, At, Requests, Fits, Request
<1>2. panel \in PanelRow /\ panel.status \in Reached /\ attempts' = attempts
      /\ expired' = expired
  BY DEF PanelInv, PanelOK, PanelType, PanelRow, Close
<1>3. LedgerGrows /\ Begun' = Begun /\ Done' = Done /\ ReadingsKept
  BY <1>2, LedgerRests DEF PanelInv, ReadingsKept
<1>4. PICK s : s = IF panel.status = "discussing" /\ x.seen.open \cap Agenda(panel) = {}
                   THEN "final_balloting" ELSE panel.status
  OBVIOUS
<1>5. /\ panel' = [panel EXCEPT !.status = s]
      /\ worker' = [worker EXCEPT ![w] =
                      IF s = "final_balloting"
                      THEN [x EXCEPT !.at = "finals", !.votes = x.who \X IssuesOf(panel)]
                      ELSE [x EXCEPT !.at = "tally"]]
  BY <1>1, <1>4 DEF Close, Put
<1>6. PanelOK' /\ Onward /\ Stays
  <2>1. CASE s = panel.status
    <3>1. panel' = panel
      BY <1>2, <1>5, <2>1 DEF PanelRow
    <3> QED BY <1>2, <3>1, QuietPanel
  <2>2. CASE s # panel.status
    <3>1. s = "final_balloting" /\ panel.status = "discussing" /\ s \in Reached
      BY <1>4, <2>2 DEF Reached, Status
    <3>2. ~Over /\ ~panel.final /\ panel.handoffs = <<>>
      BY <3>1 DEF Over, Ended, Terminal, PanelInv, PanelOK, PhaseOK
    <3>3. /\ panel'.status = "final_balloting" /\ panel'.initial /\ ~panel'.final
          /\ panel'.handoffs = <<>> /\ panel'.reports = panel.reports
      BY <1>1, <1>2, <1>5, <3>1, <3>2 DEF PanelRow
    <3>4. panel.reports # 0 /\ Extraction \in Done'
      BY <1>1, <1>3 DEF PanelInv, PanelOK, PhaseOK
    <3>5. PhaseOK'
      BY <3>3, <3>4 DEF PhaseOK
    <3> QED BY <1>2, <1>3, <1>5, <3>1, <3>2, <3>5, StatusKept DEF PanelInv
  <2> QED BY <2>1, <2>2
<1>7. PICK votes \in SUBSET Pairs : votes = x.who \X IssuesOf(panel)
  BY <1>1 DEF Pairs, PanelInv, PanelOK, PanelType
<1>8. PICK y : y = IF s = "final_balloting" THEN [x EXCEPT !.at = "finals", !.votes = votes]
                   ELSE [x EXCEPT !.at = "tally"]
  OBVIOUS
<1>9. y \in Request /\ y.job = "discuss" /\ y.at \in {"finals", "tally"}
  <2>1. CASE s = "final_balloting"
    BY <1>1, <1>8, <2>1 DEF Request, Steps
  <2>2. CASE s # "final_balloting"
    BY <1>1, <1>8, <2>2 DEF Request, Steps
  <2> QED BY <2>1, <2>2
<1>10. y \in Requests'
  BY <1>1, <1>6, <1>9, DiscussStep DEF Onward
<1> QED BY <1>2, <1>3, <1>5, <1>6, <1>7, <1>8, <1>9, <1>10, StepKeeps

LEMMA AtFinals ==
    ASSUME NEW x \in Requests, x.at \in {"finals", "tally"}
    PROVE  x \in Request /\ x.job = "discuss" /\ panel.initial /\ x.votes \subseteq Pairs
BY DEF Requests, Fits, Request

LEMMA TakeFinalKeeps ==
    ASSUME PanelInv, NEW w \in Workers, TakeFinal(w)
    PROVE  PanelInv' /\ Stays
<1>1. PICK x \in Requests : x = worker[w] /\ x.at = "finals"
  BY AtSteps DEF PanelInv, TakeFinal, At
<1>2. x \in Request /\ x.job = "discuss" /\ panel.initial /\ x.votes \subseteq Pairs
  BY <1>1, AtFinals
<1>3. UNCHANGED <<panel, attempts, expired>> /\ panel'.initial
  BY <1>2 DEF TakeFinal
<1>4. CASE x.votes = {}
  <2>1. PICK y : y = [x EXCEPT !.at = "tally"]
    OBVIOUS
  <2>2. y \in Request /\ y.job = "discuss" /\ y.at = "tally"
    BY <1>2, <2>1 DEF Request, Steps
  <2>3. y \in Requests' /\ worker' = [worker EXCEPT ![w] = y]
    BY <1>1, <1>3, <1>4, <2>1, <2>2, DiscussStep DEF TakeFinal, Put
  <2> QED BY <1>3, <2>2, <2>3, QuietStep
<1>5. CASE x.votes # {}
  <2>1. PICK p \in Pairs : p = FirstByIssue(x.votes)
    <3>1. x.votes \in SUBSET (Nat \X Nat)
      BY <1>2, PanelConfig DEF Pairs, Reader, Issue
    <3> QED BY <1>2, <1>5, <3>1, FirstByIssueIsOne
  <2>2. CASE FinalClosed(w, p)
    <3>1. PICK y : y = [x EXCEPT !.votes = @ \ {p}]
      OBVIOUS
    <3>2. y \in Request /\ y.job = "discuss" /\ y.at = "finals"
      BY <1>1, <1>2, <3>1 DEF Request
    <3>3. y \in Requests' /\ worker' = [worker EXCEPT ![w] = y]
      BY <1>1, <1>3, <1>5, <2>1, <2>2, <3>1, <3>2, DiscussStep DEF TakeFinal, Put
    <3> QED BY <1>3, <3>2, <3>3, QuietStep
  <2>3. CASE ~FinalClosed(w, p)
    <3>1. PICK k \in Work : k = Final(p) /\ k[1] = "final_ballot"
      BY WorkShape
    <3>2. PICK y : y = [x EXCEPT !.at = "reserve", !.work = k]
      OBVIOUS
    <3>3. y \in Request /\ y.job = "discuss" /\ y.at = "reserve" /\ y.work = k
      BY <1>2, <3>2 DEF Request, Steps
    <3>4. y \in Requests'
      BY <1>3, <3>1, <3>3, DiscussCall
    <3>5. worker' = [worker EXCEPT ![w] = y]
      BY <1>1, <1>5, <2>1, <2>3, <3>1, <3>2 DEF TakeFinal, Put
    <3> QED BY <1>3, <3>3, <3>4, <3>5, QuietStep
  <2> QED BY <2>2, <2>3
<1> QED BY <1>4, <1>5

LEMMA FinalSavedKeeps ==
    ASSUME PanelInv, NEW w \in Workers, FinalSaved(w)
    PROVE  PanelInv' /\ Stays
<1>1. PICK x \in Requests : /\ x = worker[w] /\ x \in Request /\ x.at = "calling" /\ Calling(x)
                            /\ x.job = "discuss" /\ x.work[1] = "final_ballot"
  BY AtSteps DEF PanelInv, FinalSaved, Answered, At, On, Calling
<1>2. PICK p \in Pairs : p = <<x.work[4], x.work[2]>>
  BY <1>1, JobOfCall, WorkOfPhase
<1>3. panel.initial /\ x.votes \subseteq Pairs
  BY <1>1 DEF Requests, Fits, Request
<1>4. /\ At(w, "calling") /\ Pending(w) /\ panel.status \notin Terminal
      /\ expired' = expired
      /\ attempts' = Settled(w, "succeeded") /\ "succeeded" \in CallStatus \ {"started"}
  BY DEF FinalSaved, Answered, Deliver, CallStatus
<1>5. LedgerGrows /\ Begun' = Begun /\ ReadingsKept
  BY <1>1, <1>4, SettledCall
<1>6. panel \in PanelRow /\ panel.finals \subseteq Pairs
  BY DEF PanelInv, PanelOK, PanelType, PanelRow
<1>7. PanelOK' /\ Onward /\ Stays
  <2>1. CASE panel' = panel
    BY <1>4, <1>5, <1>6, <2>1, PanelRests, ResultsRest DEF PanelInv
  <2>2. CASE panel' # panel
    <3>1. panel.status = "final_balloting" /\ panel' = [panel EXCEPT !.finals = @ \cup {p}]
      BY <1>1, <1>2, <2>2 DEF FinalSaved, PairAt, FinalClosed
    <3>2. ~panel.final /\ panel.handoffs = <<>>
      BY <3>1 DEF PanelInv, PanelOK, PhaseOK, Ended, Terminal
    <3>3. PICK fs \in SUBSET Pairs : fs = panel.finals \cup {p}
      BY <1>6
    <3>4. panel' = [panel EXCEPT !.finals = fs]
      BY <1>6, <3>1, <3>3 DEF PanelRow
    <3>5. /\ panel' \in PanelRow /\ panel'.readers = panel.readers
          /\ panel'.reported = panel.reported
          /\ panel'.initial = panel.initial /\ panel'.final = panel.final
          /\ panel'.issues = panel.issues /\ panel'.reports = panel.reports
          /\ panel'.ballots = panel.ballots /\ panel'.messages = panel.messages
          /\ panel'.handoffs = panel.handoffs
          /\ panel'.status = panel.status /\ panel'.degraded = panel.degraded
      BY <1>6, <3>4 DEF PanelRow
    <3>6. PanelType'
      BY <3>5 DEF PanelInv, PanelOK, PanelType, IssuesOf, OpenIssues
    <3>7. PhaseOK' /\ (Over' <=> Over)
      BY <1>5, <3>5 DEF PanelInv, PanelOK, PhaseOK, Over, LedgerGrows
    <3>8. ReportCountsReaders'
      BY <1>5, <3>2, <3>5, ReportKept DEF PanelInv, PanelOK
    <3>9. PanelOK' /\ Onward
      BY <1>4, <1>5, <1>6, <3>5, <3>6, <3>7, <3>8, RowsKept DEF PanelInv
    <3>10. Stays
      BY <1>4, <3>2, <3>5 DEF Stays, Frozen
    <3> QED BY <3>9, <3>10
  <2> QED BY <2>1, <2>2
<1>8. PICK y : y = [x EXCEPT !.at = "finals", !.work = NoWork, !.n = 0, !.votes = @ \ {p}]
  OBVIOUS
<1>9. y \in Request /\ y.job = "discuss" /\ y.at = "finals"
  BY <1>1, <1>3, <1>8 DEF Request, Steps
<1>10. y \in Requests'
  BY <1>3, <1>7, <1>9, DiscussStep DEF Onward
<1>11. worker' = [worker EXCEPT ![w] = y]
  BY <1>1, <1>2, <1>8 DEF FinalSaved, Put, PairAt
<1> QED BY <1>4, <1>5, <1>7, <1>9, <1>10, <1>11, StepKeeps

LEMMA TallyKeeps ==
    ASSUME PanelInv, NEW w \in Workers, Tally(w)
    PROVE  PanelInv' /\ Stays
<1>1. PICK x \in Requests : x = worker[w] /\ x.at = "tally" /\ panel.initial
  BY AtSteps, AtFinals DEF PanelInv, Tally, At
<1>2. PICK y \in Requests : y = Idle /\ y.at = "idle"
  BY FreshIsRequest DEF Idle
<1>3. worker' = [worker EXCEPT ![w] = y]
      /\ expired' = expired /\ attempts' = attempts
  BY <1>2 DEF Tally, Return, Put
<1>4. LedgerGrows /\ Begun' = Begun /\ Done' = Done /\ ReadingsKept
  BY <1>3, LedgerRests DEF PanelInv, ReadingsKept
<1>5. CASE panel' = panel
  BY <1>2, <1>3, <1>5, QuietStep
<1>6. CASE panel' # panel
  <2>1. panel.status = "final_balloting" /\ ~panel.final
        /\ panel' = [panel EXCEPT !.status = "final_ballots_locked", !.final = TRUE]
    BY <1>6 DEF Tally
  <2>2. panel \in PanelRow
    BY DEF PanelInv, PanelOK, PanelType
  <2>3. PICK s \in Reached : s = "final_ballots_locked"
    BY DEF Reached, Status
  <2>4. panel' = [panel EXCEPT !.status = s, !.final = TRUE]
    BY <2>1, <2>3
  <2>5. /\ panel' \in PanelRow /\ panel'.readers = panel.readers
        /\ panel'.reported = panel.reported
        /\ panel'.initial = panel.initial /\ panel'.final = TRUE
        /\ panel'.issues = panel.issues /\ panel'.reports = panel.reports
        /\ panel'.ballots = panel.ballots /\ panel'.finals = panel.finals
        /\ panel'.messages = panel.messages /\ panel'.handoffs = panel.handoffs
        /\ panel'.status = s /\ panel'.degraded = panel.degraded
    BY <2>2, <2>4 DEF PanelRow
  <2>6. ~Over /\ panel.handoffs = <<>>
    BY <2>1 DEF Over, Ended, Terminal, PanelInv, PanelOK, PhaseOK
  <2>7. PanelType'
    BY <2>5 DEF PanelInv, PanelOK, PanelType, IssuesOf, OpenIssues
  <2>8. PhaseOK'
    <3>1. panel'.status = "final_ballots_locked" /\ panel'.initial /\ panel'.handoffs = <<>>
      BY <1>1, <2>3, <2>5, <2>6
    <3>2. panel'.reports # 0 /\ Extraction \in Done'
      BY <1>1, <1>4, <2>5 DEF PanelInv, PanelOK, PhaseOK
    <3> QED BY <3>1, <3>2 DEF PhaseOK
  <2>9. ReportCountsReaders'
    <3>1. panel'.status # "completed"
      BY <2>3, <2>5
    <3> QED BY <1>4, <2>5, <3>1, ReportKept DEF PanelInv, PanelOK
  <2>10. PanelOK' /\ Onward
    BY <1>3, <1>4, <2>2, <2>5, <2>6, <2>7, <2>8, <2>9, RowsKept DEF PanelInv
  <2>11. Stays
    BY <2>1, <2>5 DEF Stays, Frozen, Terminal
  <2> QED BY <1>2, <1>3, <1>4, <2>10, <2>11, StepKeeps
<1> QED BY <1>5, <1>6

(* What the report is written from.                                         *)
LEMMA ReportableRows ==
    ASSUME PanelOK, Reportable(panel), panel.status \notin Terminal \/ panel.handoffs = <<>>
    PROVE  /\ panel.status \in {"final_ballots_locked", "report_generating"}
           /\ panel.final /\ panel.initial /\ ~Over
           /\ panel.reports # 0 /\ Extraction \in Done
           /\ panel.finals = Completed(panel) \X IssuesOf(panel)
<1>1. panel.status \in {"final_ballots_locked", "report_generating", "completed", "degraded_completed"}
      /\ panel.final /\ panel.finals = Completed(panel) \X IssuesOf(panel)
  BY DEF Reportable
<1>2. panel.status \notin {"completed", "degraded_completed"}
  BY DEF PanelOK, PhaseOK, Terminal
<1>3. panel.initial /\ panel.reports # 0 /\ Extraction \in Done
  BY <1>1 DEF PanelOK, PhaseOK
<1>4. ~Over
  BY <1>1, <1>2 DEF Over, Ended, Terminal
<1> QED BY <1>1, <1>2, <1>3, <1>4

(* The report is at work, or sent back to be written again.                 *)
LEMMA ReportStatusKept ==
    ASSUME PanelOK, Reportable(panel), panel.handoffs = <<>>,
           NEW s \in {"final_ballots_locked", "report_generating"},
           panel' = [panel EXCEPT !.status = s],
           LedgerGrows, Begun' = Begun, ReadingsKept, expired' = expired
    PROVE  PanelOK' /\ Onward /\ Stays
<1>1. panel \in PanelRow /\ s \in Reached /\ s # "completed"
  BY DEF PanelOK, PanelType, Reached, Status
<1>2. panel.final /\ panel.initial /\ ~Over /\ panel.reports # 0 /\ Extraction \in Done
  BY ReportableRows
<1>3. /\ panel'.status = s /\ panel'.initial /\ panel'.final
      /\ panel'.handoffs = <<>> /\ panel'.reports = panel.reports
  BY <1>1, <1>2 DEF PanelRow
<1>4. Extraction \in Done'
  BY <1>2 DEF LedgerGrows
<1>5. PhaseOK'
  BY <1>2, <1>3, <1>4 DEF PhaseOK
<1> QED BY <1>1, <1>2, <1>5, StatusKept

LEMMA HandoffEnterKeeps ==
    ASSUME PanelInv, NEW w \in Workers, HandoffEnter(w)
    PROVE  PanelInv' /\ Stays
<1>1. UNCHANGED <<attempts, expired>>
  BY DEF HandoffEnter
<1>2. LedgerGrows /\ Begun' = Begun /\ Done' = Done /\ ReadingsKept
  BY <1>1, LedgerRests DEF PanelInv, ReadingsKept
<1>3. CASE ~Reportable(panel) \/ panel.handoffs # <<>>
  <2>1. PICK y \in Requests : y = Idle /\ y.at = "idle"
    BY FreshIsRequest DEF Idle
  <2>2. worker' = [worker EXCEPT ![w] = y] /\ panel' = panel
    BY <1>3, <2>1 DEF HandoffEnter, Return, Put
  <2> QED BY <1>1, <2>1, <2>2, QuietStep
<1>4. CASE Reportable(panel) /\ panel.handoffs = <<>>
  <2>1. panel' = [panel EXCEPT !.status = "report_generating"]
    BY <1>4 DEF HandoffEnter
  <2>2. PanelOK' /\ Onward /\ Stays
    BY <1>1, <1>2, <1>4, <2>1, ReportStatusKept DEF PanelInv
  <2>3. PICK snap \in Snaps : snap = Locked(panel)
    <3>1. panel \in PanelRow
      BY DEF PanelInv, PanelOK, PanelType
    <3>2. /\ panel.degraded \in BOOLEAN /\ panel.readers \in [Reader -> ReaderStatus]
          /\ panel.reported \in SUBSET Reader /\ panel.issues \in Seq(IssueStatus)
          /\ panel.ballots \in SUBSET Pairs /\ panel.finals \in SUBSET Pairs
      BY <3>1 DEF PanelRow
    <3> QED BY <3>2 DEF Snaps, Locked
  <2>4. PICK k \in Work : k = Synthesis /\ k[1] = "report_synthesis"
    BY WorkShape
  <2>5. PICK y : y = [Begin("handoff") EXCEPT !.at = "reserve", !.work = k, !.snap = snap]
    OBVIOUS
  <2>6. /\ y \in Request /\ y.at = "reserve" /\ y.job = "handoff" /\ y.work = k /\ y.votes = {}
    <3>1. "handoff" \in Jobs /\ "reserve" \in Steps
      BY DEF Jobs, Steps
    <3>2. Begin("handoff") \in Request /\ Begin("handoff").job = "handoff"
          /\ Begin("handoff").votes = {}
      BY <3>1, FreshRequest DEF Begin, Idle
    <3> QED BY <2>5, <3>1, <3>2 DEF Request
  <2>7. y \in Requests'
    BY <2>4, <2>6 DEF Requests, Fits, GivesUp, Reads, Votes, Calling, Phases
  <2>8. worker' = [worker EXCEPT ![w] = y]
    BY <1>4, <2>3, <2>4, <2>5 DEF HandoffEnter, Put
  <2> QED BY <1>1, <1>2, <2>2, <2>6, <2>7, <2>8, StepKeeps
<1> QED BY <1>3, <1>4

(* The report is written: it counts the readers who are left.               *)
LEMMA CompleteKeeps ==
    ASSUME PanelOK, Reportable(panel), panel.handoffs = <<>>, ~expired, panel' = Complete(panel),
           LedgerGrows, Begun' = Begun, ReadingsKept, expired' = expired
    PROVE  PanelOK' /\ Onward /\ Stays
<1>1. panel \in PanelRow
  BY DEF PanelOK, PanelType
<1>2. /\ panel.status \in {"final_ballots_locked", "report_generating"}
      /\ panel.final /\ panel.initial /\ ~Over
      /\ panel.reports # 0 /\ Extraction \in Done'
      /\ panel.finals = Completed(panel) \X IssuesOf(panel)
  BY ReportableRows DEF LedgerGrows
<1>3. Cardinality(Completed(panel) \cup Oversized') >= MinValid
  <2>1. Cardinality(Completed(panel) \cup Oversized) >= MinValid
    BY <1>2 DEF PanelOK, Quorate
  <2>2. /\ Completed(panel) \subseteq Reader
        /\ Oversized \subseteq Oversized' /\ Oversized' \subseteq Reader
    BY DEF LedgerGrows, Oversized, Completed
  <2> QED BY <2>1, <2>2, MoreReaders
<1>4. PICK h \in Report : h = ReportOf(panel)
  BY DEF Report, ReportOf, Completed
<1>5. h.valid = Completed(panel) /\ h.failed = Reader \ Completed(panel)
  BY <1>4 DEF ReportOf
<1>6. PICK d \in BOOLEAN : d = (panel.degraded \/ Completed(panel) # Reader)
  OBVIOUS
<1>7. PICK s \in Reached : s = IF d THEN "degraded_completed" ELSE "completed"
  BY DEF Reached, Status
<1>8. panel.handoffs = <<>> /\ Append(panel.handoffs, h) = <<h>> /\ <<h>> \in Seq(Report)
  OBVIOUS
<1>9. panel' = [panel EXCEPT !.status = s, !.ended = TRUE, !.degraded = d, !.handoffs = <<h>>]
  BY <1>1, <1>4, <1>6, <1>7, <1>8 DEF Complete, Settle, PanelRow
<1>10. /\ panel' \in PanelRow /\ panel'.readers = panel.readers
       /\ panel'.reported = panel.reported
       /\ panel'.initial = panel.initial /\ panel'.final = panel.final
       /\ panel'.issues = panel.issues /\ panel'.reports = panel.reports
       /\ panel'.ballots = panel.ballots /\ panel'.finals = panel.finals
       /\ panel'.handoffs = <<h>> /\ panel'.status = s /\ panel'.degraded = d
  BY <1>1, <1>8, <1>9 DEF PanelRow
<1>11. PanelType'
  BY <1>10 DEF PanelOK, PanelType, IssuesOf, OpenIssues
<1>12. PhaseOK'
  <2>1. s \in Ended /\ panel'.handoffs # <<>>
    BY <1>7, <1>10 DEF Ended, Terminal
  <2>2. s \notin {"initial_balloting", "initial_ballots_locked", "discussing", "final_balloting",
                  "final_ballots_locked", "report_generating"}
    BY <1>7
  <2> QED BY <1>2, <1>10, <2>1, <2>2 DEF PhaseOK
<1>13. ReportCountsReaders'
  <2>1. /\ Len(panel'.handoffs) = 1 /\ DOMAIN panel'.handoffs = {1}
        /\ panel'.handoffs[1] = h
    BY <1>10
  <2>2. /\ h.valid \cap h.failed = {} /\ h.valid \cup h.failed = Reader
        /\ h.failed # {} => d
    BY <1>5, <1>6 DEF Completed
  <2>3. panel'.finals = h.valid \X IssuesOf(panel)'
    BY <1>2, <1>5, <1>10 DEF IssuesOf
  <2>4. s = "completed" => h.failed = {}
    BY <1>5, <1>6, <1>7
  <2>5. Cardinality(h.valid \cup Oversized') >= MinValid
    BY <1>3, <1>5
  <2>6. \A i \in DOMAIN panel'.handoffs : i = 1 /\ panel'.handoffs[i] = h
    BY <2>1
  <2>7. Len(panel'.handoffs) <= 1 /\ 1 \in DOMAIN panel'.handoffs
    BY <2>1
  <2> QED BY <1>10, <2>1, <2>2, <2>3, <2>4, <2>5, <2>6, <2>7 DEF ReportCountsReaders
<1>14. PanelOK' /\ Onward
  BY <1>1, <1>2, <1>10, <1>11, <1>12, <1>13, RowsKept
<1>15. Stays
  BY <1>2, <1>10 DEF Stays, Frozen, Terminal
<1> QED BY <1>14, <1>15

LEMMA ComposedKeeps ==
    ASSUME PanelInv, NEW w \in Workers, Composed(w)
    PROVE  PanelInv' /\ Stays
<1>1. PICK x \in Requests : x = worker[w] /\ x.at = "calling" /\ x.work[1] = "report_synthesis"
  BY AtSteps DEF PanelInv, Composed, Answered, At
<1>2. /\ At(w, "calling") /\ Pending(w) /\ panel.status \notin Terminal
      /\ expired' = expired
      /\ ~expired
  BY DEF Composed, Answered
<1>3. PICK y \in Requests : y = Idle /\ y.at = "idle"
  BY FreshIsRequest DEF Idle
<1>4. worker' = [worker EXCEPT ![w] = y]
  BY <1>3 DEF Composed, Return, Put
<1>5. CASE ~Reportable(panel)
  <2>1. UNCHANGED <<panel, attempts, expired>>
    BY <1>2, <1>5 DEF Composed
  <2> QED BY <1>3, <1>4, <2>1, QuietStep
<1>6. CASE Reportable(panel)
  <2>1. attempts' = Settled(w, "succeeded") /\ "succeeded" \in CallStatus \ {"started"}
    BY <1>6 DEF Composed, Deliver, CallStatus
  <2>2. LedgerGrows /\ Begun' = Begun /\ ReadingsKept
    BY <1>1, <1>2, <2>1, SettledCall
  <2>3. PanelOK' /\ Onward /\ Stays
    <3>1. CASE panel' = panel
      BY <1>2, <2>2, <3>1, PanelRests, ResultsRest DEF PanelInv
    <3>2. CASE panel.handoffs = <<>> /\ panel' = [panel EXCEPT !.status = "final_ballots_locked"]
      BY <1>2, <1>6, <2>2, <3>2, ReportStatusKept DEF PanelInv
    <3>3. CASE panel.handoffs = <<>> /\ panel' = Complete(panel)
      BY <1>2, <1>6, <2>2, <3>3, CompleteKeeps DEF PanelInv
    <3> QED BY <1>6, <3>1, <3>2, <3>3 DEF Composed
  <2> QED BY <1>2, <1>3, <1>4, <2>1, <2>2, <2>3, StepKeeps
<1> QED BY <1>5, <1>6

LEMMA RejectedKeeps ==
    ASSUME PanelInv, NEW w \in Workers, Rejected(w)
    PROVE  PanelInv' /\ Stays
<1>1. PICK x \in Requests : x = worker[w] /\ x.at = "calling" /\ x.work[1] = "report_synthesis"
  BY AtSteps DEF PanelInv, Rejected, Answered, At
<1>2. /\ At(w, "calling") /\ Pending(w) /\ panel.status \notin Terminal
      /\ expired' = expired
  BY DEF Rejected, Answered
<1>3. PICK y \in Requests : y = Idle /\ y.at = "idle"
  BY FreshIsRequest DEF Idle
<1>4. worker' = [worker EXCEPT ![w] = y]
  BY <1>3 DEF Rejected, Return, Put
<1>5. CASE ~Reportable(panel)
  <2>1. UNCHANGED <<panel, attempts, expired>>
    BY <1>2, <1>5 DEF Rejected
  <2> QED BY <1>3, <1>4, <2>1, QuietStep
<1>6. CASE Reportable(panel)
  <2>1. attempts' = Settled(w, "invalid_output") /\ "invalid_output" \in CallStatus \ {"started"}
    BY <1>6 DEF Rejected, CallStatus
  <2>2. LedgerGrows /\ Begun' = Begun /\ ReadingsKept
    BY <1>1, <1>2, <2>1, SettledCall
  <2>3. PanelOK' /\ Onward /\ Stays
    <3>1. CASE panel' = panel
      BY <1>2, <2>2, <3>1, PanelRests, ResultsRest DEF PanelInv
    <3>2. CASE panel.handoffs = <<>> /\ panel' = [panel EXCEPT !.status = "final_ballots_locked"]
      BY <1>2, <1>6, <2>2, <3>2, ReportStatusKept DEF PanelInv
    <3> QED BY <1>6, <3>1, <3>2 DEF Rejected
  <2> QED BY <1>2, <1>3, <1>4, <2>1, <2>2, <2>3, StepKeeps
<1> QED BY <1>5, <1>6

LEMMA SynthesisFailedKeeps ==
    ASSUME PanelInv, NEW w \in Workers, SynthesisFailed(w)
    PROVE  PanelInv' /\ Stays
<1>1. PICK y \in Requests : y = Idle /\ y.at = "idle"
  BY FreshIsRequest DEF Idle
<1>2. worker' = [worker EXCEPT ![w] = y] /\ expired' = expired
  BY <1>1 DEF SynthesisFailed, Return, Put
<1>3. CASE SettleNow("failed")
  <2>1. /\ PanelOK' /\ Onward /\ Stays /\ panel'.status \in Terminal
        /\ attempts' = CancelStarted(attempts)
    BY <1>2, <1>3, SettleKeeps DEF PanelInv
  <2> QED BY <1>1, <1>2, <2>1, StepKeeps DEF Onward
<1>4. CASE UNCHANGED <<panel, attempts>>
  BY <1>1, <1>2, <1>4, QuietStep
<1> QED BY <1>3, <1>4 DEF SynthesisFailed

-----------------------------------------------------------------------------
(* The invariant of every panel.                                            *)
LEMMA PanelStarts == PanelInit => PanelInv
<1> SUFFICES ASSUME PanelInit PROVE PanelInv
  OBVIOUS
<1>1. /\ panel = NewPanel /\ attempts = [k \in Work |-> <<>>]
      /\ worker = [w \in Workers |-> Idle]
  BY DEF PanelInit
<1>2. \A k \in Work : attempts[k] = <<>> /\ DOMAIN attempts[k] = {}
  BY <1>1
<1>3. \A k \in Work, s \in CallStatus : ~HasAttempt(k, s)
  BY <1>2 DEF HasAttempt
<1>4. LedgerOK
  <2>1. attempts \in [Work -> Seq(CallStatus)]
    BY <1>1
  <2>2. "unknown" \in CallStatus
    BY DEF CallStatus
  <2> QED BY <1>2, <1>3, <2>1, <2>2 DEF LedgerOK, OneCallPerWork
<1>5. Done = {} /\ Begun = {}
  <2>1. "succeeded" \in CallStatus
    BY DEF CallStatus
  <2> QED BY <1>2, <1>3, <2>1 DEF Done, Begun
<1>6. RequestsOK
  BY <1>1, FreshIsRequest DEF RequestsOK
<1>7. CallsOK
  BY <1>1 DEF CallsOK, At, Idle
<1>8. /\ panel.status = "independent_reading" /\ panel.reports = 0 /\ panel.initial = FALSE
      /\ panel.final = FALSE /\ panel.readers = [r \in Reader |-> "pending"]
      /\ panel.reported = {} /\ panel.issues = <<>> /\ panel.ballots = {} /\ panel.handoffs = <<>>
  BY <1>1 DEF NewPanel
<1>9. panel \in PanelRow
  <2>1. "independent_reading" \in Reached
    BY DEF Reached, Status
  <2>2. [r \in Reader |-> "pending"] \in [Reader -> ReaderStatus]
    BY DEF ReaderStatus
  <2> QED BY <1>1, <2>1, <2>2 DEF NewPanel, PanelRow
<1>10. Completed(panel) = {}
  BY <1>8 DEF Completed
<1>11. PanelType
  BY <1>8, <1>9 DEF PanelType, IssuesOf, OpenIssues
<1>12. Chain /\ BallotsPaid
  BY <1>5, <1>8 DEF Chain, BallotsPaid
<1>13. PhaseOK
  BY <1>8 DEF PhaseOK
<1>14. ReadersOK
  BY <1>5, <1>8, <1>10 DEF ReadersOK
<1>15. LossesFinal /\ VotesIn /\ Quorate
  BY <1>8, <1>10 DEF LossesFinal, VotesIn, Quorate
<1>16. ReportCountsReaders
  BY <1>8 DEF ReportCountsReaders
<1> QED BY <1>4, <1>6, <1>7, <1>11, <1>12, <1>13, <1>14, <1>15, <1>16 DEF PanelInv, PanelOK

(* Every step keeps it and leaves what was sealed or reported alone.        *)
LEMMA PanelSteps ==
    ASSUME PanelInv, PanelNext
    PROVE  PanelInv' /\ Stays
<1>1. ASSUME NEW w \in Workers, Resume(w) PROVE PanelInv' /\ Stays
  BY <1>1, ResumeKeeps
<1>2. ASSUME NEW w \in Workers, Step(w) PROVE PanelInv' /\ Stays
  <2>1. CASE Refuse(w) \/ Reserve(w) \/ AnswerLate(w)
    BY <2>1, RefuseKeeps, ReserveKeeps, AnswerLateKeeps
  <2>2. CASE AnswerExpired(w)
    BY <2>2, AnswerFailsKeeps DEF AnswerExpired
  <2>3. CASE ReadEnter(w) \/ ReadSaved(w) \/ ReadFailed(w) \/ Quorum(w)
    BY <2>3, ReadEnterKeeps, ReadSavedKeeps, ReadFailedKeeps, QuorumKeeps
  <2>4. CASE BallotEnter(w) \/ Extracted(w) \/ ExtractionFailed(w) \/ Cast(w)
    BY <2>4, BallotEnterKeeps, ExtractedKeeps, ExtractionFailedKeeps, CastKeeps
  <2>5. CASE BallotSaved(w) \/ BallotFailed(w) \/ Seal(w)
    BY <2>5, BallotSavedKeeps, BallotFailedKeeps, SealKeeps
  <2>6. CASE DiscussEnter(w) \/ TakeTurn(w) \/ SumUp(w) \/ TurnSaved(w)
    BY <2>6, DiscussEnterKeeps, TakeTurnKeeps, SumUpKeeps, TurnSavedKeeps
  <2>7. CASE SummarySaved(w) \/ SummaryFailed(w) \/ ReaderFailed(w)
    BY <2>7, SummarySavedKeeps, SummaryFailedKeeps, ReaderFailedKeeps
  <2>8. CASE Close(w) \/ TakeFinal(w) \/ FinalSaved(w) \/ Tally(w)
    BY <2>8, CloseKeeps, TakeFinalKeeps, FinalSavedKeeps, TallyKeeps
  <2>9. CASE HandoffEnter(w) \/ Composed(w) \/ SynthesisFailed(w)
    BY <2>9, HandoffEnterKeeps, ComposedKeeps, SynthesisFailedKeeps
  <2> QED BY <1>2, <2>1, <2>2, <2>3, <2>4, <2>5, <2>6, <2>7, <2>8, <2>9 DEF Step
<1>3. ASSUME NEW w \in Workers, Misanswer(w) PROVE PanelInv' /\ Stays
  <2>1. ASSUME NEW code \in Failures, AnswerFails(w, code) PROVE PanelInv' /\ Stays
    BY <2>1, AnswerFailsKeeps
  <2> QED BY <1>3, <2>1, RejectedKeeps DEF Misanswer
<1>4. CASE Cancel \/ Expire
  BY <1>4, CancelKeeps, ExpireKeeps
<1>5. ASSUME NEW w \in Workers, Abort(w) \/ Crash(w) PROVE PanelInv' /\ Stays
  BY <1>5, AbortKeeps, CrashKeeps
<1> QED BY <1>1, <1>2, <1>3, <1>4, <1>5 DEF PanelNext

LEMMA PanelStep == PanelInv /\ [PanelNext]_panelVars => PanelInv' /\ Stays
<1> SUFFICES ASSUME PanelInv, [PanelNext]_panelVars PROVE PanelInv' /\ Stays
  OBVIOUS
<1>1. CASE PanelNext
  BY <1>1, PanelSteps
<1>2. CASE UNCHANGED panelVars
  <2>1. panel' = panel /\ attempts' = attempts /\ expired' = expired /\ worker' = worker
    BY <1>2 DEF panelVars
  <2>2. LedgerGrows /\ Onward /\ PanelOK' /\ Stays
    BY <2>1, QuietPanel
  <2>3. RequestsOK'
    <3>1. \A x \in Requests : x \in Requests'
      BY <2>2, RequestsStay
    <3> QED BY <2>1, <3>1 DEF PanelInv, RequestsOK
  <2>4. CallsOK'
    BY <2>1, <2>2, CallsKept DEF PanelInv, Onward, Undisturbed
  <2> QED BY <2>2, <2>3, <2>4 DEF PanelInv, LedgerGrows
<1> QED BY <1>1, <1>2

(* The state of every panel in every reachable state: types, the ledger,    *)
(* what each request knows and what the rows say of one another.            *)
THEOREM PanelInvariant == PanelSpec => []PanelInv
BY PanelStarts, PanelStep, PTL DEF PanelSpec

(* _invoke_provider: no unit of work of a panel is paid for twice, however  *)
(* many requests work on it and whatever the provider answers.              *)
THEOREM NothingIsPaidTwice == PanelSpec => []OneCallPerWork
<1>1. PanelInv => OneCallPerWork
  BY DEF PanelInv, LedgerOK
<1> QED BY <1>1, PanelInvariant, PTL

(* Whatever the answers are, nothing is added to the final ballots after    *)
(* final_ballots_locked_at nor to the results of a panel that has ended, no *)
(* seal is broken, and to the initial ballots after                         *)
(* initial_ballots_locked_at only a reader adds one of whose answers has    *)
(* been larger than its reservation (_invoke_provider gives up what it does *)
(* not retry, and nothing keeps another request from asking it again).      *)
THEOREM SealedResultsStay == PanelSpec => ResultsStay
<1>1. PanelInv /\ [PanelNext]_panelVars => [Stays]_panelVars
  BY PanelStep
<1> QED BY <1>1, PanelInvariant, PTL DEF PanelSpec, ResultsStay, Stays

(* The report for the editor is written once, from readers who all voted on *)
(* every issue, who with those of an oversized answer are at least          *)
(* min_valid_readers; and a panel that is completed has lost nobody.        *)
THEOREM ReportIsCounted == PanelSpec => []ReportCountsReaders
<1>1. PanelInv => ReportCountsReaders
  BY DEF PanelInv, PanelOK
<1> QED BY <1>1, PanelInvariant, PTL

-----------------------------------------------------------------------------
(* One request at a time.                                                   *)
(*                                                                          *)
(* Then nothing moves the panel between two steps of the request: while it  *)
(* works the panel has not ended, it reads reports before the quorum only,  *)
(* and it calls for the report only where it has put the panel.             *)
Alone(w) ==
    /\ ~On(w, "none") => panel.status \notin Terminal
    /\ On(w, "read") => /\ panel.status = "independent_reading"
                        /\ worker[w].seen.status \in {"none", "independent_reading"}
    /\ On(w, "handoff") /\ Calling(worker[w]) => panel.status = "report_generating"

Follows == Machine!Advance \/ Machine!RefuseReport \/ UNCHANGED <<panel.status, Seals(panel)>>

(* The seals that are set with a status are those the machine sets.         *)
LEMMA SealsSet ==
    ASSUME NEW to,
           panel'.reports # 0 <=> panel.reports # 0 \/ to = "initial_reports_locked",
           panel'.initial <=> panel.initial \/ to = "initial_ballots_locked",
           panel'.final <=> panel.final \/ to = "final_ballots_locked"
    PROVE  Seals(panel') = Seals(panel) \cup Machine!Sealed(to)
<1>1. /\ "reports" \in Machine!Sealed(to) <=> to = "initial_reports_locked"
      /\ "ballots" \in Machine!Sealed(to) <=> to = "initial_ballots_locked"
      /\ "finals" \in Machine!Sealed(to) <=> to = "final_ballots_locked"
      /\ Machine!Sealed(to) \subseteq {"reports", "ballots", "finals"}
  BY DEF Machine!Sealed
<1>2. ASSUME NEW p
      PROVE  /\ "reports" \in Seals(p) <=> p.reports # 0
             /\ "ballots" \in Seals(p) <=> p.initial
             /\ "finals" \in Seals(p) <=> p.final
             /\ Seals(p) \subseteq {"reports", "ballots", "finals"}
  BY DEF Seals
<1>3. \A s \in {"reports", "ballots", "finals"} :
         s \in Seals(panel') <=> s \in Seals(panel) \cup Machine!Sealed(to)
  BY <1>1, <1>2
<1> QED BY <1>1, <1>2, <1>3

(* A transition of the table.                                               *)
LEMMA Advances ==
    ASSUME NEW to, panel'.status = to, Machine!Legal(panel.status, to), to \in Status,
           panel'.reports # 0 <=> panel.reports # 0 \/ to = "initial_reports_locked",
           panel'.initial <=> panel.initial \/ to = "initial_ballots_locked",
           panel'.final <=> panel.final \/ to = "final_ballots_locked"
    PROVE  Follows
<1>1. Seals(panel') = Seals(panel) \cup Machine!Sealed(to)
  BY SealsSet
<1>2. to \in Machine!Status
  BY DEF Machine!Status, Status
<1> QED BY <1>1, <1>2 DEF Follows, Machine!Advance

(* Nothing the machine sees changes.                                        *)
LEMMA MachineRests ==
    ASSUME panel'.status = panel.status, panel'.reports = panel.reports,
           panel'.initial = panel.initial, panel'.final = panel.final
    PROVE  Follows
<1>1. Seals(panel') = Seals(panel)
  BY DEF Seals
<1> QED BY <1>1 DEF Follows

(* The panel fails or is cancelled, from wherever it stands.                *)
LEMMA EndFollows ==
    ASSUME PanelOK, panel.status \notin Terminal, NEW s \in {"failed", "cancelled"},
           panel'.status = s, panel'.reports = panel.reports,
           panel'.initial = panel.initial, panel'.final = panel.final
    PROVE  Follows
<1>1. panel.status \in Status
  BY StatusIsStatus DEF PanelOK, PanelType, PanelRow
<1>2. Machine!Legal(panel.status, s)
  BY <1>1 DEF Machine!Legal, Machine!Status, Machine!Terminal, Status, Terminal
<1>3. s \in Status
  BY DEF Status
<1> QED BY <1>2, <1>3, Advances

LEMMA SettleFollows ==
    ASSUME PanelOK, panel.status \notin Terminal, NEW s \in {"failed", "cancelled"}, SettleNow(s)
    PROVE  Follows
<1>1. panel \in PanelRow
  BY DEF PanelOK, PanelType
<1>2. panel' = [panel EXCEPT !.status = s, !.ended = TRUE]
  BY DEF SettleNow, Settle
<1>3. /\ panel'.status = s /\ panel'.reports = panel.reports
      /\ panel'.initial = panel.initial /\ panel'.final = panel.final
  BY <1>1, <1>2 DEF PanelRow
<1> QED BY <1>3, EndFollows

(* Without a reader the panel fails or goes on as it was.                   *)
LEMMA EliminateFollows ==
    ASSUME PanelOK, panel.status \notin Terminal, NEW r, EliminateNow(r)
    PROVE  Follows /\ (~TooFewWithout(panel, r) => panel'.status = panel.status)
<1>1. panel \in PanelRow
  BY DEF PanelOK, PanelType
<1>2. PICK p : p = WithoutReader(panel, r)
  OBVIOUS
<1>3. /\ p.status = panel.status /\ p.reports = panel.reports
      /\ p.initial = panel.initial /\ p.final = panel.final
      /\ DOMAIN p = DOMAIN panel
  BY <1>1, <1>2 DEF WithoutReader, PanelRow
<1>4. DOMAIN panel = {"status", "reports", "initial", "final", "readers", "reported", "issues",
                      "sources", "ballots", "finals", "messages", "degraded", "ended", "handoffs"}
  BY <1>1 DEF PanelRow
<1>5. CASE TooFewWithout(panel, r)
  <2>1. panel' = [p EXCEPT !.status = "failed", !.ended = TRUE]
    BY <1>2, <1>5 DEF EliminateNow, Settle
  <2>2. /\ panel'.status = "failed" /\ panel'.reports = p.reports
        /\ panel'.initial = p.initial /\ panel'.final = p.final
    BY <1>3, <1>4, <2>1
  <2> QED BY <1>3, <1>5, <2>2, EndFollows
<1>6. CASE ~TooFewWithout(panel, r)
  <2>1. panel' = [p EXCEPT !.degraded = TRUE]
    BY <1>2, <1>6 DEF EliminateNow
  <2>2. /\ panel'.status = p.status /\ panel'.reports = p.reports
        /\ panel'.initial = p.initial /\ panel'.final = p.final
    BY <1>3, <1>4, <2>1
  <2> QED BY <1>3, <2>2, MachineRests
<1> QED BY <1>5, <1>6

-----------------------------------------------------------------------------
(* What the request is left with.                                           *)
LEMMA PutIsNext ==
    ASSUME RequestsOK, NEW w \in Workers, NEW y, Put(w, y)
    PROVE  worker'[w] = y
BY DEF RequestsOK, Put

LEMMA IdleJob == Idle.job = "none" /\ \A job : Begin(job).job = job /\ Begin(job).at = "enter"
                                                /\ Begin(job).seen.status = "none"
<1>1. Idle.job = "none"
  BY DEF Idle
<1>2. ASSUME NEW job
      PROVE  Begin(job).job = job /\ Begin(job).at = "enter" /\ Begin(job).seen.status = "none"
  BY DEF Begin, Idle, NoView
<1> QED BY <1>1, <1>2

(* A request that has returned, or is at work on ballots or the discussion. *)
LEMMA AloneElsewhere ==
    ASSUME NEW w, worker'[w].job \in {"none", "ballot", "discuss"},
           worker'[w].job # "none" => panel'.status \notin Terminal
    PROVE  Alone(w)'
BY DEF Alone, On

(* The request goes on with its job, the panel as it was.                   *)
LEMMA AloneGoesOn ==
    ASSUME NEW w, Alone(w), NEW x, x = worker[w], NEW y, worker'[w] = y,
           panel'.status = panel.status, y.job = x.job,
           y.job = "read" => y.seen.status \in {"none", x.seen.status, panel.status},
           y.job = "handoff" /\ Calling(y) => Calling(x)
    PROVE  Alone(w)'
BY DEF Alone, On

(* The rest of the job is the same job.                                     *)
Columns ==
    {"at", "job", "work", "n", "who", "todo", "votes", "seen", "snap", "issue", "round"}
LEMMA RequestColumns == \A x \in Request : DOMAIN x = Columns
BY DEF Request, Columns

LEMMA NextOfJob ==
    ASSUME NEW x, DOMAIN x = Columns
    PROVE  /\ \A todo : NextReading(x, todo).job = x.job /\ NextReading(x, todo).seen = x.seen
           /\ \A votes : NextBallot(x, votes).job = x.job
           /\ \A last : StartIssue(x, last).job = x.job
           /\ NextRound(x).job = x.job
<1>1. DOMAIN x = {"at", "job", "work", "n", "who", "todo", "votes", "seen", "snap",
                  "issue", "round"}
  BY DEF Columns
<1>2. ASSUME NEW todo PROVE NextReading(x, todo).job = x.job /\ NextReading(x, todo).seen = x.seen
  BY <1>1 DEF NextReading
<1>3. ASSUME NEW votes PROVE NextBallot(x, votes).job = x.job
  BY <1>1 DEF NextBallot
<1>4. ASSUME NEW last PROVE StartIssue(x, last).job = x.job
  <2>1. PICK y : y = StartIssue(x, last)
    OBVIOUS
  <2>2. \E i, todo : \/ y = [x EXCEPT !.at = "close", !.work = NoWork, !.n = 0,
                                       !.issue = 0, !.round = 0, !.todo = {}]
                     \/ y = [x EXCEPT !.at = "turns", !.work = NoWork, !.n = 0,
                                       !.issue = i, !.round = 1, !.todo = todo]
    BY <2>1 DEF StartIssue
  <2>3. y.job = x.job
    BY <1>1, <2>2
  <2> QED BY <2>1, <2>3
<1>5. NextRound(x).job = x.job
  <2>1. CASE x.round = Rounds \/ x.issue \notin x.seen.open
    BY <1>4, <2>1 DEF NextRound
  <2>2. CASE ~(x.round = Rounds \/ x.issue \notin x.seen.open)
    <3>1. NextRound(x) = [x EXCEPT !.at = "turns", !.work = NoWork, !.n = 0,
                                   !.round = @ + 1, !.todo = x.who]
      BY <2>2 DEF NextRound
    <3> QED BY <1>1, <3>1
  <2> QED BY <2>1, <2>2
<1> QED BY <1>2, <1>3, <1>4, <1>5

LEMMA PanelKeptFollows == panel' = panel => Follows
BY MachineRests

(* The request has returned.                                                *)
LEMMA AloneAtRest ==
    ASSUME PanelInv, NEW w \in Workers, Return(w)
    PROVE  Alone(w)'
<1>1. worker'[w] = Idle
  BY PutIsNext DEF PanelInv, Return
<1> QED BY <1>1, IdleJob, AloneElsewhere

-----------------------------------------------------------------------------
(* The actions: the calls.                                                  *)
LEMMA ResumeFollows ==
    ASSUME PanelInv, NEW w \in Workers, Alone(w), Resume(w)
    PROVE  Alone(w)' /\ Follows
<1>1. panel' = panel /\ panel.status \notin Terminal /\ panel.status \in Reached
  BY DEF Resume, PanelInv, PanelOK, PanelType, PanelRow
<1>2. PICK y : y = Begin(JobOf) /\ worker'[w] = y
  BY PutIsNext DEF PanelInv, Resume
<1>3. y.at = "enter" /\ y.job = JobOf /\ y.seen.status = "none"
  BY <1>2, IdleJob
<1>4. JobOf = "read" => panel.status = "independent_reading"
  BY <1>1 DEF JobOf, Reached, Status, Terminal
<1>5. Alone(w)'
  BY <1>1, <1>2, <1>3, <1>4 DEF Alone, On, Calling
<1> QED BY <1>1, <1>5, PanelKeptFollows

LEMMA AfterRefusalJob ==
    ASSUME NEW x \in Request, Calling(x), NEW v
    PROVE  LET y == AfterRefusal(x, v)
           IN  y = Idle \/ (y.job = x.job /\ y.seen = x.seen)
<1>1. CASE Ends(x.job, v)
  BY <1>1 DEF AfterRefusal
<1>2. CASE ~Ends(x.job, v)
  <2>1. AfterRefusal(x, v) = [x EXCEPT !.at = IF v = "already" THEN "enter" ELSE "failed", !.n = 0]
    BY <1>2 DEF AfterRefusal
  <2> QED BY <2>1 DEF Request
<1> QED BY <1>1, <1>2

LEMMA ViewStatus ==
    \A job, p : View(job, p).status = IF job = "read" THEN p.status ELSE "none"
BY DEF View

LEMMA RefuseFollows ==
    ASSUME PanelInv, NEW w \in Workers, Alone(w), Refuse(w)
    PROVE  Alone(w)' /\ Follows
<1>1. PICK x \in Request : x = worker[w] /\ Calling(x)
  BY AtSteps DEF PanelInv, Refuse, At, Calling
<1>2. PICK seen \in Views : seen = View(x.job, panel)
  BY ViewOfPanel DEF PanelInv
<1>3. PICK z : z = [x EXCEPT !.seen = seen]
  OBVIOUS
<1>4. z \in Request /\ z.job = x.job /\ z.seen = seen /\ z.at = x.at
  BY <1>1, <1>2, <1>3 DEF Request
<1>5. PICK y : y = AfterRefusal(z, Verdict(x.work)) /\ worker'[w] = y
  BY <1>1, <1>2, <1>3, PutIsNext DEF PanelInv, Refuse
<1>6. y = Idle \/ (y.job = x.job /\ y.seen = seen)
  BY <1>1, <1>4, <1>5, AfterRefusalJob DEF Calling
<1>7. panel' = panel
  BY DEF Refuse
<1>8. CASE y = Idle
  BY <1>5, <1>7, <1>8, IdleJob, AloneElsewhere, PanelKeptFollows
<1>9. CASE y.job = x.job /\ y.seen = seen
  <2>1. y.job = "read" => y.seen.status = panel.status
    BY <1>2, <1>9, ViewStatus
  <2>2. Alone(w)'
    BY <1>1, <1>5, <1>7, <1>9, <2>1, AloneGoesOn
  <2> QED BY <1>7, <2>2, PanelKeptFollows
<1> QED BY <1>6, <1>8, <1>9

LEMMA ReserveFollows ==
    ASSUME PanelInv, NEW w \in Workers, Alone(w), Reserve(w)
    PROVE  Alone(w)' /\ Follows
<1>1. PICK x \in Request : x = worker[w] /\ Calling(x)
  BY AtSteps DEF PanelInv, Reserve, At, Calling
<1>2. PICK seen \in Views : seen = View(x.job, panel)
  BY ViewOfPanel DEF PanelInv
<1>3. PICK y : y = [x EXCEPT !.at = "calling", !.n = Len(attempts[x.work]) + 1, !.seen = seen]
               /\ worker'[w] = y
  BY <1>1, <1>2, PutIsNext DEF PanelInv, Reserve
<1>4. y.job = x.job /\ y.seen = seen
  BY <1>1, <1>3 DEF Request
<1>5. y.job = "read" => y.seen.status = panel.status
  BY <1>2, <1>4, ViewStatus
<1>6. panel' = panel
  BY DEF Reserve
<1>7. Alone(w)'
  BY <1>1, <1>3, <1>4, <1>5, <1>6, AloneGoesOn
<1> QED BY <1>6, <1>7, PanelKeptFollows

LEMMA AnswerLateFollows ==
    ASSUME PanelInv, NEW w \in Workers, Alone(w), AnswerLate(w)
    PROVE  Alone(w)' /\ Follows
<1>1. PICK x \in Request : x = worker[w] /\ Calling(x)
  BY AtSteps DEF PanelInv, AnswerLate, At, Calling
<1>2. PICK y : y = AfterRefusal(x, "invalid_state") /\ worker'[w] = y
  BY <1>1, PutIsNext DEF PanelInv, AnswerLate
<1>3. panel' = panel
  BY DEF AnswerLate
<1>4. y = Idle \/ (y.job = x.job /\ y.seen = x.seen)
  BY <1>1, <1>2, AfterRefusalJob
<1>5. CASE y = Idle
  BY <1>2, <1>3, <1>5, IdleJob, AloneElsewhere, PanelKeptFollows
<1>6. CASE y.job = x.job /\ y.seen = x.seen
  BY <1>1, <1>2, <1>3, <1>6, AloneGoesOn, PanelKeptFollows
<1> QED BY <1>4, <1>5, <1>6

LEMMA AnswerFailsFollows ==
    ASSUME PanelInv, NEW w \in Workers, Alone(w), NEW code, AnswerFails(w, code)
    PROVE  Alone(w)' /\ Follows
<1>1. PICK x \in Request : x = worker[w] /\ Calling(x)
  BY AtSteps DEF PanelInv, AnswerFails, At, Calling
<1>2. PICK at : at = IF Retried(w, code) THEN "reserve" ELSE "failed"
  OBVIOUS
<1>3. PICK s : s = View(x.job, panel).status
  OBVIOUS
<1>4. PICK y : y = [x EXCEPT !.at = at, !.n = 0, !.seen.status = s] /\ worker'[w] = y
  BY <1>1, <1>2, <1>3, PutIsNext DEF PanelInv, AnswerFails
<1>5. x.seen \in Views
  BY <1>1 DEF Request
<1>6. y.job = x.job /\ y.seen.status = s
  BY <1>1, <1>4, <1>5 DEF Request, Views
<1>7. y.job = "read" => s = panel.status
  BY <1>3, <1>6, ViewStatus
<1>8. panel' = panel
  BY DEF AnswerFails
<1>9. Alone(w)'
  BY <1>1, <1>4, <1>6, <1>7, <1>8, AloneGoesOn
<1> QED BY <1>8, <1>9, PanelKeptFollows

LEMMA AbortFollows ==
    ASSUME PanelInv, NEW w \in Workers, Alone(w), Abort(w)
    PROVE  Alone(w)' /\ Follows
<1>1. panel.status \notin Terminal
  <2>1. ~On(w, "none")
    BY AtSteps DEF PanelInv, Abort, At, On, Requests, Fits, Calling, Phases
  <2> QED BY <2>1 DEF Alone
<1>2. SettleNow("cancelled") /\ Return(w)
  BY <1>1 DEF Abort
<1> QED BY <1>1, <1>2, AloneAtRest, SettleFollows DEF PanelInv

LEMMA CrashFollows ==
    ASSUME PanelInv, NEW w \in Workers, Crash(w)
    PROVE  Alone(w)' /\ Follows
<1>1. PICK y : y = [Idle EXCEPT !.at = "dead"] /\ worker'[w] = y
  BY PutIsNext DEF PanelInv, Crash
<1>2. y.job = "none"
  BY <1>1 DEF Idle
<1>3. panel' = panel
  BY DEF Crash
<1>4. worker'[w].job = "none"
  BY <1>1, <1>2
<1> QED BY <1>3, <1>4, AloneElsewhere, PanelKeptFollows

LEMMA ExpireFollows ==
    ASSUME NEW w \in Workers, Alone(w), Expire
    PROVE  Alone(w)' /\ Follows
<1>1. panel' = panel /\ worker' = worker
  BY DEF Expire
<1> QED BY <1>1, PanelKeptFollows DEF Alone, On

(* Every row has every column.                                              *)
LEMMA PanelColumns ==
    ASSUME PanelOK
    PROVE  /\ panel \in PanelRow /\ panel.status \in Reached /\ panel.reports \in Nat
           /\ panel.initial \in BOOLEAN /\ panel.final \in BOOLEAN
           /\ DOMAIN panel = {"status", "reports", "initial", "final", "readers", "reported",
                              "issues", "sources", "ballots", "finals", "messages", "degraded",
                              "ended", "handoffs"}
BY DEF PanelOK, PanelType, PanelRow

(* Rows are written, and nothing the machine sees.                          *)
LEMMA RowsWritten ==
    ASSUME PanelOK
    PROVE  /\ \A a, b : [panel EXCEPT !.readers = a, !.reported = b].status = panel.status
           /\ \A a, b : panel' = [panel EXCEPT !.readers = a, !.reported = b] => Follows
           /\ \A a : panel' = [panel EXCEPT !.ballots = a] => Follows
           /\ \A a : panel' = [panel EXCEPT !.finals = a] => Follows
           /\ \A a : panel' = [panel EXCEPT !.degraded = a] => Follows
           /\ \A a, b : panel' = [panel EXCEPT !.messages = a, !.issues = b] => Follows
           /\ \A a : panel' = [panel EXCEPT !.messages = a] => Follows
BY PanelColumns, MachineRests

(* collect_initial_reports. *)
LEMMA ReadEnterFollows ==
    ASSUME PanelInv, NEW w \in Workers, Alone(w), ReadEnter(w)
    PROVE  Alone(w)' /\ Follows
<1>1. panel' = panel /\ panel.status = "independent_reading"
  BY DEF ReadEnter, Alone
<1>2. CASE panel.reports # 0
  BY <1>1, <1>2, AloneAtRest, PanelKeptFollows DEF ReadEnter
<1>3. CASE panel.reports = 0
  <2>1. PICK done, todo, x :
          /\ x = [Begin("read") EXCEPT !.who = done, !.seen = View("read", panel)]
          /\ Put(w, NextReading(x, todo)) /\ done \subseteq Reader
    BY <1>3 DEF ReadEnter, Completed
  <2>2. Begin("read") \in Request /\ Begin("read").job = "read"
    BY FreshRequest, IdleJob DEF Jobs
  <2>3. View("read", panel) \in Views /\ View("read", panel).status = panel.status
    BY ViewOfPanel, ViewStatus DEF PanelInv
  <2>4. x \in Request /\ x.job = "read" /\ x.seen.status = panel.status
    BY <2>1, <2>2, <2>3 DEF Request
  <2>5. PICK y : y = NextReading(x, todo) /\ worker'[w] = y
    BY <2>1, PutIsNext DEF PanelInv
  <2>6. y.job = "read" /\ y.seen.status = panel.status
    BY <2>4, <2>5, RequestColumns, NextOfJob
  <2>7. Alone(w)'
    BY <1>1, <2>5, <2>6 DEF Alone, On, Terminal
  <2> QED BY <1>1, <2>7, PanelKeptFollows
<1> QED BY <1>2, <1>3

LEMMA ReadSavedFollows ==
    ASSUME PanelInv, NEW w \in Workers, Alone(w), ReadSaved(w)
    PROVE  Alone(w)' /\ Follows
<1>1. PICK x \in Request : x = worker[w] /\ x.job = "read" /\ panel.status = "independent_reading"
  BY AtSteps DEF PanelInv, ReadSaved, Answered, On, Alone
<1>2. PICK r : r = ReadingReader(w)
  OBVIOUS
<1>3. PICK readers, reported : panel' = [panel EXCEPT !.readers = readers, !.reported = reported]
  <2>1. panel' = [panel EXCEPT !.readers = [@ EXCEPT ![r] = "completed"], !.reported = @ \cup {r}]
    BY <1>2 DEF ReadSaved
  <2> QED BY <2>1
<1>4. panel'.status = panel.status /\ Follows
  BY <1>3, RowsWritten DEF PanelInv
<1>5. View("read", panel).status = panel.status
  BY ViewStatus
<1>6. PICK z : z = [x EXCEPT !.who = @ \cup {r}, !.seen = View("read", panel)]
  OBVIOUS
<1>7. z.job = "read" /\ z.seen.status = panel.status /\ DOMAIN z = Columns
  BY <1>1, <1>5, <1>6, RequestColumns DEF Columns
<1>8. PICK y : y = NextReading(z, x.todo \ {r}) /\ worker'[w] = y
  BY <1>1, <1>2, <1>6, PutIsNext DEF PanelInv, ReadSaved
<1>9. y.job = "read" /\ y.seen.status = panel.status
  BY <1>7, <1>8, NextOfJob
<1>10. Alone(w)'
  BY <1>1, <1>4, <1>8, <1>9 DEF Alone, On, Terminal
<1> QED BY <1>4, <1>10

LEMMA ReadFailedFollows ==
    ASSUME PanelInv, NEW w \in Workers, Alone(w), ReadFailed(w)
    PROVE  Alone(w)' /\ Follows
<1>1. PICK x \in Request : x = worker[w] /\ x.job = "read"
  BY AtSteps DEF PanelInv, ReadFailed, On
<1>2. PICK r : r = ReadingReader(w)
  OBVIOUS
<1>3. panel'.status = panel.status /\ Follows
  <2>1. panel' = WithoutReader(panel, r)
    BY <1>2 DEF ReadFailed
  <2>2. /\ panel'.status = panel.status /\ panel'.reports = panel.reports
        /\ panel'.initial = panel.initial /\ panel'.final = panel.final
    BY <2>1, PanelColumns DEF PanelInv, WithoutReader
  <2> QED BY <2>2, MachineRests
<1>4. PICK y : y = NextReading(x, x.todo \ {r}) /\ worker'[w] = y
  BY <1>1, <1>2, PutIsNext DEF PanelInv, ReadFailed
<1>5. y.job = x.job /\ y.seen = x.seen
  BY <1>4, RequestColumns, NextOfJob
<1>6. Alone(w)'
  BY <1>1, <1>3, <1>4, <1>5, AloneGoesOn
<1> QED BY <1>3, <1>6

LEMMA QuorumFollows ==
    ASSUME PanelInv, NEW w \in Workers, Alone(w), Quorum(w)
    PROVE  Alone(w)' /\ Follows
<1>1. Alone(w)'
  BY AloneAtRest DEF Quorum
<1>2. /\ panel.status = "independent_reading" /\ panel.status \notin Terminal
      /\ worker[w].seen.status # "initial_reports_locked"
  <2>1. On(w, "read")
    BY AtSteps DEF PanelInv, Quorum, At, On, Requests, Fits
  <2> QED BY <2>1 DEF Alone, Terminal
<1>3. CASE Cardinality(worker[w].who) >= MinValid
  <2>1. PICK to : to = IF worker[w].seen.status = "initial_reports_locked"
                      THEN panel.status ELSE "initial_reports_locked"
    OBVIOUS
  <2>2. PICK d : d = (panel.degraded \/ worker[w].who # Reader)
    OBVIOUS
  <2>3. panel' = [panel EXCEPT !.status = to, !.reports = panel.reports + 1, !.degraded = d]
    BY <1>3, <2>1, <2>2 DEF Quorum
  <2>4. /\ panel'.status = to /\ panel'.reports = panel.reports + 1
        /\ panel'.initial = panel.initial /\ panel'.final = panel.final
    BY <2>3, PanelColumns DEF PanelInv
  <2>5. panel'.reports # 0
    BY <2>4, PanelColumns DEF PanelInv
  <2>6. to = "initial_reports_locked" /\ Machine!Legal(panel.status, to) /\ to \in Status
    BY <1>2, <2>1 DEF Machine!Legal, Machine!Forward, Machine!Status, Machine!Terminal, Status
  <2>7. /\ panel'.reports # 0 <=> panel.reports # 0 \/ to = "initial_reports_locked"
        /\ panel'.initial <=> panel.initial \/ to = "initial_ballots_locked"
        /\ panel'.final <=> panel.final \/ to = "final_ballots_locked"
    BY <2>4, <2>5, <2>6
  <2>8. Follows
    BY <2>4, <2>6, <2>7, Advances
  <2> QED BY <1>1, <2>8
<1>4. CASE ~(Cardinality(worker[w].who) >= MinValid)
  <2>1. SettleNow("failed")
    BY <1>4 DEF Quorum
  <2> QED BY <1>1, <1>2, <2>1, SettleFollows DEF PanelInv
<1> QED BY <1>3, <1>4

-----------------------------------------------------------------------------
(* collect_initial_ballots. *)
LEMMA StatusMoves ==
    ASSUME PanelInv, NEW to \in Status, Machine!Legal(panel.status, to),
           to \notin {"initial_reports_locked", "initial_ballots_locked", "final_ballots_locked"},
           panel'.status = to, panel'.reports = panel.reports,
           panel'.initial = panel.initial, panel'.final = panel.final
    PROVE  Follows
<1>1. /\ panel'.reports # 0 <=> panel.reports # 0 \/ to = "initial_reports_locked"
      /\ panel'.initial <=> panel.initial \/ to = "initial_ballots_locked"
      /\ panel'.final <=> panel.final \/ to = "final_ballots_locked"
  OBVIOUS
<1> QED BY <1>1, Advances

LEMMA LegalMoves ==
    /\ Machine!Legal("initial_reports_locked", "issue_extraction")
    /\ Machine!Legal("issue_extraction", "initial_balloting")
    /\ Machine!Legal("initial_balloting", "initial_ballots_locked")
    /\ Machine!Legal("initial_ballots_locked", "discussing")
    /\ Machine!Legal("initial_ballots_locked", "final_balloting")
    /\ Machine!Legal("discussing", "final_balloting")
    /\ Machine!Legal("final_balloting", "final_ballots_locked")
    /\ Machine!Legal("final_ballots_locked", "report_generating")
    /\ Machine!Legal("report_generating", "completed")
    /\ Machine!Legal("report_generating", "degraded_completed")
BY DEF Machine!Legal, Machine!Forward, Machine!Status, Machine!Terminal

LEMMA BallotEnterFollows ==
    ASSUME PanelInv, NEW w \in Workers, Alone(w), BallotEnter(w)
    PROVE  Alone(w)' /\ Follows
<1>1. On(w, "ballot") /\ panel.status \notin Terminal
  BY DEF BallotEnter, On, Alone
<1>2. CASE panel' = panel /\ Return(w)
  BY <1>2, AloneAtRest, PanelKeptFollows
<1>3. CASE ~(panel' = panel /\ Return(w))
  <2>1. PICK rec, at, work :
          /\ rec = [Begin("ballot") EXCEPT !.who = Eligible(panel), !.snap = Sources(panel)]
          /\ \/ Put(w, [rec EXCEPT !.at = at])
             \/ Put(w, [rec EXCEPT !.at = at, !.work = work])
    BY <1>3 DEF BallotEnter
  <2>2. DOMAIN Begin("ballot") = Columns /\ Begin("ballot").job = "ballot"
    BY FreshRequest, RequestColumns, IdleJob DEF Jobs
  <2>3. DOMAIN rec = Columns /\ rec.job = "ballot"
    BY <2>1, <2>2 DEF Columns
  <2>4. PICK y : /\ worker'[w] = y
                 /\ y = [rec EXCEPT !.at = at] \/ y = [rec EXCEPT !.at = at, !.work = work]
    BY <2>1, PutIsNext DEF PanelInv
  <2>5. y.job = "ballot"
    BY <2>3, <2>4 DEF Columns
  <2>6. \/ panel' = panel
        \/ /\ panel.status \in {"initial_reports_locked", "issue_extraction"}
           /\ panel' = [panel EXCEPT !.status = "issue_extraction"]
    BY <1>3 DEF BallotEnter
  <2>7. CASE panel' = panel
    BY <1>1, <2>4, <2>5, <2>7, AloneElsewhere, PanelKeptFollows
  <2>8. CASE /\ panel.status \in {"initial_reports_locked", "issue_extraction"}
             /\ panel' = [panel EXCEPT !.status = "issue_extraction"]
    <3>1. /\ panel'.status = "issue_extraction" /\ panel'.reports = panel.reports
          /\ panel'.initial = panel.initial /\ panel'.final = panel.final
      BY <2>8, PanelColumns DEF PanelInv
    <3>2. Alone(w)'
      BY <2>4, <2>5, <3>1, AloneElsewhere DEF Terminal
    <3>3. CASE panel.status = "issue_extraction"
      BY <3>1, <3>2, <3>3, MachineRests
    <3>4. CASE panel.status = "initial_reports_locked"
      <4>1. Machine!Legal(panel.status, "issue_extraction") /\ "issue_extraction" \in Status
        BY <3>4, LegalMoves DEF Status
      <4>2. Follows
        BY <3>1, <4>1, StatusMoves
      <4> QED BY <3>2, <4>2
    <3> QED BY <2>8, <3>3, <3>4
  <2> QED BY <2>6, <2>7, <2>8
<1> QED BY <1>2, <1>3

(* A request that stays at work on ballots or the discussion.               *)
LEMMA AloneAtWork ==
    ASSUME NEW w, NEW y, worker'[w] = y, y.job \in {"ballot", "discuss"},
           panel'.status \notin Terminal
    PROVE  Alone(w)'
BY AloneElsewhere

LEMMA GoesToCast ==
    ASSUME PanelInv, NEW w \in Workers, Go(w, "cast"), On(w, "ballot"),
           panel'.status \notin Terminal
    PROVE  Alone(w)'
<1>1. PICK x \in Request : x = worker[w] /\ x.job = "ballot"
  BY AtSteps DEF PanelInv, On
<1>2. PICK y : y = [x EXCEPT !.at = "cast"] /\ worker'[w] = y
  BY <1>1, PutIsNext DEF PanelInv, Go
<1>3. y.job = "ballot"
  BY <1>1, <1>2 DEF Request
<1> QED BY <1>2, <1>3, AloneAtWork

LEMMA ExtractedFollows ==
    ASSUME PanelInv, NEW w \in Workers, Alone(w), Extracted(w)
    PROVE  Alone(w)' /\ Follows
<1>1. On(w, "ballot") /\ panel.status \notin Terminal
  BY DEF Extracted, Answered
<1>2. CASE panel' = panel /\ Return(w)
  BY <1>2, AloneAtRest, PanelKeptFollows
<1>3. CASE ~(panel' = panel /\ Return(w))
  <2>1. Go(w, "cast")
    BY <1>3 DEF Extracted, RollBack
  <2>2. CASE panel' = panel
    BY <1>1, <2>1, <2>2, GoesToCast, PanelKeptFollows
  <2>3. CASE panel' # panel
    <3>1. AwaitsIssues /\ ~(~BallotsOpen(panel)) /\ Bound(w)
      BY <1>3, <2>3 DEF Extracted, RollBack
    <3>2. PICK issues, src : panel' = [panel EXCEPT !.issues = issues, !.sources = src,
                                                    !.status = "initial_balloting"]
      BY <3>1 DEF Extracted
    <3>3. /\ panel'.status = "initial_balloting" /\ panel'.reports = panel.reports
          /\ panel'.initial = panel.initial /\ panel'.final = panel.final
      BY <3>2, PanelColumns DEF PanelInv
    <3>4. /\ Machine!Legal(panel.status, "initial_balloting") /\ "initial_balloting" \in Status
          /\ "initial_balloting" \notin Terminal
      BY <3>1, LegalMoves DEF AwaitsIssues, Status, Terminal
    <3>5. Follows
      BY <3>3, <3>4, StatusMoves
    <3> QED BY <1>1, <2>1, <3>3, <3>4, <3>5, GoesToCast
  <2> QED BY <2>2, <2>3
<1> QED BY <1>2, <1>3

LEMMA ExtractionFailedFollows ==
    ASSUME PanelInv, NEW w \in Workers, Alone(w), ExtractionFailed(w)
    PROVE  Alone(w)' /\ Follows
<1>1. PICK x \in Requests : x = worker[w] /\ Calling(x) /\ x.work = Extraction
  BY AtSteps DEF PanelInv, ExtractionFailed, At, Calling
<1>2. On(w, "ballot") /\ panel.status \notin Terminal
  BY <1>1, JobOfCall DEF On, Alone, Extraction
<1>3. CASE panel' = panel /\ Return(w)
  BY <1>3, AloneAtRest, PanelKeptFollows
<1>4. CASE panel' = panel /\ Go(w, "cast")
  BY <1>2, <1>4, GoesToCast, PanelKeptFollows
<1>5. CASE SettleNow("failed") /\ Return(w)
  BY <1>2, <1>5, AloneAtRest, SettleFollows DEF PanelInv
<1> QED BY <1>3, <1>4, <1>5 DEF ExtractionFailed, RollBack

LEMMA CastFollows ==
    ASSUME PanelInv, NEW w \in Workers, Alone(w), Cast(w)
    PROVE  Alone(w)' /\ Follows
<1>1. PICK x \in Requests : x = worker[w] /\ x \in Request /\ x.at = "cast"
  BY AtSteps DEF PanelInv, Cast, At
<1>2. panel' = panel /\ x.job = "ballot" /\ panel.status \notin Terminal
  BY <1>1 DEF Cast, Requests, Fits, Alone, On
<1>3. CASE Return(w)
  BY <1>2, <1>3, AloneAtRest, PanelKeptFollows
<1>4. CASE ~Return(w)
  <2>1. PICK votes, z : z = [x EXCEPT !.who = {}] /\ Put(w, NextBallot(z, votes))
    BY <1>1, <1>4 DEF Cast
  <2>2. z.job = "ballot" /\ DOMAIN z = Columns
    BY <1>1, <1>2, <2>1, RequestColumns DEF Columns
  <2>3. PICK y : y = NextBallot(z, votes) /\ worker'[w] = y
    BY <2>1, PutIsNext DEF PanelInv
  <2>4. y.job = "ballot"
    BY <2>2, <2>3, NextOfJob
  <2> QED BY <1>2, <2>3, <2>4, AloneAtWork, PanelKeptFollows
<1> QED BY <1>3, <1>4

LEMMA NextBallotStays ==
    ASSUME PanelInv, NEW w \in Workers, On(w, "ballot"), panel'.status \notin Terminal,
           NEW votes, Put(w, NextBallot(worker[w], votes))
    PROVE  Alone(w)'
<1>1. PICK x \in Request : x = worker[w] /\ x.job = "ballot"
  BY AtSteps DEF PanelInv, On
<1>2. PICK y : y = NextBallot(x, votes) /\ worker'[w] = y
  BY <1>1, PutIsNext DEF PanelInv
<1>3. y.job = "ballot"
  BY <1>1, <1>2, RequestColumns, NextOfJob
<1> QED BY <1>2, <1>3, AloneAtWork

LEMMA BallotSavedFollows ==
    ASSUME PanelInv, NEW w \in Workers, Alone(w), BallotSaved(w)
    PROVE  Alone(w)' /\ Follows
<1>1. On(w, "ballot") /\ panel.status \notin Terminal
  BY DEF BallotSaved, Answered
<1>2. CASE panel' = panel /\ Return(w)
  BY <1>2, AloneAtRest, PanelKeptFollows
<1>3. CASE ~(panel' = panel /\ Return(w))
  <2>1. PICK ballots, votes : /\ panel' = [panel EXCEPT !.ballots = ballots]
                              /\ Put(w, NextBallot(worker[w], votes))
    BY <1>3 DEF BallotSaved, RollBack
  <2>2. panel'.status = panel.status /\ Follows
    BY <2>1, PanelColumns, RowsWritten DEF PanelInv
  <2> QED BY <1>1, <2>1, <2>2, NextBallotStays
<1> QED BY <1>2, <1>3

LEMMA BallotFailedFollows ==
    ASSUME PanelInv, NEW w \in Workers, Alone(w), BallotFailed(w)
    PROVE  Alone(w)' /\ Follows
<1>1. PICK x \in Requests : x = worker[w] /\ Calling(x) /\ x.work[1] = "initial_ballot"
  BY AtSteps DEF PanelInv, BallotFailed, At, Calling
<1>2. On(w, "ballot") /\ panel.status \notin Terminal
  BY <1>1, JobOfCall DEF On, Alone
<1>3. CASE panel' = panel /\ Return(w)
  BY <1>3, AloneAtRest, PanelKeptFollows
<1>4. CASE ~(panel' = panel /\ Return(w))
  <2>1. PICK r : /\ EliminateNow(r)
                 /\ IF TooFewWithout(panel, r) THEN Return(w)
                    ELSE \E votes : Put(w, NextBallot(worker[w], votes))
    BY <1>4 DEF BallotFailed, RollBack
  <2>2. Follows /\ (~TooFewWithout(panel, r) => panel'.status = panel.status)
    BY <1>2, <2>1, EliminateFollows DEF PanelInv
  <2>3. CASE TooFewWithout(panel, r)
    BY <2>1, <2>2, <2>3, AloneAtRest
  <2>4. CASE ~TooFewWithout(panel, r)
    BY <1>2, <2>1, <2>2, <2>4, NextBallotStays
  <2> QED BY <2>3, <2>4
<1> QED BY <1>3, <1>4

LEMMA SealFollows ==
    ASSUME PanelInv, NEW w \in Workers, Alone(w), Seal(w)
    PROVE  Alone(w)' /\ Follows
<1>1. Alone(w)'
  BY AloneAtRest DEF Seal
<1>2. CASE panel' = panel
  BY <1>1, <1>2, PanelKeptFollows
<1>3. CASE panel' = [panel EXCEPT !.degraded = TRUE]
  BY <1>1, <1>3, RowsWritten DEF PanelInv
<1>4. CASE panel' # panel /\ panel' # [panel EXCEPT !.degraded = TRUE]
  <2>1. PICK to : to = "initial_ballots_locked"
    OBVIOUS
  <2>2. /\ panel' = [panel EXCEPT !.initial = TRUE, !.status = to]
        /\ panel.status = "initial_balloting"
    BY <1>4, <2>1 DEF Seal, Balloting
  <2>3. /\ panel'.status = to /\ panel'.reports = panel.reports
        /\ panel'.initial = TRUE /\ panel'.final = panel.final
    BY <2>2, PanelColumns DEF PanelInv
  <2>4. Machine!Legal(panel.status, to) /\ to \in Status
    BY <2>1, <2>2, LegalMoves DEF Status
  <2>5. /\ panel'.reports # 0 <=> panel.reports # 0 \/ to = "initial_reports_locked"
        /\ panel'.initial <=> panel.initial \/ to = "initial_ballots_locked"
        /\ panel'.final <=> panel.final \/ to = "final_ballots_locked"
    BY <2>1, <2>3
  <2>6. Follows
    BY <2>3, <2>4, <2>5, Advances
  <2> QED BY <1>1, <2>6
<1> QED BY <1>2, <1>3, <1>4

-----------------------------------------------------------------------------
(* run_discussion_and_final_ballots. *)
LEMMA DiscussEnterFollows ==
    ASSUME PanelInv, NEW w \in Workers, Alone(w), DiscussEnter(w)
    PROVE  Alone(w)' /\ Follows
<1>1. On(w, "discuss") /\ panel.status \notin Terminal
  BY DEF DiscussEnter, On, Alone
<1>2. CASE panel' = panel /\ Return(w)
  BY <1>2, AloneAtRest, PanelKeptFollows
<1>3. CASE ~(panel' = panel /\ Return(w))
  <2>1. PICK who, seen, rec : /\ rec = [Begin("discuss") EXCEPT !.who = who, !.seen = seen]
                              /\ Put(w, StartIssue(rec, 0))
    BY <1>3 DEF DiscussEnter
  <2>2. DOMAIN Begin("discuss") = Columns /\ Begin("discuss").job = "discuss"
    BY FreshRequest, RequestColumns, IdleJob DEF Jobs
  <2>3. DOMAIN rec = Columns /\ rec.job = "discuss"
    BY <2>1, <2>2 DEF Columns
  <2>4. PICK y : y = StartIssue(rec, 0) /\ worker'[w] = y
    BY <2>1, PutIsNext DEF PanelInv
  <2>5. y.job = "discuss"
    BY <2>3, <2>4, NextOfJob
  <2>6. panel' = IF panel.status = "initial_ballots_locked" THEN OpenDiscussion(panel) ELSE panel
    BY <1>3 DEF DiscussEnter
  <2>7. CASE panel.status # "initial_ballots_locked"
    BY <1>1, <2>4, <2>5, <2>6, <2>7, AloneAtWork, PanelKeptFollows
  <2>8. CASE panel.status = "initial_ballots_locked"
    <3>1. PICK to : to = IF Agenda(panel) = {} THEN "final_balloting" ELSE "discussing"
      OBVIOUS
    <3>2. PICK issues : panel' = [panel EXCEPT !.status = to, !.issues = issues]
      BY <2>6, <2>8, <3>1 DEF OpenDiscussion
    <3>3. /\ panel'.status = to /\ panel'.reports = panel.reports
          /\ panel'.initial = panel.initial /\ panel'.final = panel.final
      BY <3>2, PanelColumns DEF PanelInv
    <3>4. to \in {"final_balloting", "discussing"}
      BY <3>1
    <3>5. Machine!Legal(panel.status, to)
      BY <2>8, <3>4, LegalMoves
    <3>6. Follows
      BY <3>3, <3>4, <3>5, StatusMoves DEF Status
    <3>7. Alone(w)'
      BY <2>4, <2>5, <3>3, <3>4, AloneAtWork DEF Terminal
    <3> QED BY <3>6, <3>7
  <2> QED BY <2>7, <2>8
<1> QED BY <1>2, <1>3

LEMMA JobStays ==
    ASSUME NEW x, DOMAIN x = Columns
    PROVE  /\ \A todo : [x EXCEPT !.todo = todo].job = x.job
           /\ \A work : [x EXCEPT !.at = "reserve", !.work = work].job = x.job
           /\ \A votes : [x EXCEPT !.votes = votes].job = x.job
           /\ \A at : [x EXCEPT !.at = at].job = x.job
<1>1. ASSUME NEW todo PROVE [x EXCEPT !.todo = todo].job = x.job
  BY DEF Columns
<1>2. ASSUME NEW work PROVE [x EXCEPT !.at = "reserve", !.work = work].job = x.job
  BY DEF Columns
<1>3. ASSUME NEW votes PROVE [x EXCEPT !.votes = votes].job = x.job
  BY DEF Columns
<1>4. ASSUME NEW at PROVE [x EXCEPT !.at = at].job = x.job
  BY DEF Columns
<1> QED BY <1>1, <1>2, <1>3, <1>4

LEMMA TakeTurnFollows ==
    ASSUME PanelInv, NEW w \in Workers, Alone(w), TakeTurn(w)
    PROVE  Alone(w)' /\ Follows
<1>1. PICK x \in Requests : x = worker[w] /\ x \in Request /\ x.at = "turns"
  BY AtSteps DEF PanelInv, TakeTurn, At
<1>2. panel' = panel /\ x.job = "discuss" /\ panel.status \notin Terminal
  BY <1>1, AtTurns DEF TakeTurn, Alone, On
<1>3. PICK y : /\ worker'[w] = y
               /\ \/ \E todo : y = [x EXCEPT !.todo = todo]
                  \/ \E work : y = [x EXCEPT !.at = "reserve", !.work = work]
  <2>1. panel.status # "cancelled"
    BY <1>2 DEF Terminal
  <2>2. PICK r : r = First(x.todo)
    OBVIOUS
  <2>3. PICK y : /\ y = IF NotNow(w) \/ r \notin x.seen.runs \/ Said(w, r) \in panel.messages
                        THEN [x EXCEPT !.todo = @ \ {r}]
                        ELSE [x EXCEPT !.at = "reserve", !.work = Turn(x.issue, x.round, r)]
                 /\ worker'[w] = y
    BY <1>1, <2>1, <2>2, PutIsNext DEF PanelInv, TakeTurn
  <2> QED BY <2>3
<1>4. y.job = "discuss"
  <2>1. DOMAIN x = Columns
    BY <1>1, RequestColumns
  <2>2. CASE \E todo : y = [x EXCEPT !.todo = todo]
    BY <1>2, <2>1, <2>2, JobStays
  <2>3. CASE \E work : y = [x EXCEPT !.at = "reserve", !.work = work]
    BY <1>2, <2>1, <2>3, JobStays
  <2> QED BY <1>3, <2>2, <2>3
<1> QED BY <1>2, <1>3, <1>4, AloneAtWork, PanelKeptFollows

LEMMA SumUpFollows ==
    ASSUME PanelInv, NEW w \in Workers, Alone(w), SumUp(w)
    PROVE  Alone(w)' /\ Follows
<1>1. PICK x \in Requests : x = worker[w] /\ x \in Request /\ x.at = "turns"
  BY AtSteps DEF PanelInv, SumUp, At
<1>2. panel' = panel /\ x.job = "discuss" /\ panel.status \notin Terminal
  BY <1>1, AtTurns DEF SumUp, Alone, On
<1>3. PICK y : /\ worker'[w] = y
               /\ \/ y = StartIssue(x, x.issue) \/ y = NextRound(x)
                  \/ \E work : y = [x EXCEPT !.at = "reserve", !.work = work]
  <2>1. panel.status # "cancelled"
    BY <1>2 DEF Terminal
  <2>2. PICK y : /\ y = IF \E r \in x.who : Said(w, r) \notin panel.messages
                        THEN StartIssue(x, x.issue)
                        ELSE IF Said(w, Moderator) \in panel.messages THEN NextRound(x)
                        ELSE IF NotNow(w) THEN StartIssue(x, x.issue)
                        ELSE [x EXCEPT !.at = "reserve", !.work = Summary(x.issue, x.round)]
                 /\ worker'[w] = y
    BY <1>1, <2>1, PutIsNext DEF PanelInv, SumUp
  <2> QED BY <2>2
<1>4. y.job = "discuss"
  <2>1. DOMAIN x = Columns
    BY <1>1, RequestColumns
  <2>2. CASE y = StartIssue(x, x.issue)
    BY <1>2, <2>1, <2>2, NextOfJob
  <2>3. CASE y = NextRound(x)
    BY <1>2, <2>1, <2>3, NextOfJob
  <2>4. CASE \E work : y = [x EXCEPT !.at = "reserve", !.work = work]
    BY <1>2, <2>1, <2>4, JobStays
  <2> QED BY <1>3, <2>2, <2>3, <2>4
<1> QED BY <1>2, <1>3, <1>4, AloneAtWork, PanelKeptFollows

LEMMA TurnSavedFollows ==
    ASSUME PanelInv, NEW w \in Workers, Alone(w), TurnSaved(w)
    PROVE  Alone(w)' /\ Follows
<1>1. PICK x \in Request : x = worker[w] /\ x.job = "discuss"
  BY AtSteps DEF PanelInv, TurnSaved, Answered, On
<1>2. panel.status \notin Terminal
  BY DEF TurnSaved, Answered
<1>3. \/ panel' = panel
      \/ \E messages : panel' = [panel EXCEPT !.messages = messages]
  BY DEF TurnSaved
<1>4. panel'.status = panel.status /\ Follows
  BY <1>3, PanelColumns, RowsWritten, PanelKeptFollows DEF PanelInv
<1>5. PICK y, todo : /\ worker'[w] = y
                     /\ y = [x EXCEPT !.at = "turns", !.work = NoWork, !.n = 0, !.todo = todo]
  BY <1>1, PutIsNext DEF PanelInv, TurnSaved
<1>6. y.job = "discuss"
  BY <1>1, <1>5 DEF Request
<1> QED BY <1>2, <1>4, <1>5, <1>6, AloneAtWork

LEMMA SummarySavedFollows ==
    ASSUME PanelInv, NEW w \in Workers, Alone(w), SummarySaved(w)
    PROVE  Alone(w)' /\ Follows
<1>1. PICK x \in Request : x = worker[w] /\ x.job = "discuss"
  BY AtSteps DEF PanelInv, SummarySaved, Answered, On
<1>2. panel.status \notin Terminal
  BY DEF SummarySaved, Answered
<1>3. PICK messages, issues, open, rec, i :
        /\ panel' = [panel EXCEPT !.messages = messages, !.issues = issues]
        /\ rec = [x EXCEPT !.seen.open = open]
        /\ Put(w, StartIssue(rec, i)) \/ Put(w, NextRound(rec))
  <2>1. PICK i : i = x.issue
    OBVIOUS
  <2>2. PICK stop \in BOOLEAN :
          LET said == ~NotNow(w) /\ Said(w, Moderator) \notin panel.messages
              closed == said /\ stop
              rec == [x EXCEPT !.seen.open = IF closed THEN @ \ {i} ELSE @]
          IN
          /\ panel' = [panel EXCEPT !.messages = IF said THEN @ \cup {Said(w, Moderator)} ELSE @,
                                    !.issues = IF closed THEN [@ EXCEPT ![i] = "closed"] ELSE @]
          /\ Put(w, IF stop THEN StartIssue(rec, i) ELSE NextRound(rec))
    BY <1>1, <2>1 DEF SummarySaved
  <2>3. PICK said \in BOOLEAN : said = (~NotNow(w) /\ Said(w, Moderator) \notin panel.messages)
    OBVIOUS
  <2>4. PICK closed \in BOOLEAN : closed = (said /\ stop)
    OBVIOUS
  <2>5. PICK m : m = IF said THEN panel.messages \cup {Said(w, Moderator)} ELSE panel.messages
    OBVIOUS
  <2>6. PICK is : is = IF closed THEN [panel.issues EXCEPT ![i] = "closed"] ELSE panel.issues
    OBVIOUS
  <2>7. PICK open : open = IF closed THEN x.seen.open \ {i} ELSE x.seen.open
    OBVIOUS
  <2>8. PICK rec : rec = [x EXCEPT !.seen.open = open]
    OBVIOUS
  <2>9. panel' = [panel EXCEPT !.messages = m, !.issues = is]
    BY <2>2, <2>3, <2>4, <2>5, <2>6
  <2>10. Put(w, IF stop THEN StartIssue(rec, i) ELSE NextRound(rec))
    BY <2>2, <2>3, <2>4, <2>7, <2>8
  <2> QED BY <2>8, <2>9, <2>10
<1>4. panel'.status = panel.status /\ Follows
  BY <1>3, PanelColumns, RowsWritten DEF PanelInv
<1>5. rec.job = "discuss" /\ DOMAIN rec = Columns
  BY <1>1, <1>3, RequestColumns DEF Columns
<1>6. PICK y : worker'[w] = y /\ (y = StartIssue(rec, i) \/ y = NextRound(rec))
  BY <1>3, PutIsNext DEF PanelInv
<1>7. y.job = "discuss"
  BY <1>5, <1>6, NextOfJob
<1> QED BY <1>2, <1>4, <1>6, <1>7, AloneAtWork

LEMMA SummaryFailedFollows ==
    ASSUME PanelInv, NEW w \in Workers, Alone(w), SummaryFailed(w)
    PROVE  Alone(w)' /\ Follows
<1>1. PICK x \in Requests : x = worker[w] /\ Calling(x) /\ x.work[1] = "discussion_summary"
  BY AtSteps DEF PanelInv, SummaryFailed, At, Calling
<1>2. panel.status \notin Terminal
  BY <1>1, JobOfCall DEF On, Alone
<1> QED BY <1>2, AloneAtRest, SettleFollows DEF PanelInv, SummaryFailed

LEMMA ReaderFailedFollows ==
    ASSUME PanelInv, NEW w \in Workers, Alone(w), ReaderFailed(w)
    PROVE  Alone(w)' /\ Follows
<1>1. PICK x \in Requests : /\ x = worker[w] /\ Calling(x)
                            /\ x.work[1] \in {"discussion_turn", "final_ballot"}
  BY AtSteps DEF PanelInv, ReaderFailed, At, Calling
<1>2. panel.status \notin Terminal
  BY <1>1, JobOfCall DEF On, Alone
<1>3. PICK r : /\ EliminateNow(r)
               /\ IF TooFewWithout(panel, r) THEN Return(w) ELSE Put(w, Begin("discuss"))
  BY DEF ReaderFailed
<1>4. Follows /\ (~TooFewWithout(panel, r) => panel'.status = panel.status)
  BY <1>2, <1>3, EliminateFollows DEF PanelInv
<1>5. CASE TooFewWithout(panel, r)
  BY <1>3, <1>4, <1>5, AloneAtRest
<1>6. CASE ~TooFewWithout(panel, r)
  <2>1. PICK y : y = Begin("discuss") /\ worker'[w] = y
    BY <1>3, <1>6, PutIsNext DEF PanelInv
  <2> QED BY <1>2, <1>4, <1>6, <2>1, IdleJob, AloneAtWork
<1> QED BY <1>5, <1>6

LEMMA CloseFollows ==
    ASSUME PanelInv, NEW w \in Workers, Alone(w), Close(w)
    PROVE  Alone(w)' /\ Follows
<1>1. PICK x \in Requests : x = worker[w] /\ x \in Request /\ x.at = "close" /\ x.job = "discuss"
  BY AtSteps DEF PanelInv, Close, At, Requests, Fits
<1>2. panel.status \notin Terminal
  BY <1>1 DEF Alone, On
<1>3. PICK to : to = IF panel.status = "discussing" /\ x.seen.open \cap Agenda(panel) = {}
                     THEN "final_balloting" ELSE panel.status
  OBVIOUS
<1>4. panel' = [panel EXCEPT !.status = to]
  BY <1>1, <1>3 DEF Close
<1>5. /\ panel'.status = to /\ panel'.reports = panel.reports
      /\ panel'.initial = panel.initial /\ panel'.final = panel.final
  BY <1>4, PanelColumns DEF PanelInv
<1>6. PICK y : /\ worker'[w] = y
               /\ \/ \E votes : y = [x EXCEPT !.at = "finals", !.votes = votes]
                  \/ y = [x EXCEPT !.at = "tally"]
  <2>1. PICK votes : Put(w, IF to = "final_balloting"
                            THEN [x EXCEPT !.at = "finals", !.votes = votes]
                            ELSE [x EXCEPT !.at = "tally"])
    BY <1>1, <1>3 DEF Close
  <2> QED BY <2>1, PutIsNext DEF PanelInv
<1>7. y.job = "discuss"
  BY <1>1, <1>6 DEF Request
<1>8. CASE to = panel.status
  BY <1>2, <1>5, <1>6, <1>7, <1>8, AloneAtWork, MachineRests
<1>9. CASE to # panel.status
  <2>1. panel.status = "discussing" /\ to = "final_balloting"
    BY <1>3, <1>9
  <2>2. Machine!Legal(panel.status, to) /\ to \in Status /\ to \notin Terminal
    BY <2>1, LegalMoves DEF Status, Terminal
  <2>3. Follows
    BY <1>5, <2>1, <2>2, StatusMoves
  <2> QED BY <1>5, <1>6, <1>7, <2>2, <2>3, AloneAtWork
<1> QED BY <1>8, <1>9

LEMMA TakeFinalFollows ==
    ASSUME PanelInv, NEW w \in Workers, Alone(w), TakeFinal(w)
    PROVE  Alone(w)' /\ Follows
<1>1. PICK x \in Requests : x = worker[w] /\ x \in Request /\ x.at = "finals"
  BY AtSteps DEF PanelInv, TakeFinal, At
<1>2. panel' = panel /\ x.job = "discuss" /\ panel.status \notin Terminal /\ DOMAIN x = Columns
  BY <1>1, AtFinals, RequestColumns DEF TakeFinal, Alone, On
<1>3. PICK p : p = FirstByIssue(x.votes)
  OBVIOUS
<1>4. PICK y : /\ y = IF x.votes = {} THEN [x EXCEPT !.at = "tally"]
                      ELSE IF FinalClosed(w, p) THEN [x EXCEPT !.votes = @ \ {p}]
                      ELSE [x EXCEPT !.at = "reserve", !.work = Final(p)]
               /\ worker'[w] = y
  BY <1>1, <1>3, PutIsNext DEF PanelInv, TakeFinal
<1>5. y.job = "discuss"
  BY <1>2, <1>4, JobStays
<1> QED BY <1>2, <1>4, <1>5, AloneAtWork, PanelKeptFollows

LEMMA FinalSavedFollows ==
    ASSUME PanelInv, NEW w \in Workers, Alone(w), FinalSaved(w)
    PROVE  Alone(w)' /\ Follows
<1>1. PICK x \in Request : x = worker[w] /\ x.job = "discuss"
  BY AtSteps DEF PanelInv, FinalSaved, Answered, On
<1>2. panel.status \notin Terminal
  BY DEF FinalSaved, Answered
<1>3. \/ panel' = panel
      \/ \E finals : panel' = [panel EXCEPT !.finals = finals]
  BY DEF FinalSaved
<1>4. panel'.status = panel.status /\ Follows
  BY <1>3, PanelColumns, RowsWritten, PanelKeptFollows DEF PanelInv
<1>5. PICK y, votes : /\ worker'[w] = y
                      /\ y = [x EXCEPT !.at = "finals", !.work = NoWork, !.n = 0, !.votes = votes]
  BY <1>1, PutIsNext DEF PanelInv, FinalSaved
<1>6. y.job = "discuss"
  BY <1>1, <1>5 DEF Request
<1> QED BY <1>2, <1>4, <1>5, <1>6, AloneAtWork

LEMMA TallyFollows ==
    ASSUME PanelInv, NEW w \in Workers, Alone(w), Tally(w)
    PROVE  Alone(w)' /\ Follows
<1>1. Alone(w)'
  BY AloneAtRest DEF Tally
<1>2. CASE panel' = panel
  BY <1>1, <1>2, PanelKeptFollows
<1>3. CASE panel' # panel
  <2>1. PICK to : to = "final_ballots_locked"
    OBVIOUS
  <2>2. panel' = [panel EXCEPT !.status = to, !.final = TRUE] /\ panel.status = "final_balloting"
    BY <1>3, <2>1 DEF Tally
  <2>3. /\ panel'.status = to /\ panel'.reports = panel.reports
        /\ panel'.initial = panel.initial /\ panel'.final = TRUE
    BY <2>2, PanelColumns DEF PanelInv
  <2>4. Machine!Legal(panel.status, to) /\ to \in Status
    BY <2>1, <2>2, LegalMoves DEF Status
  <2>5. /\ panel'.reports # 0 <=> panel.reports # 0 \/ to = "initial_reports_locked"
        /\ panel'.initial <=> panel.initial \/ to = "initial_ballots_locked"
        /\ panel'.final <=> panel.final \/ to = "final_ballots_locked"
    BY <2>1, <2>3
  <2>6. Follows
    BY <2>3, <2>4, <2>5, Advances
  <2> QED BY <1>1, <2>6
<1> QED BY <1>2, <1>3

-----------------------------------------------------------------------------
(* generate_editor_handoff_report. *)
LEMMA HandoffEnterFollows ==
    ASSUME PanelInv, NEW w \in Workers, Alone(w), HandoffEnter(w)
    PROVE  Alone(w)' /\ Follows
<1>1. panel.status \notin Terminal
  BY DEF HandoffEnter, On, Alone
<1>2. CASE panel' = panel /\ Return(w)
  BY <1>2, AloneAtRest, PanelKeptFollows
<1>3. CASE ~(panel' = panel /\ Return(w))
  <2>1. /\ panel' = [panel EXCEPT !.status = "report_generating"]
        /\ panel.status \in {"final_ballots_locked", "report_generating"}
    BY <1>1, <1>3 DEF HandoffEnter, Reportable, Terminal
  <2>2. PICK y, work, snap : /\ worker'[w] = y
                             /\ y = [Begin("handoff") EXCEPT !.at = "reserve", !.work = work,
                                                             !.snap = snap]
    BY <1>3, PutIsNext DEF PanelInv, HandoffEnter
  <2>3. y.job = "handoff"
    <3>1. DOMAIN Begin("handoff") = Columns /\ Begin("handoff").job = "handoff"
      BY FreshRequest, RequestColumns, IdleJob DEF Jobs
    <3> QED BY <2>2, <3>1 DEF Columns
  <2>4. /\ panel'.status = "report_generating" /\ panel'.reports = panel.reports
        /\ panel'.initial = panel.initial /\ panel'.final = panel.final
    BY <2>1, PanelColumns DEF PanelInv
  <2>5. Alone(w)'
    BY <2>2, <2>3, <2>4 DEF Alone, On, Terminal
  <2>6. CASE panel.status = "report_generating"
    BY <2>4, <2>5, <2>6, MachineRests
  <2>7. CASE panel.status = "final_ballots_locked"
    <3>1. Machine!Legal(panel.status, "report_generating") /\ "report_generating" \in Status
      BY <2>7, LegalMoves DEF Status
    <3> QED BY <2>4, <2>5, <3>1, StatusMoves
  <2> QED BY <2>1, <2>6, <2>7
<1> QED BY <1>2, <1>3

(* The report is composed or refused where it was called for.               *)
LEMMA ReportAwaited ==
    ASSUME NEW w, Alone(w), At(w, "calling"), On(w, "handoff")
    PROVE  panel.status = "report_generating"
BY DEF Alone, On, At, Calling

LEMMA RefusalFollows ==
    ASSUME PanelInv, panel.status = "report_generating",
           panel' = [panel EXCEPT !.status = "final_ballots_locked"]
    PROVE  Follows
<1>1. /\ panel'.status = "final_ballots_locked" /\ panel'.reports = panel.reports
      /\ panel'.initial = panel.initial /\ panel'.final = panel.final
  BY PanelColumns DEF PanelInv
<1>2. Seals(panel') = Seals(panel)
  BY <1>1 DEF Seals
<1> QED BY <1>1, <1>2 DEF Follows, Machine!RefuseReport

LEMMA CompletionFollows ==
    ASSUME PanelInv, panel.status = "report_generating", panel' = Complete(panel)
    PROVE  Follows
<1>1. PICK d : d = (panel.degraded \/ Completed(panel) # Reader)
  OBVIOUS
<1>2. PICK to : to = IF d THEN "degraded_completed" ELSE "completed"
  OBVIOUS
<1>3. PICK p : p = [panel EXCEPT !.status = to, !.ended = TRUE]
  OBVIOUS
<1>4. panel' = [p EXCEPT !.degraded = d, !.handoffs = Append(p.handoffs, ReportOf(panel))]
  BY <1>1, <1>2, <1>3 DEF Complete, Settle
<1>5. /\ p.status = to /\ p.reports = panel.reports /\ DOMAIN p = DOMAIN panel
      /\ p.initial = panel.initial /\ p.final = panel.final
  BY <1>3, PanelColumns DEF PanelInv
<1>6. /\ panel'.status = to /\ panel'.reports = panel.reports
      /\ panel'.initial = panel.initial /\ panel'.final = panel.final
  BY <1>4, <1>5, PanelColumns DEF PanelInv
<1>7. to \in {"completed", "degraded_completed"}
  BY <1>2
<1>8. Machine!Legal(panel.status, to)
  BY <1>7, LegalMoves
<1> QED BY <1>6, <1>7, <1>8, StatusMoves DEF Status

LEMMA ComposedFollows ==
    ASSUME PanelInv, NEW w \in Workers, Alone(w), Composed(w)
    PROVE  Alone(w)' /\ Follows
<1>1. Alone(w)' /\ panel.status = "report_generating"
  BY AloneAtRest, ReportAwaited DEF Composed, Answered
<1>2. \/ panel' = panel
      \/ panel' = [panel EXCEPT !.status = "final_ballots_locked"]
      \/ panel' = Complete(panel)
  BY DEF Composed
<1> QED BY <1>1, <1>2, PanelKeptFollows, RefusalFollows, CompletionFollows

LEMMA RejectedFollows ==
    ASSUME PanelInv, NEW w \in Workers, Alone(w), Rejected(w)
    PROVE  Alone(w)' /\ Follows
<1>1. Alone(w)' /\ panel.status = "report_generating"
  BY AloneAtRest, ReportAwaited DEF Rejected, Answered
<1>2. \/ panel' = panel
      \/ panel' = [panel EXCEPT !.status = "final_ballots_locked"]
  BY DEF Rejected
<1> QED BY <1>1, <1>2, PanelKeptFollows, RefusalFollows

LEMMA SynthesisFailedFollows ==
    ASSUME PanelInv, NEW w \in Workers, Alone(w), SynthesisFailed(w)
    PROVE  Alone(w)' /\ Follows
<1>1. Alone(w)' /\ panel.status \notin Terminal
  BY AloneAtRest DEF SynthesisFailed, On, Alone
<1>2. panel' = panel \/ SettleNow("failed")
  BY DEF SynthesisFailed
<1> QED BY <1>1, <1>2, PanelKeptFollows, SettleFollows DEF PanelInv

-----------------------------------------------------------------------------
LEMMA StepFollows ==
    ASSUME PanelInv, NEW w \in Workers, Alone(w), Step(w)
    PROVE  Alone(w)' /\ Follows
<1>1. CASE Refuse(w) \/ Reserve(w) \/ AnswerLate(w)
  BY <1>1, RefuseFollows, ReserveFollows, AnswerLateFollows
<1>2. CASE AnswerExpired(w)
  BY <1>2, AnswerFailsFollows DEF AnswerExpired
<1>3. CASE ReadEnter(w) \/ ReadSaved(w) \/ ReadFailed(w) \/ Quorum(w)
  BY <1>3, ReadEnterFollows, ReadSavedFollows, ReadFailedFollows, QuorumFollows
<1>4. CASE BallotEnter(w) \/ Extracted(w) \/ ExtractionFailed(w) \/ Cast(w)
  BY <1>4, BallotEnterFollows, ExtractedFollows, ExtractionFailedFollows, CastFollows
<1>5. CASE BallotSaved(w) \/ BallotFailed(w) \/ Seal(w)
  BY <1>5, BallotSavedFollows, BallotFailedFollows, SealFollows
<1>6. CASE DiscussEnter(w) \/ TakeTurn(w) \/ SumUp(w) \/ TurnSaved(w)
  BY <1>6, DiscussEnterFollows, TakeTurnFollows, SumUpFollows, TurnSavedFollows
<1>7. CASE SummarySaved(w) \/ SummaryFailed(w) \/ ReaderFailed(w)
  BY <1>7, SummarySavedFollows, SummaryFailedFollows, ReaderFailedFollows
<1>8. CASE Close(w) \/ TakeFinal(w) \/ FinalSaved(w) \/ Tally(w)
  BY <1>8, CloseFollows, TakeFinalFollows, FinalSavedFollows, TallyFollows
<1>9. CASE HandoffEnter(w) \/ Composed(w) \/ SynthesisFailed(w)
  BY <1>9, HandoffEnterFollows, ComposedFollows, SynthesisFailedFollows
<1> QED BY <1>1, <1>2, <1>3, <1>4, <1>5, <1>6, <1>7, <1>8, <1>9 DEF Step

LEMMA PanelFollows ==
    ASSUME NEW w, Workers = {w}, "cancel" \notin Happenings,
           PanelInv, Alone(w), [PanelNext]_panelVars
    PROVE  Alone(w)' /\ Follows
<1>1. w \in Workers /\ \A v \in Workers : v = w
  OBVIOUS
<1>2. CASE UNCHANGED panelVars
  BY <1>2, PanelKeptFollows DEF panelVars, Alone, On
<1>3. CASE Resume(w) \/ Step(w)
  BY <1>1, <1>3, ResumeFollows, StepFollows
<1>4. CASE Misanswer(w)
  BY <1>1, <1>4, AnswerFailsFollows, RejectedFollows DEF Misanswer
<1>5. CASE Abort(w) \/ Crash(w) \/ Expire
  BY <1>1, <1>5, AbortFollows, CrashFollows, ExpireFollows
<1> QED BY <1>1, <1>2, <1>3, <1>4, <1>5 DEF PanelNext

LEMMA MachineStarts ==
    ASSUME NEW w, Workers = {w}, PanelInit
    PROVE  Alone(w) /\ Machine!MachineInit
<1>1. worker[w] = Idle /\ panel = NewPanel
  BY DEF PanelInit
<1>2. Alone(w)
  BY <1>1, IdleJob DEF Alone, On
<1>3. /\ panel.status = "independent_reading" /\ panel.reports = 0
      /\ panel.initial = FALSE /\ panel.final = FALSE
  BY <1>1 DEF NewPanel
<1>4. Seals(panel) = {}
  BY <1>3 DEF Seals
<1> QED BY <1>2, <1>3, <1>4 DEF Machine!MachineInit

(* One request at a time, on a panel its author does not cancel, moves the   *)
(* panel only along _LEGAL_TRANSITIONS and sets its seals with its statuses,*)
(* whatever the provider answers, the task of the request cancelled in a    *)
(* call and crashes included; only a report that is refused leads back.     *)
THEOREM OneRequestFollowsMachine ==
    ASSUME NEW w, Workers = {w}, "cancel" \notin Happenings
    PROVE  PanelSpec => FollowsMachine
<1>1. PanelInit => Alone(w) /\ Machine!MachineInit
  BY MachineStarts
<1>2. PanelInv /\ Alone(w) /\ [PanelNext]_panelVars =>
        Alone(w)' /\ [Machine!Advance \/ Machine!RefuseReport]_<<panel.status, Seals(panel)>>
  BY PanelFollows DEF Follows
<1> QED BY <1>1, <1>2, PanelInvariant, PTL DEF PanelSpec, FollowsMachine, Machine!MachineSpec
=============================================================================
