----------------------------- MODULE PanelContract -----------------------------
(***************************************************************************)
(* What a reader panel agrees to (workflows/reader_panel.py): the modes and *)
(* their budgets, the configurations the service takes up, the statuses and *)
(* the transitions between them, and how the final ballots on an issue are  *)
(* classified.  All of it is pure; PanelSession and PanelStart use it.      *)
(*                                                                          *)
(* Token and time budgets, the names of the profiles and the flags that no  *)
(* guard reads are left out.  A classification reads nothing of a vote but  *)
(* its severity, whether it is a target reader's and whether it names a     *)
(* fatal risk, so that votes are counts.                                    *)
(***************************************************************************)
EXTENDS Integers, FiniteSets

Modes == {"off", "quick", "standard", "panel"}

Status == {"created", "preparing", "independent_reading", "initial_reports_locked",
           "issue_extraction", "initial_balloting", "initial_ballots_locked", "discussing",
           "final_balloting", "final_ballots_locked", "report_generating",
           "completed", "degraded_completed", "failed", "cancelled"}
Terminal == {"completed", "degraded_completed", "failed", "cancelled"}

-----------------------------------------------------------------------------
(* ReaderPanelConfig and its presets.                                       *)
Config(readers, issues, agenda, rounds, min, calls) ==
    [readers |-> readers, issues |-> issues, agenda |-> agenda, rounds |-> rounds,
     min |-> min, calls |-> calls, phaseCalls |-> 20, messages |-> 200,
     attempts |-> 3, repairs |-> 1]

Preset(mode) ==
    CASE mode = "off" -> Config(0, 0, 0, 0, 0, 0)
      [] mode = "quick" -> Config(2, 3, 2, 1, 2, 30)
      [] mode = "standard" -> Config(4, 6, 4, 2, 3, 80)
      [] mode = "panel" -> Config(6, 8, 6, 3, 4, 150)

(* ReaderPanelConfig.__post_init__: what may be asked for.                  *)
ValidConfig(mode, c) ==
    /\ c.min >= 0
    /\ c.readers >= c.min
    /\ c.repairs = 1
    /\ mode # "off" =>
         c.min > 0 /\ c.calls > 0 /\ c.phaseCalls > 0 /\ c.messages > 0 /\ c.attempts > 0

(* _validate_config_snapshot: what a session is worked with.                *)
UsableConfig(mode, c) ==
    /\ mode \in Modes \ {"off"}
    /\ c.readers > 0 /\ c.min \in 1 .. c.readers
    /\ c.repairs = 1
    /\ c.calls > 0 /\ c.phaseCalls > 0 /\ c.messages > 0 /\ c.attempts > 0
    /\ c.issues >= 0 /\ c.agenda >= 0 /\ c.rounds >= 0
    /\ c.agenda <= c.issues
    /\ c.phaseCalls <= c.calls

(* ReaderPanelStartRequest: the preset of the mode, fewer readers chosen by *)
(* the author, four numbers of the preset replaced.                         *)
Invite(c, n) == [c EXCEPT !.readers = n, !.min = IF n < @ THEN n ELSE @]
Overridden(c, issues, agenda, rounds, min) ==
    [c EXCEPT !.issues = issues, !.agenda = agenda, !.rounds = rounds, !.min = min]
Requestable(c) == c.min <= c.readers /\ c.agenda <= c.issues

(* The calls of each phase when no reader is lost and no answer repeated.   *)
BallotCalls(c) == c.readers * c.issues
TurnCalls(c) == c.readers * c.agenda * c.rounds

-----------------------------------------------------------------------------
(* _LEGAL_TRANSITIONS, and the seals transition_to sets.                     *)
Forward ==
    {<<"created", "preparing">>, <<"preparing", "independent_reading">>,
     <<"independent_reading", "initial_reports_locked">>,
     <<"independent_reading", "degraded_completed">>,
     <<"initial_reports_locked", "issue_extraction">>,
     <<"issue_extraction", "initial_balloting">>, <<"issue_extraction", "report_generating">>,
     <<"initial_balloting", "initial_ballots_locked">>,
     <<"initial_ballots_locked", "discussing">>, <<"initial_ballots_locked", "final_balloting">>,
     <<"discussing", "final_balloting">>, <<"final_balloting", "final_ballots_locked">>,
     <<"final_ballots_locked", "report_generating">>,
     <<"report_generating", "completed">>, <<"report_generating", "degraded_completed">>}
Legal(from, to) ==
    /\ from \in Status \ Terminal
    /\ <<from, to>> \in Forward \/ to \in {"cancelled", "failed"}

Sealed(status) ==
    CASE status = "initial_reports_locked" -> {"reports"}
      [] status = "initial_ballots_locked" -> {"ballots"}
      [] status = "final_ballots_locked" -> {"finals"}
      [] OTHER -> {}

-----------------------------------------------------------------------------
(* classify_issue_consensus.  The ratios are compared without dividing: a   *)
(* quotient of integers reaches 0.75, 0.60 or 0.30 in floating point just   *)
(* when it does exactly.                                                    *)
Severity == {"none", "minor", "significant", "critical", "abstain"}
Tallies == [Severity -> Nat]

Valid(d) == d["none"] + d["minor"] + d["significant"] + d["critical"]
Serious(d) == d["significant"] + d["critical"]
AnyIssue(d) == Serious(d) + d["minor"]
Low(d) == d["none"] + d["minor"]

Strong(d) == 4 * Serious(d) >= 3 * Valid(d)
Polarized(d) == 10 * Low(d) >= 3 * Valid(d) /\ 10 * Serious(d) >= 3 * Valid(d)
Weak(d) == 10 * AnyIssue(d) >= 6 * Valid(d)

Consensus(d) ==
    IF Valid(d) = 0 THEN "inconclusive"
    ELSE IF Strong(d) THEN "strong_consensus"
    ELSE IF Polarized(d) THEN "polarized"
    ELSE IF Weak(d) THEN "weak_consensus"
    ELSE IF Low(d) > Serious(d) THEN "accepted"
    ELSE "inconclusive"

(* risk: some vote is critical with high confidence.                        *)
Priority(d, risk) ==
    IF risk \/ Consensus(d) = "strong_consensus" THEN "must_fix"
    ELSE IF Consensus(d) = "polarized" THEN "experiment"
    ELSE IF Consensus(d) = "accepted" THEN "keep"
    ELSE "manual_review"

(* The order of the issues in the report to the editor.                     *)
Rank(priority) ==
    CASE priority = "must_fix" -> 0 [] priority = "manual_review" -> 1
      [] priority = "experiment" -> 2 [] priority = "keep" -> 3

(* What the report says of an issue, from the final ballots of the readers  *)
(* that are left: ballots[r] has the severity, the confidence and the       *)
(* action reader r suggests.                                                *)
Actions == {"keep", "clarify", "compress", "expand", "move", "rewrite_local", "split",
            "experiment_ab", "manual_review"}
TallyOf(ballots) ==
    [s \in Severity |-> Cardinality({r \in DOMAIN ballots : ballots[r].severity = s})]
Fatal(ballots) ==
    \E r \in DOMAIN ballots : ballots[r].severity = "critical" /\ ballots[r].confidence = "high"
Suggesting(ballots, a) == {r \in DOMAIN ballots : ballots[r].action = a}
Popular(ballots) ==
    {a \in Actions : \A b \in Actions :
        Cardinality(Suggesting(ballots, b)) <= Cardinality(Suggesting(ballots, a))}
Finding(ballots) ==
    [class |-> Consensus(TallyOf(ballots)),
     priority |-> Priority(TallyOf(ballots), Fatal(ballots)),
     action |-> IF Cardinality(Popular(ballots)) = 1 THEN CHOOSE a \in Popular(ballots) : TRUE
                ELSE "manual_review"]

(* The same tally with one vote changed.                                    *)
Moved(d, from, to) == [d EXCEPT ![from] = @ - 1, ![to] = @ + 1]
=============================================================================
