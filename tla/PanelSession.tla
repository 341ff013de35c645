----------------------------- MODULE PanelSession -----------------------------
(***************************************************************************)
(* The durable state of one reader panel (reader_panel_service.py): the     *)
(* session row with its readers, reports, issues, ballots and messages, the *)
(* ledger of its provider calls, and what every request does around one     *)
(* such call (_invoke_provider): reserve an attempt under the session lock, *)
(* call the provider with nothing locked, settle the attempt under the lock *)
(* again.  The phases that make the calls are in ReaderPanel.               *)
(*                                                                          *)
(* Abstracted: token totals (MaxCalls stands for the budgets of a session   *)
(* and "budget_exhausted" for an answer larger than its reservation), what  *)
(* reports, ballots and messages say, the stale flag (no guard reads it),   *)
(* events and step counters.  "unavailable" stands for every error that is  *)
(* retried without a limit of its own, "unknown" for every one that is not. *)
(* The settlement of an attempt as UNKNOWN_COMMIT is left out: it needs an  *)
(* attempt as old as the time allowed to the session, and then the session  *)
(* is older and the budget error comes first.                               *)
(***************************************************************************)
EXTENDS PanelContract, Sequences

CONSTANTS
    ReaderCount, MinValid,       \* readers invited, readers a result needs
    BallotIssues, AgendaIssues,  \* issues voted on, issues discussed
    Rounds,                      \* rounds of a discussion
    MaxAttempts, MaxCalls, MaxPhaseCalls, MaxMessages,
    Workers,    \* concurrent requests to resume the panel
    Failures    \* how a provider call may fail
ASSUME PanelConfig ==
    /\ ReaderCount \in Nat /\ MinValid \in 1 .. ReaderCount
    /\ BallotIssues \in Nat /\ AgendaIssues \in 0 .. BallotIssues /\ Rounds \in Nat
    /\ MaxAttempts \in Nat \ {0} /\ MaxMessages \in Nat \ {0}
    /\ MaxCalls \in Nat \ {0} /\ MaxPhaseCalls \in 1 .. MaxCalls
    /\ Failures \subseteq {"unavailable", "invalid_output", "unknown", "budget_exhausted"}

VARIABLES
    panel,     \* the session and its rows
    attempts,  \* the ledger: attempt number n of each unit of work
    expired,   \* max_execution_seconds have passed since the session began
    worker     \* what each request holds outside the database

panelVars == <<panel, attempts, expired, worker>>

Reader == 1 .. ReaderCount
Issue == 1 .. BallotIssues
Moderator == 0

(* phase and work_key: <<phase, issue, round, reader>>, 0 where it has none. *)
Reading(r) == <<"initial_reading", 0, 0, r>>
Extraction == <<"issue_extraction", 0, 0, 0>>
Ballot(p) == <<"initial_ballot", p[2], 0, p[1]>>
Turn(i, k, r) == <<"discussion_turn", i, k, r>>
Summary(i, k) == <<"discussion_summary", i, k, Moderator>>
Final(p) == <<"final_ballot", p[2], 0, p[1]>>
Synthesis == <<"report_synthesis", 0, 0, 0>>
Pairs == Reader \X Issue
Work ==
    {Reading(r) : r \in Reader} \cup {Extraction, Synthesis}
        \cup {Ballot(p) : p \in Pairs} \cup {Final(p) : p \in Pairs}
        \cup {Turn(i, k, r) : i \in 1 .. AgendaIssues, k \in 1 .. Rounds, r \in Reader}
        \cup {Summary(i, k) : i \in 1 .. AgendaIssues, k \in 1 .. Rounds}
NoWork == <<"none", 0, 0, 0>>

-----------------------------------------------------------------------------
(* What initialize_session leaves.  reports counts the writes of            *)
(* initial_reports_locked_at, so that 0 is unlocked; issues holds the       *)
(* discussion status of each issue, sources the readers they came from;     *)
(* ended is the completion of the workflow run.                             *)
NewPanel ==
    [status |-> "independent_reading", reports |-> 0, initial |-> FALSE, final |-> FALSE,
     readers |-> [r \in Reader |-> "pending"], reported |-> {},
     issues |-> <<>>, sources |-> {}, ballots |-> {}, finals |-> {}, messages |-> {},
     degraded |-> FALSE, ended |-> FALSE, handoffs |-> <<>>]

Completed(p) == {r \in Reader : p.readers[r] = "completed"}
IssuesOf(p) == DOMAIN p.issues
OpenIssues(p) == {i \in IssuesOf(p) : p.issues[i] = "discussing"}

(* _settle_terminal *)
Settle(p, status) == [p EXCEPT !.status = status, !.ended = TRUE]

(* _terminate_started_invocations *)
CancelStarted(a) ==
    [k \in Work |-> [n \in DOMAIN a[k] |-> IF a[k][n] = "started" THEN "cancelled" ELSE a[k][n]]]

(* _settle_failed, _settle_cancellation *)
SettleNow(status) ==
    /\ panel' = Settle(panel, status)
    /\ attempts' = CancelStarted(attempts)

(* _eliminate_reader: without MinValid others the panel fails.              *)
TooFewWithout(p, r) == Cardinality(Completed(p) \ {r}) < MinValid
WithoutReader(p, r) == [p EXCEPT !.readers[r] = "failed"]
EliminateNow(r) ==
    IF TooFewWithout(panel, r)
    THEN /\ panel' = Settle(WithoutReader(panel, r), "failed")
         /\ attempts' = CancelStarted(attempts)
    ELSE /\ panel' = [WithoutReader(panel, r) EXCEPT !.degraded = TRUE]
         /\ UNCHANGED attempts

-----------------------------------------------------------------------------
(* What a request remembers: where it is, the unit of work it is at and its *)
(* attempt, the readers it works with, the readers and the ballots still to *)
(* do, the rows as it last read them and the sources its results are bound  *)
(* to.                                                                      *)
NoView == [status |-> "none", runs |-> {}, open |-> {}]
Idle == [at |-> "idle", job |-> "none", work |-> NoWork, n |-> 0, who |-> {}, todo |-> {},
         votes |-> {}, seen |-> NoView, snap |-> <<>>, issue |-> 0, round |-> 0]

At(w, step) == worker[w].at = step
On(w, job) == worker[w].job = job
Put(w, rec) == worker' = [worker EXCEPT ![w] = rec]
Go(w, step) == Put(w, [worker[w] EXCEPT !.at = step])
Return(w) == Put(w, Idle)

(* The rows the discussion reads stay as the identity map holds them until  *)
(* the next call reloads them; the reading phase keeps the status that way. *)
View(job, p) ==
    [status |-> IF job = "read" THEN p.status ELSE "none",
     runs |-> IF job = "discuss" THEN Completed(p) ELSE {},
     open |-> IF job = "discuss" THEN OpenIssues(p) ELSE {}]

PanelInit ==
    /\ panel = NewPanel
    /\ attempts = [k \in Work |-> <<>>]
    /\ expired = FALSE
    /\ worker = [w \in Workers |-> Idle]

-----------------------------------------------------------------------------
(* _invoke_provider up to the call.                                         *)
HasAttempt(k, status) == \E n \in DOMAIN attempts[k] : attempts[k][n] = status
InvalidAnswers(k) == Cardinality({n \in DOMAIN attempts[k] : attempts[k][n] = "invalid_output"})
Calls(S) == Cardinality({c \in S \X (1 .. MaxAttempts) : c[2] <= Len(attempts[c[1]])})
PhaseOf(k) == {j \in Work : j[1] = k[1]}
InBudget(k) ==
    /\ Calls(Work) < MaxCalls
    /\ Calls(PhaseOf(k)) < MaxPhaseCalls
    /\ Len(attempts[k]) < MaxAttempts
Speech(k) == k[1] \in {"discussion_turn", "discussion_summary"}

(* Mutant of Verdict: a call in flight does not keep a second one from being made.*)
VerdictIgnoringCalls(k) ==
    IF panel.status \in Terminal THEN "invalid_state"
    ELSE IF HasAttempt(k, "succeeded") THEN "already"
    ELSE IF InvalidAnswers(k) >= 2 \/ ~InBudget(k) THEN "failed"
    ELSE "granted"

(* The answer to a request for an attempt at k, in the order of the checks. *)
Verdict(k) ==
    IF panel.status \in Terminal THEN "invalid_state"
    ELSE IF expired \/ (Speech(k) /\ Cardinality(panel.messages) >= MaxMessages) THEN "failed"
    ELSE IF HasAttempt(k, "succeeded") THEN "already"
    ELSE IF HasAttempt(k, "unknown") THEN "failed"
    ELSE IF HasAttempt(k, "started") THEN "in_progress"
    ELSE IF InvalidAnswers(k) >= 2 \/ ~InBudget(k) THEN "failed"
    ELSE "granted"

(* Which refusals a request does not survive, and where the others lead.    *)
Ends(job, verdict) ==
    \/ verdict = "in_progress"
    \/ verdict = "already" /\ job = "handoff"
    \/ verdict = "invalid_state" /\ job = "read"
AfterRefusal(rec, verdict) ==
    IF Ends(rec.job, verdict) THEN Idle
    ELSE [rec EXCEPT !.at = IF verdict = "already" THEN "enter" ELSE "failed", !.n = 0]

Refuse(w) ==
    /\ At(w, "reserve")
    /\ Verdict(worker[w].work) # "granted"
    /\ Put(w, AfterRefusal([worker[w] EXCEPT !.seen = View(worker[w].job, panel)],
                           Verdict(worker[w].work)))
    /\ UNCHANGED <<panel, attempts, expired>>

Reserve(w) ==
    LET k == worker[w].work IN
    /\ At(w, "reserve")
    /\ Verdict(k) = "granted"
    /\ attempts' = [attempts EXCEPT ![k] = Append(@, "started")]
    /\ Put(w, [worker[w] EXCEPT !.at = "calling", !.n = Len(attempts[k]) + 1,
                               !.seen = View(worker[w].job, panel)])
    /\ UNCHANGED <<panel, expired>>

-----------------------------------------------------------------------------
(* _invoke_provider from the answer on, under the session lock again.       *)
Settled(w, status) == [attempts EXCEPT ![worker[w].work][worker[w].n] = status]
Pending(w) == attempts[worker[w].work][worker[w].n] = "started"

(* The attempt was settled meanwhile, or the panel: the answer is dropped.  *)
AnswerLate(w) ==
    /\ At(w, "calling")
    /\ ~Pending(w) \/ panel.status \in Terminal
    /\ attempts' = IF Pending(w) THEN Settled(w, "cancelled") ELSE attempts
    /\ Put(w, AfterRefusal(worker[w], "invalid_state"))
    /\ UNCHANGED <<panel, expired>>

Retried(w, code) ==
    /\ worker[w].n < MaxAttempts
    /\ code \in {"unavailable", "invalid_output"}
    /\ code = "invalid_output" => InvalidAnswers(worker[w].work) = 0
AnswerFails(w, code) ==
    /\ At(w, "calling") /\ Pending(w)
    /\ code # "budget_exhausted" \/ panel.status \notin Terminal
    /\ attempts' = Settled(w, code)
    /\ Put(w, [worker[w] EXCEPT !.at = IF Retried(w, code) THEN "reserve" ELSE "failed", !.n = 0,
                               !.seen.status = View(worker[w].job, panel).status])
    /\ UNCHANGED <<panel, expired>>

(* An answer after the time is up is lost like one that is too large.       *)
AnswerExpired(w) == expired /\ AnswerFails(w, "budget_exhausted")

(* Mutant of Answered: session and attempt are not read again after the call.*)
AnsweredUnchecked(w, job, phase) ==
    /\ At(w, "calling") /\ ~expired
    /\ On(w, job) /\ worker[w].work[1] = phase
    /\ UNCHANGED expired

(* The answer is good: the request that made the call commits the attempt   *)
(* together with its result.                                                *)
Answered(w, job, phase) ==
    /\ At(w, "calling") /\ Pending(w) /\ ~expired
    /\ panel.status \notin Terminal
    /\ On(w, job) /\ worker[w].work[1] = phase
    /\ UNCHANGED expired
Deliver(w) == attempts' = Settled(w, "succeeded")
(* The transaction that would have saved the result raises: the attempt     *)
(* stays started and the request ends.                                      *)
RollBack(w) == Return(w) /\ UNCHANGED <<panel, attempts>>

-----------------------------------------------------------------------------
(* cancel_session, at any time by the author.                               *)
Cancel ==
    /\ panel.status \notin Terminal \ {"cancelled"}
    /\ SettleNow("cancelled")
    /\ UNCHANGED <<expired, worker>>

(* _settle_cancelled_attempt: the task of a request is cancelled in a call. *)
Abort(w) ==
    /\ At(w, "calling")
    /\ IF panel.status \in Terminal \ {"cancelled"}
       THEN attempts' = (IF Pending(w) THEN Settled(w, "cancelled") ELSE attempts) /\ UNCHANGED panel
       ELSE SettleNow("cancelled")
    /\ Return(w)
    /\ UNCHANGED expired

(* The process of a request dies; nothing is left but the rows.             *)
Free(w) == worker[w].at \in {"idle", "dead"}
Crash(w) ==
    /\ ~Free(w)
    /\ Put(w, [Idle EXCEPT !.at = "dead"])
    /\ UNCHANGED <<panel, attempts, expired>>

Expire ==
    /\ ~expired /\ expired' = TRUE
    /\ UNCHANGED <<panel, attempts, worker>>
=============================================================================
