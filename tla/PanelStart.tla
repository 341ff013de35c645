------------------------------- MODULE PanelStart -------------------------------
(***************************************************************************)
(* How a chapter gets its reader panels.  Two ways lead to one: the chapter *)
(* run starts a panel of its own in the transaction in which it becomes     *)
(* REVISION_READY (_enter_revision_ready_locked, RevisionReadinessStore,    *)
(* initialize_from_revision_ready), and the author starts others at any     *)
(* time, with or without an idempotency key (_initialize_session).  This    *)
(* module composes them with the run of ChapterProduction.                  *)
(*                                                                          *)
(* A panel is what decides about the next one: the READY pair it is bound   *)
(* to, the request it was started with, its key and whether a new request   *)
(* may still be given it; what it does is in ReaderPanel.  The stale flag   *)
(* is left out: it is set whenever a panel is loaded whose version is not   *)
(* the current one, and no version becomes current again.                   *)
(* The chapter has one document, and mode "off", in which nothing is        *)
(* started, is the configuration without Mode = "on".                       *)
(***************************************************************************)
EXTENDS ChapterProduction, Sequences

CONSTANTS
    Mode,     \* reader_panel_mode of the service: "on" for any but off
    Goals,    \* requests the author may make of one version
    Keys,     \* idempotency keys
    MaxManual \* bound on the panels the author starts
ASSUME PanelBounds == Mode \in {"on", "off"} /\ MaxManual \in Nat /\ None \notin Goals \cup Keys

VARIABLES
    pairs,  \* READY checkpoints with their events, oldest first
    panels  \* reader_panel_sessions of the chapter, oldest first

panelStartVars == <<st, canon, reports, actions, pairs, panels>>

StartInit == Init /\ pairs = <<>> /\ panels = <<>>

-----------------------------------------------------------------------------
(* A READY pair is the text of the checkpoint with the reports it names.    *)
PairRow == [version : Nat, report : [Stage -> ReportIds \cup {None}]]
ASSUME PairAssumption == None \notin PairRow
PairOf(s) == [version |-> s.version, report |-> s.report]
BoundRows(p) == {p.report[g] : g \in Stage} \ {None}
RowsOf(v) == {r \in ReportIds : reports[r] # None /\ reports[r].version = v}
(* Mutant of Exact: READY states are restored against the current version.  *)
ExactNow(p) ==
    /\ p.version = canon
    /\ Cardinality(BoundRows(p)) = Cardinality(RequiredStages(st))
    /\ RowsOf(p.version) = BoundRows(p)

Exact(p) ==
    /\ Cardinality(BoundRows(p)) = Cardinality(RequiredStages(st))
    /\ RowsOf(p.version) = BoundRows(p)
    /\ \A g \in Stage : p.report[g] # None =>
          reports[p.report[g]].stage = g /\ reports[p.report[g]].outcome # "blocking"

(* validated_pairs: every READY checkpoint of the run is restored again.    *)
PairsValid == \A i \in DOMAIN pairs : Exact(pairs[i])

(* A request the author made; the run's own carries the pair as well.       *)
Panel(binding, version, goal, key) ==
    [binding |-> binding, version |-> version, goal |-> goal, key |-> key,
     status |-> "running"]
Claims(p) == {i \in DOMAIN panels : panels[i].binding # None
                                      /\ panels[i].binding.version = p.version}

(* initialize_from_revision_ready: a panel that claims the pair's key must  *)
(* be bound to exactly this pair, and there is at most one.                 *)
CanBind(p) == \A i, j \in Claims(p) : i = j /\ panels[i].binding = p

(* Mutant of StartReadyPanel: a panel the author has on the version is reused.*)
ReuseManualPanel(p) ==
    panels' = IF Mode = "off" \/ \E i \in DOMAIN panels : panels[i].version = p.version
              THEN panels ELSE Append(panels, Panel(p, p.version, None, None))

StartReadyPanel(p) ==
    panels' = IF Mode = "off" \/ Claims(p) # {} THEN panels
              ELSE Append(panels, Panel(p, p.version, None, None))

(* RevisionReadinessStore.enter and what follows it in the transaction.     *)
CanEnter ==
    LET p == PairOf(st) IN
    /\ Exact(p) /\ PairsValid
    /\ \A i \in DOMAIN pairs : pairs[i].version # p.version
    /\ Mode = "off" \/ CanBind(p)
EnterReady ==
    /\ CanEnter
    /\ pairs' = Append(pairs, PairOf(st))
    /\ StartReadyPanel(PairOf(st))

(* The transaction that gives the run its last approval, a review of Lore   *)
(* or the author's acceptance of its warning, goes on to make it ready: in  *)
(* between nothing else happens, and the text is the current one.           *)
Due == st.status = "LORE_FINAL_REVIEW" /\ HasReport(st, "lore") /\ ~Awaiting(st)

ChapterStep ==
    /\ Next
    /\ Due' => canon = st.version
    /\ IF Due THEN st' = FinalizeReady(st) /\ EnterReady ELSE UNCHANGED <<pairs, panels>>

-----------------------------------------------------------------------------
(* initialize_session by the author, for any version of the document.       *)
Manual == {i \in DOMAIN panels : panels[i].binding = None}
SameRequest(i, v, goal) == i \in Manual /\ panels[i].version = v /\ panels[i].goal = goal
Alive(i) == panels[i].status \in {"running", "completed"}

(* Mutant of Reusable: a panel that has completed is not given out again.   *)
RunningReusable(v, goal) ==
    {i \in DOMAIN panels : SameRequest(i, v, goal) /\ panels[i].status = "running"}

Reusable(v, goal) == {i \in DOMAIN panels : SameRequest(i, v, goal) /\ Alive(i)}

(* A known key finds its panel, or is refused for another request; without  *)
(* a key any panel on the request that was not lost is taken.  Neither      *)
(* writes anything.                                                         *)
StartManual(v, goal, key) ==
    /\ Cardinality(Manual) < MaxManual
    /\ v \in 1 .. canon
    /\ IF key = None THEN Reusable(v, goal) = {} ELSE \A i \in Manual : panels[i].key # key
    /\ panels' = Append(panels, Panel(None, v, goal, key))
    /\ UNCHANGED <<vars, pairs>>

(* The work on a panel ends (ReaderPanel): completed, degraded or not, or   *)
(* lost, that is failed or cancelled.  Nobody asks this of the run's own.   *)
End(i, status) ==
    /\ i \in Manual /\ panels[i].status = "running"
    /\ panels' = [panels EXCEPT ![i].status = status]
    /\ UNCHANGED <<vars, pairs>>

PanelStep ==
    /\ ~Due
    /\ \/ \E v \in 1 .. MaxVersion, goal \in Goals, key \in Keys \cup {None} : StartManual(v, goal, key)
       \/ \E i \in DOMAIN panels, status \in {"completed", "lost"} : End(i, status)

StartNext == ChapterStep \/ PanelStep
StartSpec == StartInit /\ [][StartNext]_panelStartVars

-----------------------------------------------------------------------------
(* A chapter that is ready has its panel, whatever panels the author has     *)
(* started or lost: each READY state of the run has exactly one panel, for  *)
(* its text and its reports, and the run stands on the last of them.        *)
ReadyHasPanel ==
    /\ Mode = "on" => \A n \in DOMAIN pairs :
          \E i \in DOMAIN panels : \A j \in DOMAIN panels :
              /\ i = j <=> (panels[j].binding = pairs[n])
              /\ i = j => panels[j].version = pairs[n].version
    /\ Phase(st) \in Finalized => pairs # <<>> /\ pairs[Len(pairs)] = PairOf(st)

(* A start that is repeated starts nothing: a key names one panel, and a     *)
(* request without one makes a panel only when every earlier panel on the   *)
(* same request was lost.                                                   *)
NoTwins ==
    \A i, j \in Manual : i < j =>
        /\ panels[i].key = panels[j].key => panels[i].key = None
        /\ panels[j].key = None /\ SameRequest(i, panels[j].version, panels[j].goal) => ~Alive(i)

(* Nothing done to a chapter's panels, and no earlier READY state of the     *)
(* run, stands in the way of its last approval, which would otherwise be    *)
(* undone with the transaction and could not be given again.                *)
ReadyNotBlocked == Due => CanFinalizeReady(st, canon, reports) /\ CanEnter
=============================================================================
