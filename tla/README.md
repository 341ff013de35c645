# GuraNovel: a TLA+ verification of its writing workflows

GuraNovel is a FastAPI/PostgreSQL backend (with a React client) in which an
author and a group of language-model agents write novels. A project is created
around a concept, its settings are worked out in conversations, a *chapter run*
takes one text from its outline and first draft through the author's gate and
the reviews of an editor, a chief editor and a lore keeper to a finalized
chapter, a panel of simulated readers judges it, and project maintenance changes
several documents at once. What makes the code hard is not any single step: it
is that every agent call is split into a transaction before it, a call with no
lock held, and a transaction after it; that a text lives half in PostgreSQL and
half in files; and that a process may die, a commit may have an unknown fate and
the author may keep typing between any two of these.

This directory says precisely what the code promises under those conditions,
model-checks it with TLC on small instances, and proves the central parts with
TLAPS for instances of any size.

## Inventory

Paths are below `src/backend/app/`, services below `services/`.

| component | state it keeps | operations | what is hard | what makes it correct |
|---|---|---|---|---|
| chapter state machine (`workflows/chapter_production.py`) | `ChapterProductionState`: status, bound version, bound reports, the open action, failure evidence; stored as append-only checkpoints | 17 transitions, checkpoint validation, failure and reconciliation | recoveries rebuild the state from rows; many orders of sending back, failing, recovering | a text is released only if every required stage approved exactly that text; every checkpoint can be read back |
| review services (`chapter_review_*.py`, `revision_readiness_store.py`) | `reviewer_claim` in the run's metadata, report rows, action rows | claim, provider call, persist, release, fail, recover, acknowledge, resolve, enter readiness | late and duplicate answers, swallowed errors, edits of the draft, of its context or of a setting while the reviewer is out | one verdict per text and stage; a verdict is about what is current, and on the settings the run has pinned; a claim is settled |
| revision sagas (`feedback_*`, `review_revision_*`, `manual_edit_saga.py`, `author_accept_coordination.py`, `chapter_draft_revision_coordinator.py`) | `provider_attempt` in the metadata, the consumed action row, the candidate version | claim, provider, persist, finalize, release, fail, acknowledge | the candidate is committed before the run is moved; a consumed gate must be given back | no decision is lost, no answer is written twice, none on a replaced text |
| recovery (`chapter_production_recovery*.py`) | none: re-derives evidence from rows | reconcile a lost attempt, retry a failed one, adopt the author's own edits | which order of partial writes it can meet | as above, and that it can finish what it meets |
| chapter segments (`documents/chapter_segments.py`, contracts of writer and reviewers) | none | cut a text, batch and select segments, merge replacements | boundaries of size and of Markdown blocks; a replaced part changes how the rest is read | segments cover the text; a merge changes what it was asked to |
| document service (`document_service.py`, `workspace/markdown_store.py`) | document and version rows; the current file, one snapshot file per version | write, restore, stage, commit, write staged files, read | no transaction spans the two stores; undo runs after the lock is gone | versions are an append-only history for every reader; no lost update |
| chapter finalization (`chapter_finalization_saga.py`) | final document, its version and files, `chapter_finalized` event | stage, materialize, complete, replay | three commits and two file writes | one final document with the approved content, one event |
| studio outline (`studio_outline*.py`) | batches of alternatives, the selected outline and its approved version | order, select, save, approve | answers that come late, are lost or are uncertain | the outline a draft is written from stays what it was |
| initial draft (`initial_*.py`, `provider_attempt_*.py`) | the run with its provider attempt, the draft document | start, resume, bootstrap, claim, provider, persist, finalize, fail, release, acknowledge | no document to lock yet; a draft that was written by a request that died | one draft, of the approved outline and never of replaced settings; no run is left that every request refuses |
| reader panel (`reader_panel_service.py`, `workflows/reader_panel.py`) | session row, readers, reports, issues, ballots, messages, the ledger of provider calls with its budgets | start (by the run, by the author), resume, reserve, call, settle, eliminate, seal, cancel, report | every phase is many calls, between which another request, a cancellation, a crash or the end of the time may come | one panel per ready text; each piece of work is paid for once, sealed ballots stay, nothing is added to an ended panel, the report counts who took part |
| setting collaboration (`setting_collaboration_service.py`, `setting_collection_service.py`, `setting_document_trash.py`) | conversation, attempts, messages, proposals; row locks on the collection and its documents | send, resume, finish, accept, discard; write, retitle, trash, archive | at-most-once dispatch with retrying clients; locks taken in two orders | one dispatch per message; a proposal is adopted once, on what its agent has seen |
| project maintenance (`project_maintenance_service.py`, `maintenance_change_service.py`, `workflows/project_maintenance.py`, `agents/maintenance_contracts.py`) | run, plans, actions, application cycles, reports | analyse, decide, apply, review, correct, resume each phase | one transaction over many documents, files after it; cycles rebuilt from rows | nothing is applied that was not approved for that version; a run that ends was reviewed |
| project creation (`project_creation_service.py`) | runs, gates, the concept document, the selection | start, regenerate, select, fuse, legacy entry points | three requests race for one gate with the provider in between; files after the commit | one story, one selection, of what was reviewed |
| graph runtime (`graph/`, `chapter_production_graph_*`, `chapter_phase_session_*`) | none | order the services' calls | its order is one interleaving of many | does not bypass the services |
| studio assistants (`studio_assistant_*.py`, `studio_feedback*.py`, `*_restore_points.py`) | messages, tool results | single-transaction requests | - | - |
| agents, llm, api, models, frontend | - | prompts, validation, HTTP, schema, UI | outside the state modelled here | - |

**Interaction.** The services share the PostgreSQL rows; each transaction of a
chapter locks the chapter and its run before it reads. The provider is called
between transactions. The sagas write texts through the document service. The
last approval of a text starts its panel in the same transaction. The document
endpoints (`api/routes_documents.py`) write the same documents without looking
at any run; they are the environment actions of the modules below (`EditDraft`,
`SaveDraft`, `EditSetting`, `EditConcept`, `EditDocument`, the endpoints of
`SettingCollection`).

The hazards, each at its line, are in `PROJECT.json` with the properties that
cover them.

## Modules

```
                 ReleaseGate (abstract)
                      ^ refined by
ChapterState <-- ChapterProduction <-- ReviewClaim, RevisionSaga,
                                       FinalizationSaga, PanelStart
ChapterSegments                        (checked beside RevisionSaga)
VersionHistory (abstract) <-refined by- DocumentStore
StudioOutline <-- InitialDraft
PanelContract <-- PanelSession <-- ReaderPanel -refines-> PanelMachine --> PanelContract
SettingCollection <-- SettingCollaboration
MaintenanceState <-- MaintenancePlan <-- Maintenance
ProjectCreation
```
(`A <-- B`: B EXTENDS A.)

*Chapter runs.*

* **ReleaseGate** - what the author is promised, without services: a candidate
  collects the approvals of the stages of its policy in order; replacing the
  text discards them; only a fully approved candidate is released or completed.
  The run with its panels (`domain`, and proved) and its reviews (`review`) are
  shown to implement it.
* **ChapterState** - the functional state machine. `State` is the checkpoint,
  one `Can...` and one result operator per method of `ChapterProductionState`,
  and `ValidState`, the checks that `__post_init__` makes when a checkpoint is
  read. Versions are numbers in the order they were written; report and action
  rows are identities; hashes and UUID formats are left out, because equal
  hashes stand exactly for equal versions.
* **ChapterProduction** - the run in its database: `st` is the latest
  checkpoint, `canon` the current version of the draft, `reports` and `actions`
  the rows. One action per transition, with `WriteVersion` as the other writers
  of the draft. `FailRun` may follow a committed or an uncommitted write, which
  is what the `Reconcile...` actions have to tell apart.
* **PanelStart** - composes the run with the start of its panels: `EnterReady` is
  the transaction of the last approval, which restores every earlier READY state
  of the run, checks it and starts the panel of the new one; `StartManual` is
  the author's start, with or without an idempotency key.
* **ReviewClaim** - extends `ChapterProduction` with the claim, the coordinators'
  local memory, what a request reads, and the split transactions of the review
  services; the author's half is coarse. What a request reads is of two kinds.
  The style guide, the chapter summaries, the main cast, foreshadowing and open
  threads are read again when the answer comes (`context`). The settings
  (`settings`), which only the lore reviewer reads, are pinned by the run's first
  lore claim (`pinned`, `run.metadata["setting_context_evidence"]`,
  `chapter_review_claim.py:295`), and every later lore request of the run is
  built from the pin (`SettingsRead`). Left out: a pin that can no longer be
  loaded, because the project was given another collection or a version's file
  is missing. Every later lore request then ends with a reconciliation error
  and writes nothing, which is `Crash`.
* **RevisionSaga** - extends `ChapterProduction` with the provider attempt and
  the claim / persist / finalize transactions of the feedback revision, the
  review revision and the manual edit, and their recovery; the reviews are
  coarse. `AdoptSavedChild` and `AdoptSavedChain` are the two ways a stale gate
  takes over what the author has saved meanwhile: an acceptance that names the
  version it expects adopts any chain of saves, other requests a single one.
* **ChapterSegments** - the segmenter as functions over a text of
  abstract units, the batches, the selection of segments for comments and
  findings, the merge of replacements, and what the contracts of reviewers and
  writer accept.
* **FinalizationSaga** - extends `ChapterProduction` with the chapter's final
  documents, the two files of the promoted version and the finalize requests:
  consume READY, stage the document, write the file, write the snapshot,
  complete. A repeated request enters at `ConsumeAgain` and `RecoverExisting`.
  The author may save the draft (`SaveDraft`) and create, write and delete final
  documents, none of which looks at the run.
* **StudioOutline**, **InitialDraft** - the outline from the order of a batch to
  its approval; then the first draft from the start of the run to the author's
  gate: `Bootstrap`, `Claim`, `ProviderReturns`, `Persist`, `Finalize`, with
  `ReplayAgain` and `ResumeDraft` for what an earlier request has left.

*Documents.*

* **DocumentStore** - one document in both stores, with the direct protocol
  (files under the row lock, then commit) and the staged protocol (commit, then
  files).
* **VersionHistory** - what a reader of a document is promised: an append-only
  list of texts.

*Reader panel.*

* **PanelContract** - the configurations (`Preset`, `ValidConfig`,
  `UsableConfig`), the status table `Legal` and the classification of an issue's
  ballots (`Consensus`, `Finding`).
* **PanelSession** - the rows of one reader panel, and what a request does around
  one provider call (`_invoke_provider`): `Verdict` is the answer to a request
  for an attempt, in the code's order of checks; `Reserve` commits the attempt;
  the answer is `AnswerLate`, `AnswerFails`, `AnswerExpired` or - together with
  the transaction that saves its result - one of the actions that use `Answered`
  and `Deliver`. A request's record holds the rows as it last loaded them
  (`seen`, `snap`), because the code decides on them.
* **ReaderPanel** - extends it with the four phases, one action per transaction:
  reading (`Read...`, `Quorum`), extraction and blind ballots (`Extracted`,
  `Ballot...`, `Seal`), discussion and final ballots (`Turn...`, `Summary...`,
  `Final...`, `Tally`), the report (`Handoff...`, `Composed`). `Quorum` and
  `ReadFailed` write without the session lock, as the code does.
* **PanelMachine** - the transition table the panel is written against and does
  not call; `ReaderPanel` is shown to follow it.

*Settings, creation, maintenance.*

* **SettingCollection** - the row locks and the document operations of a setting
  collection: documents lock first the document, then the collection
  (`SKIP LOCKED` or waiting), the title endpoint the other way round; `Victim` is
  the request the database ends.
* **SettingCollaboration** - a conversation over it: `Prepare`, `Dispatch`
  (the claim), `Call`, `SaveResult`, `Resume`, `Finish`, and the adoption of a
  proposal, `BeginAccept`, `AcceptLocksDocument`, `Adopt`.
* **ProjectCreation** - starts, regenerations, selections, fusion and the legacy
  entry points, with the concept document that the author can edit or delete.
* **MaintenanceState**, **MaintenancePlan**, **Maintenance** - the state machine
  of a maintenance run, the contracts that turn an agent's answer into a plan, and
  the service: each phase is `Load...`, a call, `Persist...`; `Resume` continues a
  phase that is left behind.

**MC...** give instances to TLC (symmetry, definitions of constants);
`MCReviewClaim` adds a state constraint instead of a symmetry, see below;
`MCRevisionSaga` adds the checked assumptions about segments. **...Proofs** hold
the TLAPS proofs.

Each transaction is one action because it holds its locks from its first read to
its commit; where a service takes its locks one by one and waits in between
(`SettingCollection`), so does the model. Everything between two transactions
interleaves. A crash, a commit whose fate is unknown, and an error that the
service swallows after rolling back all lose the worker's memory and leave the
database (`Crash`): a commit that was applied although the caller saw an error
is the transaction followed by `Crash`.

Operators whose comment begins *Mutant of* are plausible bugs in the operator
that follows. `PROJECT.json` pairs each property with one that breaks it.

## Runs

| run | question | distinct states |
|---|---|---|
| `domain` | Do the edges of the run, failures, recoveries and the start of panels included, release only what every required stage approved, can every checkpoint be read, and does each READY state get exactly one panel without ever refusing the last approval? | 768 thousand |
| `review` | The release gate for the split review transactions, two coordinators, late answers, edits; is there one verdict per text and stage, about what is current and on the run's pinned settings, and is every claim settled? | 265 thousand |
| `revision` | Do the sagas lose no decision and write no candidate twice or on a replaced text, and is every attempt and every half-done manual edit finished or given back? | 122 thousand |
| `finalization` | Is the reviewed text published exactly once, with two requests, crashes, and edits of the draft and the final documents, and does a run that has begun to archive complete? | 53 thousand |
| `document_store` | Is a document an append-only history for readers, without lost updates, through crashes, failed flushes and lost commits of direct and staged writers? | 397 thousand |
| `panel` | With two requests, answers that are too large, late and cancelled calls, exhausted budgets, expiry and cancellation: do results and sealed ballots stay, does an ended panel stay as it is, does the report count who took part, and is a reader with an oversized answer the only exception? | 1111 thousand |
| `panel_liveness` | Is a piece of work paid for once through retries, does a panel that is resumed again and again end, and does its status follow the machine it is written against? | 204 thousand |
| `initial` | Is there one first draft, of the approved outline and never of replaced settings, can every run be continued, and is every attempt settled? | 337 thousand |
| `maintenance` | Does a run write only what was approved, on the versions it was approved for, end only when every text it wrote was reviewed, and can it always be shown and continued? | 1033 thousand |
| `maintenance_start` | *(violated)* Is a start refused only if a document has changed? | |
| `setting` | Does a message reach the agent at most once, and its proposal the documents at most once, as the agent has seen them? | 1883 thousand |
| `creation` | Do requests that race and die leave one story, a gate that can be answered and a selection of what was reviewed? | 1185 thousand |

Every property of a passing run has a mutant in `PROJECT.json`, a plausible bug
in one operator that TLC finds with the same configuration.

**Bounds.** In all instances two requests (workers, coordinators, writers) give
every overlap of a late request with a repeated one; a third would have to be
late with respect to both, and the rows it could leave are left by the two
others one after the other.

* `domain`: `MaxVersion = 2`, a text and its replacement, enough for a report to
  be about the current or an earlier text. Four reports cover a review of three
  stages and one repetition; three action rows two gates and a finding. The
  proofs remove these bounds. One goal, one key and two manual starts, because
  the code only tells equal and different requests apart.
* `review`: three claims and two coordinators let a claim be lost, acknowledged,
  reissued and answered late by both. One edit of the context and one of the
  settings are enough, since only equality with the request or the pin matters.
  The rows are taken in one order (`InOrder`): rows are interchangeable and never
  removed, so each step to another row has a twin to the first free one. This cuts
  the instance as symmetry does, but is sound for the liveness property too, since
  it leaves one representative of every behaviour.
* `revision`: two attempts and four versions give a first draft, a revision, a
  lost revision and an edit by the author; one report blocks one review, which is
  all that its revision reads; three author actions outlast two attempts, so that
  no worker waits for a row the instance does not have.
* `finalization`: two texts are the reviewed one and its replacement; two final
  documents are the run's and another: the code tells apart none, one and more.
  When both have been deleted the instance can make no third, which
  `ArchiveCompletes` names as `OutOfDocuments`.
* `document_store`: two versions beside the first state, hence a write, a restore
  and a write of a number whose first writer's commit was lost.
* Panel: two readers, so that a loss leaves one or none; one issue and one round,
  since readers and issues are taken one after the other and the overlap of two
  requests comes from the steps around the calls. `panel` has the one failure that
  lets two requests disagree about a reader, the answer that is too large. Two
  attempts for each piece of work let one request give the reader up and the other
  ask it again; both readers are demanded, so that a quorum can be made and lost;
  a phase has three calls, so that its budget runs out. It has no crash, which
  makes the instance too large and leaves only an attempt that blocks its work:
  `panel_liveness` has crashes, and the theorems cover all failures and happenings
  together. `panel_liveness` has two attempts, the failure that is retried and a
  limit of three calls for a phase, so that attempts and budgets run out; it has
  one request at a time, because two can leave the panel stuck, and demands both
  readers, because one can leave it unreportable (see below).
* `initial`: two batches of outlines, one of which is late or lost; two approved
  outlines; two attempts; one edit of the settings.
* `maintenance`: two documents, since one plan has to write several; one item of
  the gravest severity; two plans, the first and a corrective one; two runs, so
  that a second starts where the first has ended; one edit by the author, one
  commit that is lost.
* `setting`: one document exists and one is created; all endpoints; two messages,
  the second with the first's proposal still open; two changes by others.
* `creation`: three runs, so that the replaced one is replaced again, and both
  legacy entry points.

`CHECK_DEADLOCK FALSE` is set because ended runs stop, and so does every instance
at its bounds. Symmetry is used in runs without liveness only.

**Fairness.** A coordinator or worker takes its next step (asyncio resumes it,
and provider calls have deadlines); an operator acknowledges what nobody works
on; an author who finds the run stuck retries or asks for reconciliation. These
are weakly fair. The finalization steps (of the sagas and of the chapter), and in
`initial` the repetition that goes on with a draft it finds (`ResumeDraft`), are
strongly fair: a crash can interrupt each attempt, and the assumption is that a
retry is not always interrupted. In `panel_liveness` the author keeps resuming an
unfinished panel, a request goes on with an answer or an error, and time passes;
`PanelEnds` assumes that requests stop dying at some point (then the attempt of a
dead one blocks its work only until the session's time is up). No fairness makes
an author approve, edit or start anything. `setting`, `creation`, `maintenance`,
`domain`, `document_store` and `panel` are safety only: what they wait for is an
author's decision.

**Segments.** A text, once cut, is data: `MCRevisionSaga` states its properties as
named assumptions, which TLC evaluates on every text of at most five units
(words, blank lines, fences, ...) and every bound the `revision` run sets:

* `SegmentsCoverText`, `BatchesCoverMap`: every word is in exactly one segment,
  every segment in one batch, in its order, and batches are bounded and not empty;
* `CommentsReachWords`, `BlockersAreRewritten`: a comment on words asks for all
  their segments, and a revision that follows a blocking report touches every
  segment the report blocks;
* `MergeIsLocal`, `PlainAnswersStay`: a merged text is its gaps and its
  segments, replaced or not, and a plain answer to a whole paragraph leaves every
  other segment what it was;
* `PlainDraftsReviewable`: a draft of plain paragraphs is accepted by the
  contracts of the reviewers;
* `SomeEditsUnreviewable`, `SomeDraftsUnreviewable`, `SomeTextsUnrevisable`,
  `SomeAnswersSwallow`: witnesses of the contrary for other texts (below).

## What the checks found

**No maintenance run is ever started** (`maintenance_start`).
`_load_document_snapshot` (`project_maintenance_service.py:2557`) puts the
documents of the project's setting collection into the snapshot that the analysis
reads; `_revalidate_document_snapshot` (`:2842`) compares that snapshot with the
documents of the project alone, and refuses. Every project has a collection
(`project_service.py:60`), and `docs/setting-collection-refactor.md` section 5.2
lists maintenance among the users of the collection. All other runs about
maintenance are therefore about a project without a collection's documents
(`Shared = {}`).

The rest are observations: what the models show the code to do where a reader of
its documentation or comments may expect otherwise. None contradicts a property
above: where one would, the property names the exception.

*Chapter runs.*

* *A text saved during a review is never reviewed.* `docs/architecture.md:792`
  says that the new version enters the review at Editor review. The document
  endpoints (`routes_documents.py:142`) do not look at the run;
  `invalidate_for_new_version` (`workflows/chapter_production.py:681`) would do it
  and no service calls it; every review operation demands that the bound version
  is the document's current one. `ClaimSettles` and `AttemptSettles` need the
  same exception for the same reason.
* *Some accepted texts can be neither reviewed nor revised.* A draft whose
  paragraph is indented (U+3000 included) or has trailing white space, or that
  ends in an open fence, is accepted as a manual edit (`manual_edit_saga.py:256`)
  and as a first draft, but the contracts of reviewers and writer
  (`chapter_review_contracts.py:56`, `chapter_writer_contracts.py:60`) demand
  segments equal to their stripped selves: each claim fails
  (`chapter_review_claim.py:287`). A segment of more than 8000 characters and at
  most 16 KiB can be reviewed but not revised. An answer with an open fence
  swallows the segments after it.
* *A stale gate is adopted in two ways*: an acceptance that names the version it
  expects adopts any chain of saves, a feedback or manual edit only a single save
  (`AdoptSavedChain`, `AdoptSavedChild`).
* *A failed run unlocks its outline* (`studio_outline_generation.py:31`), although
  `docs/development-plan-2026-10.md:21` says a started run locks it. If another
  version of the outline is approved before the run is recovered, the run has
  the key of an outline that is not the approved one: neither it can be resumed
  nor another be started beside it (`operation_run`,
  `chapter_production_repository.py:235`; `RunFits`).
* *A run in `ARCHIVE_UPDATE` has one way out*, the finalize request, and that
  demands an unchanged draft and exactly one final document with exactly one
  version: other requests on either leave the run there for good (`Touched` in
  `ArchiveCompletes`), and after the completion they make every replay answer
  with a reconciliation error. `PublishedStays` states that nothing else can.
* *The first draft keeps no snapshot of the settings.* Nothing is pinned for the
  run before its first lore review, and the writer's request is rebuilt from the
  current settings when the answer comes (`initial_provider_handoff.py:189`): an
  edit of a setting meanwhile has the answer refused (`PersistRefused`). This is
  against `docs/setting-collection-refactor.md`: a task and its retries keep the
  snapshot they began with (lines 26 and 29, section 5.3), and an old task must
  not be refused because the collection was updated (line 146). A failure to
  resolve the settings, whatever it is, is swallowed (`:195`): the request then
  has none (`Contexts`), and if that happens at the claim and again when the
  answer comes, its draft is written although the settings were edited in
  between. `NotOnOldSettings` states what the code does: a draft may be written
  on no settings, never on replaced ones.
* *Reviews do pin theirs*, in agreement with that document (line 314):
  `VerdictIsCurrent` says that an edit of a setting refuses no verdict and
  changes none, for all lore reviews of a run. The other documents a reviewer
  reads are not pinned: an edit of the style guide or the main cast has the
  answer refused. Since a whole run shares one pin, a candidate revised after an
  edit is still judged on the settings from before it.

*Documents.*

* *The undo of a failed write can remove another request's version.* The rollback
  frees the row (`document_service.py:890`) before the files are restored; a
  request that commits in between has the same version number and therefore the
  same snapshot path. `docs/architecture.md:671` calls versions immutable;
  `ReadersSeeHistory` excludes exactly these versions (`overtaken`).
* *A crash between a commit and `write_staged_files`* leaves a version without a
  snapshot, or with the text of an earlier write of the same number whose commit
  was lost; reads and restores do not compare the file with the row's hash. Two
  staged writers may write the current file in the opposite order of their
  commits. `ReadersSeeHistory` reads such versions by their row.

*Reader panel.*

* *A late request puts the panel back.* The quorum of the reading phase is
  written without a lock and on the rows read before the calls
  (`reader_panel_service.py:2024`). When another request has extracted the issues
  meanwhile, the panel stands before an extraction that has happened, and every
  later request is refused.
* *An answer that is too large is lost without a trace.* Its attempt fails with
  `BUDGET_EXHAUSTED` (`reader_panel_service.py:798`), which is neither retried nor
  remembered when the same work is asked for again (`:624`, `:647`). The request
  eliminates the reader, whose other request asks again, is answered, and saves
  (`:2607`) without looking at the reader or the seal: a ballot is added to the
  sealed initial ballots, although `docs/reader-panel-verification.md:11` calls
  them immutable; in the reading phase the late failure overwrites a reader that
  another request has completed, and the report can have fewer readers than its
  quorum. `panel` has this failure and reaches both. `ResultsStay` and
  `ReportCountsReaders` name the readers concerned (`Oversized`) as their one
  exception, and the theorems `SealedResultsStay` and `ReportIsCounted` prove
  them so, for every failure: no seal is broken, nothing sealed is changed or
  lost, nothing is added by another reader, final ballots and an ended panel
  stay.
* *A panel that loses a reader after a ballot cannot be reported on*: the ballot
  stays, and `load_locked_snapshot` accepts ballots of completed readers only.
* *A cancelled panel can become a failed one*: a turn first commits the
  reservation of its step and then asks for its call; if the author cancels in
  between, the handler eliminates the reader without looking at the session's
  status (`reader_panel_service.py:3323`).
* *The presets exceed their own limit of calls* (theorem `PhaseBudgets`): 24
  ballots or 32 turns of the standard mode, and 48 or 108 of the panel mode, do
  not fit into 20 calls for a phase (`workflows/reader_panel.py:229`), and the
  limit is handled as the failure of the reader.
* *Consensus.* The last branch of `classify_issue_consensus` is dead (theorem
  `SomebodyDecides`), and a harsher vote can rank an issue lower
  (`HarsherVoteRanksLower`).
* *The machine is not called.* A panel moves from `report_generating` to
  `final_ballots_locked`, which `_LEGAL_TRANSITIONS` has not (`RefuseReport`
  of `PanelMachine`).
* *Starts.* A retry with the same key and another request is refused, a keyed
  start makes a panel beside a keyless one, and the panel of a READY state never
  matches a request of the author.

*Settings, creation, maintenance.*

* *Two lock orders*: trashing a setting document locks the document first
  (`setting_document_trash.py:21`), the title endpoint the collection
  (`routes_documents.py:229`). `docs/architecture.md:946` says that operations
  that lock the document first skip a locked collection so as to avoid this
  deadlock; trashing waits for it. The database ends one of the two requests
  (`Victim`).
* `update_setting_collection` does not raise the revision, although
  `docs/setting-collection-refactor.md:48` counts changes of the collection by it;
  an answer that fails its checks leaves its attempt `dispatched` until the author
  finishes it, which is impossible once the document of the conversation is
  trashed.
* *Concepts.* When the concept document is saved, restored or deleted while a gate
  is open, or the request dies before its files, the run can be neither shown nor
  answered and no other can be started; `OpenGateAnswerable` names these cases.
* *Maintenance.* No HTTP route calls the `resume_...` methods; a save of the plan
  document, a missing plan file or a target that has moved leaves the run where it
  is.

## Proofs

All theorems are for any values of the constants, from the named assumptions in
the modules only.

| module | theorems |
|---|---|
| `ChapterProductionProofs` | `InductiveInvariant`, `TypeCorrect`, `CheckpointsAreReadable`, `OneGate`, `ReviewsAreForTheCandidate`, `BlockedIsNeverReleased`, `RunImplementsReleaseGate`, `ReleasedTextsAreApproved`; first the lemmas on `ChapterState`: each result of a permitted transition is a `State` and is `ValidState`; the reviews: `VerdictInvariant`, `VerdictsAreUnique`, `VerdictsAreCurrent`, `ReviewedRunKeepsItsInvariant`, `SplitReviewsImplementReleaseGate`; the run with its panels: `StartedRunIsARun`, `StartInvariant`, `ReadyTextsHaveTheirPanel`, `RepeatedStartsStartNothing`, `LastApprovalIsNeverRefused`; its finalization: `FinalizedRunIsARun`, `FinalizationInvariant`, `ChaptersFinalizedOnce`, `PublishedTextStays` |
| `RevisionSagaProofs` | `SagaInvariant`, `AnswersWrittenOnce`, `GatesNeverLost`; the segments: `PartsCoverBlock`, `BatchesCutMap` |
| `InitialDraftProofs` | `InitialInvariant`, `RunsStayReadable`, `DraftsAreOwned`, `DraftsAreCurrent` |
| `DocumentStoreProofs` | `StoreInvariant`, `NoUpdateIsLost`, `StoreImplementsHistory` |
| `ReaderPanelProofs` | the contract: `SomebodyDecides`, `ReportDecides`, `KeepIsHarmless`, `StrongSurvives`, `HarsherVoteRanksLower`, `RequestsAreUsable`, `PhaseBudgets`, `NoWayBack`; the panel: `PanelInvariant`, `NothingIsPaidTwice`, `SealedResultsStay`, `ReportIsCounted`, `OneRequestFollowsMachine` |
| `SettingCollaborationProofs` | `SettingInvariant`, `MessagesCalledOnce`, `ProposalsAdoptedOnce`, `EndedMessagesStay`, `ProposalsAdoptedAsSeen` |
| `ProjectCreationProofs` | `CreationInvariant`, `CreationIsOneStory`, `OpenGatesAreAnswerable`, `SelectionsAreReviewed` |
| `MaintenanceProofs` | `MaintenanceInvariant`, `AppliedAsTheAuthorApproved`, `UpdatesAreReviewed`, `RunStaysVisible`, `LeftPhasesCanBeResumed` |

None of the checked invariants is inductive alone; what has to be added is the
argument.

* *The run* (`IInv`). That a released text is approved needs that reports are of
  the bound version; that needs to know which rows can be bound, hence that a
  pending row is the gate of the checkpoint; and the recoveries need that versions
  are behind `canon` and that a blocked text is on its way to rework. The
  refinement then maps each action to a step of the gate or to a stutter, under
  `IInv`.
* *Its panels* (`StartInv`). The composition only restricts the run, so everything
  proved of the run holds of it. The last approval is never refused because the
  rows of the candidate are exactly the bound ones, earlier READY states keep
  their rows, and a text that was ready is never reviewed again.
* *Reviews* (`VerdictInvariant`). When a verdict is written, no row of its stage
  exists for the candidate; a late coordinator's claim is not the one the run
  waits for. For the release gate each transaction is an edge of the run, or
  leaves it alone, or is one of three that join two edges (`Joined`): the last
  report or the accepted last warning with the release, and the author's revision
  with its version. Those have lemmas of their own; that only the lore stage can
  end a review (`OnlyLoreEnds`) is what makes the joined release the last approval.
* *Revisions* (`SagaInvariant`). The identity of a written answer is fresh
  (`PlansAgree`: an answer is only the child of its plan's version), a feedback
  attempt holds its run in DRAFTING or FAILED with the gate consumed
  (`AttemptPlace`), and rows are behind the current version (`RowsBehind`).
* *Segments.* The numbers of parts and batches are quotients rounded up; `Pieces`
  is the lemma on these, from which the bounds of a part, a batch and their gaps
  follow for every length of a block and a map.
* *Finalization* (`FinalInv`). Each step of the requests is a step of the run or
  leaves it alone, so the text that is published has every approval. A request in
  flight holds the bound text however late it is, because nothing binds another
  from the moment the run begins to archive, and before that there is neither
  request nor document of the run.
* *The initial draft* (`InitialInv`). A draft document belongs to nobody; what ties
  it to the run is the attempt that stands on it. Attempts are numbered as they
  are issued and each has one request (`AttemptsOwned`), so the request that wrote
  the draft is not there any more to fail or release its attempt.
* *Documents* (`StoreInv`). Whoever has staged a version holds the row until it
  commits or rolls back, and its version is the next one as long as it does
  (`LockHeld`); a request that is late has committed its row and rows stay
  (`RowsCommitted`); the snapshot of a direct version has its text from before the
  commit, unless an undo took it (`SnapshotsKept`). What readers see is then a
  function of rows that only grow, and each step appends to it or leaves it alone.
* *Panels* (`PanelInv`). Four parts: the ledger of calls (`LedgerOK`), what each
  request knows of the rows (`RequestsOK`), whose each call is (`CallsOK`), and
  what the rows say of one another (`PanelOK`). At any time each piece of work is
  done, being answered, begun and not answered, or spent, and the sets are
  disjoint; so nothing is reserved that was paid for. A request decides on rows
  it loaded before its call; they are still good enough because rows are only
  added, and because a reader is given up, or a phase passed over, only when
  nobody will ask for its work again: its attempts are spent or its call has been
  answered. An answer that is too large breaks that last fact for its reader, and
  the end of the session's time for all, but then nothing is saved any more: the
  invariant claims it of the others (`Lost`), and since the readers with an
  oversized answer only grow (`LedgerGrows`), what it says of the others stays.
  For `PanelMachine` a single request on a panel its author does not cancel has
  the rows to itself (`Alone`): while it works the panel has not ended, it counts
  the reports where it began to read, and the report comes in where it was called
  for. Each status the phases assign is then the next one of the table.
* *Setting conversations* (`SettingInv`). Each request in flight has a place
  relative to the rows: what it found stays, since no row is removed; a proposal
  being adopted is decided by nobody else and its document not trashed, since both
  are locked; a prepared attempt has not been called for, at most one request is
  between its claim and its answer, and what is recorded was called for.
* *The creation of a project* (`CreationInv`). Only the newest run can be open, since
  a start is refused beside an open one and everything that moves a run finds it
  open (`RunsInTurn`); its one pending row is its gate, so the second of two answers
  finds another gate or none. A version keeps its number, run and verdict as long
  as its document exists, so a gate names what was reviewed (`GatesReviewed`), and
  no version of a run is later than the one its open gate names (`GatesLatest`).
* *Project maintenance* (`MaintenanceInv`). It says nothing of what a request holds:
  every transaction loads the rows again and compares, so an answer that is late
  is refused, and what it holds proves nothing. The rows carry the argument: the
  checkpoint's plan is the newest there is (`PlanOK`), from the approval to the
  verdict the row knows which gate approved it (`ApprovalOK`) and from the
  application on which versions were written for it (`CycleOK`). What an approval
  or a version rests on never changes afterwards, since plans, gates and versions
  are only added and a gate is decided once (`HistoryGrows`). That a cycle is never
  empty needs that every prepared plan revises something.

Only model-checked: what the scan of lines and blocks, the composition of segments
and the merge compute, which are recursive functions over a text: induction over
data is out of the prover's reach, and so are liveness under fairness and `ENABLED`.

## Not modelled, and the plan

* `agents/`, `llm/`: prompts, scoring and HTTP are pure functions or I/O behind the
  provider calls of the modules; the contracts that guard a change of state are in
  `MaintenancePlan` and `ChapterSegments`.
* Studio assistants, feedback and restore points: single transactions over the
  document service, with the dispatch protocol of `SettingCollaboration`.
* The graph runtime, which keeps no state: its order of calls is one of the
  interleavings already allowed. The legacy v1 chapter service, kept for
  compatibility.
* Routes, schema and the browser client.
* Of the modelled parts: token totals and the stale flag of a panel; the
  attachment of a collection to a project; the foundation service of maintenance,
  which runs without agents; path reservation and permissions of documents;
  formats, labels and the widths of characters in segments.
