# A TLA+ verification project for SpecSpace

SpecSpace is a Python backend (`src/viewer`, a threading HTTP server: one
thread for each request) with a React interface (`src/graphspace`, and the older
`src/viewer/app`). It began as a browser over a directory of
conversation files whose lineage it draws and exports; most of its code today
serves *product workspaces*: it owns the requests that people and agents make
about a workspace, hands them to a Platform command line or to a hosted
executor, and shows what came of them.

This directory holds TLA+ models of the parts where that can go wrong in a way a
test would hardly reach, the TLC instances that check them, and TLAPS
proofs of the properties that matter most. Paths below are relative to the root
of the repository, `src/` in `PROJECT.json`.

## Contents

1. [Inventory](#inventory)
2. [Modules](#modules)
3. [Runs](#runs)
4. [Fairness](#fairness)
5. [Proofs](#proofs)
6. [Findings](#findings)
7. [Not modelled](#not-modelled)
8. [Further work](#further-work)
9. [Running it](#running-it)

## Inventory

Every component has an entry in `PROJECT.json`, with what of it is modelled. The
ones with state or with logic of their own:

| Component | State | What is hard | What makes it correct |
|---|---|---|---|
| Managed intake and answer-continuation execution (`viewer/real_idea_*_execution.py`, `..._requests.py`) | request file, lease file, attempt directories, ambiguity marks, published report | threads of one or more backends; crashes between any two file operations; process groups that outlive their backend; timeouts; inputs replaced while they are copied | one process at a time, but for one the system refuses to signal; a content runs once; evidence is kept; the copied inputs existed together |
| Initialization (`viewer/product_workspace_initialization_execution.py`) | creation requests, catalog, plan and request files | inputs that change between two commands, a crash between three file operations, an execution in between | a request never lies beside a plan it was not made for; a plan is of one moment |
| Approval, promotion, publication (`viewer/idea_to_spec_*_execution.py`, `idea_to_spec_candidate_approval_intents.py`) | intents and seven Platform reports | no lock across an operation; requests from stale documents; killed processes; two reports of one run; a rerun in between | an intent is approved once; only merged work is published; the page offers a step the server takes |
| Agent-surface drafts (`viewer/asp_draft.py`, `asp_draft_store.py`) | SQLite: grants, sessions, approvals, results | retries with other keys or sessions, native edits after the approval, expiry, revocation, quotas | a draft is what the operator approved; a key saves one draft; a stopped session stays stopped, a paused grant saves nothing |
| State backends (`viewer/specspace_state_backend.py`) and their owner modules | one JSON file for all workspaces, or a record and revision each in a service | a write re-reads the file; PUTs are lost, late or unanswered; revisions are looked up at two places | a call is one atomic update or fails |
| Hosted execution (`viewer/hosted_managed_execution.py`) | compact records of enqueued requests | call and update are apart; late answers; repeats; limits | one record for each request; a final status is true; records settle |
| Workspace document (`viewer/idea_to_spec_workspace.py`, parse functions of `use-idea-to-spec-workspace.ts`) | none | two codebases, in two languages, that agree by convention on the places of a large document | what the page shows was written |
| Workspace page (`pages/viewer/ui/IdeaToSpecWorkspacePanel.tsx`) | panes, disclosures, pending flags, typed answers | reloads, history, other workspaces and a closed panel while requests are out; three layouts; three forms | links land; a reader cannot write; answers stay with their workspace; what can be saved is taken |
| Browser data hooks (`use-*.ts`) and parsers | the last document, pending loads and saves | answers out of order, aborted loads, catalogs and contents of two publications | the newest answer is shown; content said to match its catalog does |
| Graph page (`ViewerPage.tsx`, `SpecGraphCanvas.tsx`, the inspectors and the rail) | selection, history, open panel, conversation, layout | effects that run after the render, late answers, drags across a refresh | what is inspected is drawn; a panel shows what was asked; the canvas at rest shows what is stored |

How they interact: the owner modules read and write their collections through
the state backends; the executors and the preparation share directories
with Platform processes; hosted execution calls an executor over HTTP; the draft
service writes native raw-idea requests in the transaction that stores its
answer, and the intake executor reads those requests; the projection reads
everything and stores nothing; the hooks load its document, the page shows it and
sends the requests that start the executors. `hazards` in `PROJECT.json` lists,
line by line, what is hard to test, and the property that covers it.

## Modules

| Module | Models |
|---|---|
| `LocalExecution` | both managed executors with their request stores; implements `OneShotExecution`: each content runs at most once, one at a time |
| `WorkspaceInitialization` | creation requests, preparation and execution of an initialization |
| `PromotionPath` | from the approval intent to the published read model, run locally |
| `AspDraft` | the agent-surface draft service and the native requests |
| `StateBackend` | the file and the external backend under their owner modules; implements `AtomicUpdates`: each call adds its entry in one step |
| `HostedExecution` | hosted execution and the records it keeps |
| `StateDocuments`, `StateHooks`, `ViewerHooks` | the parsers of state documents; the life of a data hook; the 35 hooks of the application as records |
| `WorkspaceProjection`, `WorkspaceReaders` | what the backend writes into the workspace document; what the page takes from it |
| `PanelSections`, `PanelNavigation` | what stands where on the workspace page; links, panes and disclosures |
| `PanelExecutions`, `AnswerForms` | the page's requests and their answers; its three answer forms |
| `GraphSelection`, `SpecInspector`, `UtilityPanels` | selection and history; details and Markdown of a node; the rail |
| `AgentConversation`, `ConversationRecords` | the conversation panel; the record of a conversation |
| `LayoutPresets`, `CanvasLayout` | where presets put nodes; where nodes lie while they are dragged, relaxed and refreshed |
| `MC...` | instances for TLC |
| `...Proofs` | theorems; `LocalOperationsProofs` is about `PromotionPath` and `WorkspaceInitialization`, `ViewerPageProofs` about the pages of the viewer, `GraphPageProofs` about `LayoutPresets`, `CanvasLayout` and `ConversationRecords` |

`MCViewerPanel` and `MCLocalOperations` extend modules that share no state and
explore each in a scene of its own; the scenes of `MCStateBackends` are the two backends,
those of `MCAspDraft` two instances with different limits. `AspDraft` and `StateHooks` compose theirs
(native requests; parsers) in one state.

Each definition has its lines in `map`. Operators whose names end in `Fault` are
what a plausible mistake would make of the definition after them; the mutants in
`PROJECT.json` put one in the place of the other to show that each property can fail.

### LocalExecution

State to code: `requests` is the workspace's part of the request file; `lease`
the lease file and the status in it; `attempts` the attempt directories with the
status of their report; `marks` those with an `ambiguous.json`; `source` the
inputs; `published` the report at the output path; `live` the process groups.
`pc`, `request`, `view`, `snap` and `proc` are locals of handler threads.
`claimed`, `cut` and `strays` are history.

Every file operation is a step, as a crash or another thread can come between
any two:

| Code | Actions |
|---|---|
| `save_request` | `SaveRead`, `SaveWrite`, `SaveFails` |
| `_create_workspace_execution_lease` | `TakeLease` |
| select and validate | `Select`, `ValidateInitialization`, `ValidateEntry`, `Refuse` |
| copies into a pending directory, its promotion, first report | `CopyEntry`, `CopyInitialization`, `Promote`, `PromoteCollides`, `WritePrepared`, `PrepareFails` |
| `claim_request_for_execution` | `ClaimRead`, `ClaimWrite`, `ClaimFails` |
| `_changed_snapshot_sources`, file by file | `RecheckEntry`, `RecheckInitialization`, `InputChanged` |
| `Popen` and the wait with a timeout | `WriteRunning`, `StartProcess`, `StartFails`, `TimeoutTerminated`, `TimeoutAmbiguous`, `SignalRefused`, `MarkAmbiguous` |
| the outcome | `Publish`, `RecordCompleted`, `RecordFailed`, `ReleaseLease`, `ConcedeLease`, `FailUnclean` |
| environment | `Crash`, `ProcessExits`, `EditSource`, `RecoverLease`, `RecoverAmbiguous` |

A content (`Keys`) is a request id with a version: the digest covers
`created_at`, which has a resolution of one second, so the same payload saved
twice within a second repeats a content. The last two actions are the operator's
procedure for a lease or a mark that was left behind. They require that no
process and no execution of the workspace is running, which is what the procedure
says to inspect first; the code cannot check it, and `SingleFlight` rests on it.

`SignalRefused` is what the code makes of `os.killpg` failing with `PermissionError`:
the `except OSError` around the whole run takes it for a failed start, reports
`platform_execution_start_failed` with `executed` false and releases the lease, while
the group may live on. `strays` remembers such groups. `SingleFlight` speaks of all
others, `EvidenceKept` says which report such a group has, and in
`OneShotExecution` such a run escapes: the next content can start beside it, its own
content cannot start again. `docs/MANAGED_OPERATIONS_CONTRACT.md:394` says of a timeout that
cannot confirm the end of the group that it leaves ambiguous evidence and blocks further
executions; after a refused signal nothing blocks.

The continuation executor is the same protocol with two differences, and these
are constants: its save takes the file lock (`SaveTakesFileLock`), and a
failed promotion deletes the directory it collided with (`PromotionDropsAttempt`).

### WorkspaceInitialization

`Preparation` is `TakeLock`, `SelectActive`, `DigestCreation`, `DigestCatalog`,
`InitializeFromRequest` (the first Platform command), `InputDigestMatches` twice,
`UnlinkRequest`, `PlacePlan`, `RequestInitializationExecution` (the second),
`PublishRequest`, and `PreparationFails` anywhere. `Execution` is Platform's: it
opens the request, opens the plan, writes the catalog, writes the report. Saves of
creation requests and edits of the catalog take no lock, nor does an execution,
and an execution goes on when its backend crashes.

Assumed: Platform refuses a plan whose digest is not the pinned one; versions never
return; nobody edits a plan by hand. The preparation lock is of one process, so the
theorems assume `OneBackend`: with two backends a request can come to lie beside
another preparation's plan. Observed and not a property: the check
for a stale catalog in the save lets a request be saved after the workspace was
initialized, and temporary files stay after a crash.

### PromotionPath

`Receive` reads the artifacts and refuses, reuses or starts an operation;
`SaveIntent`, `ChooseIntent`, `MarkConsumed`, `Run` and `Finish` are its parts;
`Finish` may write the report or leave it (a killed process). A promotion writes two
reports, the product's (`promotion`) and the Git Service's (`git`), and can be killed
between them. `OpenReview` and `Decide` are the Git service and its people,
`RerunPublished` a new repair session, `PlanWritten` and `BundleBuilt` SpecGraph, whose
files the promotion request and the publication answer 404 without. An approval does not
ask again whether the candidate is ready. The page's
side is `Stage` and `Enabled`; a request need not come from
an enabled control.
`NeverStuck` has named exceptions: `Final`, where nothing is left to do or only a new
session helps, and `Awaits`, where SpecGraph's file comes first. One of the final states is a
trap of the code: a review run killed when the Git Service report is written and the
product's is not (`KilledBetween`) is offered by the panel and refused by the server for ever.
`RealReportStays` is conditional: when two promotion executions overlap, the
report of a dry run can replace a real one (`overlap` remembers that they did).

### AspDraft

Every call is one `BEGIN IMMEDIATE` transaction that is rolled back when it
fails, hence one action, and a crash changes nothing. `Issue`, `Revoke`,
`StartSession`, `Pause`, `Cancel`, `RequestApproval`, `Approve`, `Propose` and
`NativeSave` are the calls; `Tick` and `IdentityChanges` are the clock and the
evidence that identifies the operator. A replay returns a stored answer and is
no action. A snapshot hash is modelled by what it is the digest of, so
two snapshots are equal exactly when their hashes should be. `accepted` and
`drafts` are history.

In the scene `time`, time passes, native requests are edited and keys are
used again. In the scene `quota` there are three keys, execution ids, requests and
approvals, so that only the quota of two refuses the third draft.

How far a stop reaches is narrower than the document says. `StopsHold`: a paused or
cancelled session is never active again and saves nothing, and while it is paused its grant starts and
saves nothing. But the holder of the grant can cancel the paused session
and start another one; the run `asp_pause` shows it (Findings).

### StateBackend

An owner module reads a collection, adds or replaces an entry and writes it
back: `Begin`, `Read`, then `Keep` and `Replace` for a file or `Put` and an
answer for a record, then `Answer`. `Fail` and `Crash` can come at any point.
`Apply`, `Refuse` and `Lose` are what happens to a PUT; a PUT whose caller has
gone can still be applied. `Locked` says whether the owner module holds
`_STATE_LOCK` across the call, which all but the ontology acknowledgements do.
A thread has a revision map of its own (`threading.local`), and each request has
a thread of its own, so the map is empty when a call begins.

The model adds entries and does not remove them: what is lost can then be seen
by looking. `OthersStay` and the refinement of `AtomicUpdates` say what a
call may change.

### HostedExecution

`Enqueue` is the HTTP call and `Save` the update of the state; between them any
other thread can act, and so between `Poll` and `Update`. `EnqueueUnanswered`,
`SaveFails`, `PollFails`, `UpdateFails` and `Restart` are the failures. `Recorded` and
`Updated` are one step each, because they hold `_STATE_LOCK` and StateBackend
shows what the backend then does. Two approximations: a write
that arrives after its caller gave up counts as stored when the caller gives
up (`SaveFails`); and which record goes when there are `Keep` of them is any
(`Left`), because the two backends return records in different orders. Failed
updates that store late are left out: they would store what `Update` stores.
The executor answers a repeated request with the job it has; that, and that a
finished job does not change, are assumptions about code outside the repository.
Statuses are reduced to two active and two final ones.

### StateHooks

One behaviour is the life of one hook. `Render` changes its options, `Effect` is
the effect that reacts (cleanup and the next load), `Save` a save; `ServeLoad`,
`ServeSave` and `Fail` answer on the way; `Read` and `ReadCatalog` are the
continuations in the browser; `Write` is somebody else's publication. The fields
of a hook's record are questions about its code (does cleanup set a flag, is the key kept
in the state, are saves guarded), read hook by hook in `ViewerHooks`; that a hook that
loads in two steps keeps its key is `HooksAssumption`, which TLC evaluates for the 35. A
document is the fullest one but for one place; a parser is the set of what it accepts.
A catalog may come without a digest of its content. The ontology hook then accepts
content of another publication and shows it with `digestMatched` false, as its test
expects; `OnePublication` is about what is shown as matched.
Facts that do not hold, and are not stated: a hook whose cleanup only aborts may
show an `http-error` of an aborted load; a load that was under way can hide an entry
that was just saved; queue parsers tell constants they did not check.

### The workspace document and page

`WorkspaceProjection` lists the places the backend writes and the naming fields of
each row; `WorkspaceReaders` has one operator for each parse function. `ShownIsWritten`
compares them for every reader. Three facts are presumed by the page when the
document is silent (initialization trusted, provider read-only, overview phases).

A section of `PanelSections` is the set of the things that matter of its markup:
targets, links, enabled writing buttons, parts shown. `PanelNavigation` has three
listeners (panel, workbench, mount) in `Reveal` and `OpenDiagnosticsForHash`,
and `Load`, `LoadFails`, `ClickLink`, `HashChange`, `SelectTab` and the two toggles.
`wanted` is history: the section asked for last. A reload without an error that
moves the section behind a disclosure, or brings the target of an older hash,
follows nothing; `Load` says when, and `LinkLands` claims nothing then. The panel is one of the
rail's: `LeavePanel` closes it, and the next `Load` opens it again with its disclosure closed.

`PanelExecutions` has fourteen flows of three kinds (see its head). `UnmountPanel` throws their
state away while requests go on, and `MountPanel` starts with none, so a panel that was closed
and opened offers a button whose request is still out. `OneInFlight` is about the requests of
the panel as it is mounted now; what becomes of a repeated request is the server's
part (`OneApprovalPerIntent`, `OneShotExecution`). Not claimed,
because they do not hold: the pending mark of an initialization may stick when its answer
arrives while the page shows an error; two initializations can be out after leaving
and returning; results of panel flows of one workspace show under another, as they
name none. In `AnswerForms` a value is the set of its nonblank keys and a text one of
nine kinds. Both sides are of the repository: the forms, and the normalizers of
`idea_to_spec_intake_clarification_answers.py`, `idea_to_spec_repair_drafts.py` and
`project_local_ontology_review_decisions.py`. An intake text that is a JSON list is sent as
objects; the form enables its button for lists whose objects have no label or carry a field
the server calls unsafe, and the server refuses those. `SavedIsTaken` names them as the one
exception. A topology question can be deferred only with a
text that reads as relations, and an effect overwrites unsaved typing when a saved answer arrives.

### The graph page

Handlers act on the render they were made in, and effects run later;
`GraphSelection`, `SpecInspector` and `CanvasLayout` make every pass of the effects a step.
What the models show of the code beside the properties: a node selected from a panel
inside a collapsed subtree is dropped again although history has it; a failed refresh
shows the sample graph; details are not fetched again after a refresh; a node moved with
the arrow keys is shown and never stored; a drag across Force and a preset is not
stored, or stores a Force place; a drag that ends between the render of a fresh graph
and its effects can store under the new key what was the old one's. The properties are
worded for the states at rest because of the last. In `ConversationRecords` a Markdown
item of a specification without a title makes its artifact unreadable (`HoldsUntitled`),
and an interrupted stream leaves a turn counted that the artifact lacks.

## Runs

| Run | Instance | Shows |
|---|---|---|
| `intake_two_servers` | 2 backends, 1 thread each, 2 ids | one process at a time but for groups that cannot be signalled, consistent inputs, complete evidence and ambiguity that blocks, although the intake save does not take the file lock; `OneShotExecution` is implemented |
| `continuation_two_servers` | the continuation's constants, 3 ids, fair | with both locks no consumption and no request is lost, and every execution ends |
| `continuation_evidence` | the continuation's constants | violation: evidence of a run is deleted |
| `local_operations` | 2 jobs, 2 sessions, 2 intents; 2 handlers, 2 workspaces | one approval for each intent, published is merged, the page offers a step that is taken but for the named ends, real reports stay; plan and request fit, a plan is of one moment |
| `asp_service` | 1 grant, quota 2; `time`: 2 of every other id, 1 native edit; `quota`: 3 of every other id, 1 session | drafts were approved in exactly their form, a key saves one draft, the third draft is refused, a stop reaches as far as the code takes it |
| `asp_pause` | as above | violation: a paused session is cancelled and another starts under the same grant |
| `state_backends` | `file`: 1 process, 2 threads, 2 workspaces, 4 calls, lock; `service`: 2 processes, 2 workspaces with records, 3 calls, no lock | `AtomicUpdates` is implemented, although a write re-reads the file, and with lost, late and unanswered PUTs |
| `state_first_write` | as `service`, no record yet | violation: a stale first write is accepted |
| `state_no_lock` | file, no lock | violation: a call removes another one's entry |
| `hosted_execution` | 2 requests, 2 kept, 2 threads, 1 polled at a time, fair | final statuses are true, accepted requests are recorded, records of ended jobs settle |
| `viewer_hooks` | 35 hooks, 2 renders, 2 saves, 1 publication, 3 calls, fair | what settles is the newest answer, content shown as matching its catalog is of that publication, no load lasts for ever |
| `viewer_panel` | eleven scenes, one for each module of the page and the graph page | see the properties in `PROJECT.json`: 13 invariants |

Why the bounds are enough. Two threads give every pairwise interleaving, and the
properties relate two actors. Two requests give a replaced request, a repeated content
and a different one; three saves let a consumption be overwritten and its
request saved again. A limit is always set below what the instance can reach (one superseded
record kept, two drafts of three proposals, one poll of two requests), so it is met.
`MaxEdits`, `MaxStarts`, `MaxSaves`, `MaxTime`, `MaxCalls`, `MaxEnqueues`, `MaxPlans`,
`MaxExecutions`, `MaxSessions`, `MaxIntents`, `MaxRenders`, `MaxWrites` and `MaxClicks` cut
unbounded counters. The documents of `viewer_panel` are fifteen stages of two
workspaces, from a fresh route to a promoted candidate: every layout and pane occurs,
as an operator and as a reader sees it; its layouts are computed for all forests of seven nodes
and all graphs of four nodes with up to three edges, which have cycles, shared parents and
disconnected parts. The theorems do not depend on any of these numbers.

All runs but `viewer_hooks` check for deadlock; a hook whose answers are read and
whose options stay may rest for good. Symmetry is used only in runs without liveness.

## Fairness

`LocalExecution!FairSpec` has weak fairness on what a thread inside a handler
does next: the operating system schedules it. A Platform process is *not* assumed
to exit, the wait for it is bounded by a timeout (`TimeoutExpired`), and this is
what `ExecutionEnds` depends on. Python locks are not fair; with finitely many
saves (`MaxSaves`) a thread that waits for one gets it.

`HostedExecution!FairSpec` has weak fairness on a thread's next
step and on `Refresh` (an open workspace is read again and again, each read
refreshes), strong fairness on successful polls and updates (neither the executor
nor the state backend fails for ever), and weak fairness on the end of a job (the
executor has time limits). Without strong fairness every poll could
fail and a record would stay active, as the code intends.

`StateHooks!FairSpec` has weak fairness on answers (a request is answered or fails),
on continuations and on effects, which the browser and React run.

## Proofs

TLAPS checks every theorem for all values of the constants that meet the
named assumptions, which TLC evaluates in the runs. Of the invariants and action
properties that passing runs check, all but `ShownIsWritten` are theorems.

**LocalExecution.** The inductive invariant is the conjunction of `TypeInv`,
`LeaseInv`, `AttemptInv` and `CutInv`, each preserved with the help of the ones
before it. That at most one process exists (`SingleFlight`) needs that an executing thread is alone,
owns the lease, and that no process of another attempt is alive at the stages
before its own, apart from `strays` (`LeaseInv`). That a content starts once needs, for each
stage, what the attempt directory holds and whether the claim is recorded
(`AttemptInv`), because the request file may be overwritten and proves nothing.
That the inputs are a consistent cut needs that versions only grow, so that
snapshot <= claim <= now, with equality after the second check (`CutInv`).

- `TypeCorrect`, `SingleFlightCorrect`, `ConsistentCutCorrect`, `AmbiguousCorrect`: both
  executors. The last needs that no mark appears between the search for marks and
  the thread's own timeout (`MarkInv`).
- `EvidenceCorrect`, `OneShotCorrect`: with `~PromotionDropsAttempt`, the intake
  executor. The run `continuation_evidence` shows that the condition is needed.
- `ConsumedCorrect`, `ActiveCorrect`: with `OneWriter`, that is, saves that take the file lock or
  one backend. `WriteInv` says that the copy a lock holder works on is what the file
  holds. With two backends the intake executor is outside of it: its save takes no file lock, and
  a consumption can be overwritten; `OneShotCorrect` holds all the same.

**LocalOperations.** For `PromotionPath`, `PathInv` says that each report presupposes the one
before it and that a running operation keeps its preconditions; `OneInv` and
`AloneInv` count requested intents and runs. `NeverStuckCorrect` then goes through the
rules of `Stage` in their order (`FirstRule`): whichever comes first offers a control, and
what the control needs is what the server asks. The exceptions of `NeverStuck` are those
named above, and overlapping promotions. What SpecGraph writes and what a promotion
reports leaves the other artifacts alone (`WrittenOutside`, `PromotionReports`,
`PromotionFinishes`, `ReviewOpens`). `OneApproval`, `RealReportKept`,
`PublishedMerged` and `TypeCorrect` follow. For `WorkspaceInitialization`, with
`OneBackend`: of each input, the digest is of a version no newer than what Platform
read, and that no newer than the current one, so a comparison that succeeds makes
all three equal (`OneMomentCorrect`); the lock has one holder and the three
file operations leave no request beside a foreign plan (`PairCorrect`).

**AspDraft.** `IInv` adds to the properties that an approved row was accepted
(`ApprovedRows`), that grants with drafts were issued (`DraftGrants`: a new grant
starts with a count of zero) and that each grant's drafts are finitely many
and counted (`Counted`). A key saves one draft because results, drafts and
execution ids match one to one (`ResultsMatchDrafts`). Invariants: `TypeCorrect`, `ConsentCorrect`,
`IdempotencyCorrect`, `ResultsCorrect`, `QuotaCorrect`, `SessionCorrect`; about steps:
`ReplayCorrect`, `PauseCorrect`, `RevocationCorrect`, `StopsCorrect`.

**StateBackend.** `FileInv`: the thread of a call holds the lock and what it
read is what is stored. `ExternalInv`: a PUT whose revision is still current
carries what is stored, also when its caller has gone. `AckedCorrect` and
`AtomicCorrect` assume `Serial` (the file backend, one process, a lock) or
`Guarded` (the external backend, every record exists). The two violation runs
are what happens without them.

**HostedExecution.** `Told` is the reason the records are right although answers
come late: what was once said of a job may be out of date only if it says the
job is active. `IInv` says so of every record, every answer a thread holds and
every request it has yet to poll. `TypeCorrect`, `RecordsCorrect`, `TerminalCorrect` and
`AckedCorrect` follow; the last covers the overflow of the cap.

**StateHooks.** `HooksInv`: a request made while no other was under way stays the only live one as
long as it is the newest; the key of the newest live request is the render's unless an
effect is due. `SettledCorrect` and `OnePublicationCorrect` hold for
every hook that fits `HooksAssumption`, not only for the 35.

**ViewerPage.** The workspace page's sections are proved one by one: a lemma says of each which
targets it has, where its links can go and that it has no writing button for a reader.
Put together for each place of each layout (`AuthoringPlace`, `FreshPlace`), they say that a
target lies in exactly one place, the same in every authoring layout (`WhereIs`), and that
links are to targets (`LinksLead`). `ReadOnlyCorrect` needs no more. `LinkCorrect` needs
`NavInv` besides: the place of what is wanted is uncovered by the pane and
disclosures as they are now. `DocsAssumption` says that the targets a document names are sections of
the page, which is so of every `target_section` that `viewer/idea_to_spec_workspace.py` writes, and that
files are not named like sections (their ids have a prefix of their own).
`HomeCorrect` and `FlightCorrect` need that a request names a plan of its own
workspace and that a pending flow has one open request of the panel that is mounted.
`SavedCorrect` needs that what a button sends is refused only for the JSON lists above, and
that every stored answer fills the form so that it can be saved again without a loss (`ComesBack`),
by one lemma for each form. `QuestionsAssumption` is what templates from SpecGraph look
like in the fixtures; in particular a template of relations asks for no other list in the same
text, as a refilled form would otherwise lose the relations.

On the graph page, `InspectorTrue` rests on `OneSelected` (a node and an edge are never both
selected), `KeepsUpCorrect` on the awaited request of each kind being the newest,
`PanelCorrect` on the filter of an open panel being what it was opened for,
and `TranscriptCorrect` on what the panel was told by runtime or store.

**Canvas.** `CanvasCorrect` rests on
`LayoutInv`: preset and overrides shown are those stored but for an unsaved change, and relaxation runs
only under Force on what is drawn.

`LayoutsAreReadable` says that every preset lays out every graph of any number of nodes and edges well. The
invariant is only that the graph is one that can be drawn (`GraphIsDrawable`); the work is in
what the recursive functions of `LayoutPresets` compute. The library's
induction rule cannot be instantiated here, but that every non-empty set of
numbers has a least element can (`LeastNatural`, from `WFMin`), and `Recursion` then gives
each function its values and `UpTo` each induction its conclusion: a counterexample would have
a least one. The steps:

- an accepted edge never closes a cycle, so accepted edges can be numbered upward and ranks exist and rise along each
  of them: edges lead to the right;
- in a column laid out by counting, two cards differ by a row;
- in Linear, while no edge is dropped, two nodes of one lane differ in rank: the depth-first
  walk gives a node a lane only when all that lie in it have lower ranks (`LaneStep`, `LanesApart`);
- on the spine, `PrimaryTreeIsForest` gives each node one parent of a lower rank; `ExtentsAre` and
  `RowsAre` say what extents and rows are, and that subtrees do not share
  rows (`SubtreesApart`) goes by induction on the rank of the node below which two nodes part;
- rows are halved when a parent is centred, at most once for each node on a path; `Halves` says that `RowUnit` can
  take that, so `\div` loses nothing and the parent is exactly in the middle.

**Conversation records.** `RecordsRead` needs of a state only what its records and streams are made of
(`RecordsTypeInv`), so it holds wherever a reader has stopped and in whatever order streams were read. For any list of
events:

- the turns shown have distinct ids, and each has a `turn_started` event (`TurnsAreStarted`);
- the registered context sets have distinct ids, because a number is given out once for each base id, and the set of
  every turn that was started is one of them (`MetadataIs`): so a turn names exactly one set, and that with the items sent;
- what a turn put out is found again by the turn's id in the outputs of all turns (`ByTurnConcat`, `OutputsAre`);
- every item, set, turn and output written is one the reader accepts (`ItemIsRead` to `TurnIsRead`), where
  `RecordsAssumption` is used: of the fields the store needs, only a title may be blank, and a Markdown
  without one is the exception the property names;
- `compareIndexEntries` is a total order, so the places of the index are a bijection (`PlacesAreTaken`) and the sorted
  list that `createAgentConversationIndexArtifact` chooses exists (`IndexReads`).

The texts and context sets have any length and the runtime any number of conversations; the run has two of each.

What stays with TLC:

- `ExecutionEnds`, `Settles`, `LoadingEnds`: liveness under fairness is out of the prover's reach.
- `ShownIsWritten` has no constants and no state to speak of: TLC's evaluation for every reader is the whole claim.

## Findings

1. `real_idea_answer_continuation_execution.py:810`, run `continuation_evidence`:
   when a content is saved again within the second it was first saved in, after it
   was executed, the failed promotion deletes the evidence of the
   first execution, and the content can run again. The contract calls the copies
   restart-safe evidence. The intake executor has a flag for this case.
2. `specspace_state_backend.py:686`, run `state_first_write`: a read that found no
   record leaves no revision, so the write takes the one that exists by then,
   and overwrites another process's first write without a conflict.
3. `ontology_acknowledgements.py:205`, run `state_no_lock`: read, change and write
   without a lock. Two acknowledgements at the same time leave one.
4. `asp_draft.py:232`, run `asp_pause`: the document of the draft service says that a pause
   fences every new session under the grant and that a fresh grant is required to start again.
   The holder of the grant can cancel the paused session and start another.

`findings` in `PROJECT.json` quotes the documents and tests these contradict.

## Not modelled

- Views of other systems' artifacts, HTTP routing, configuration and
  rendering change no state.
- Canonical encodings, signatures and digests are model values. Of
  `asp_draft_wire.py` and `asp_draft_identity.py` the models take the outcome: a
  request is accepted or not.
- What refuses a call before it changes anything (allowlists, bindings,
  bodies) is left out of the executors.
- In the state backends: single confirmation records, private copies, health
  checks and the migration script, which runs while the server is stopped.
- The older conversation browser (files, listing cache, watchers, lineage graph, export and
  compilation), the promotion review confirmation and the server's side of the
  repair life cycle. `PROJECT.json` has the reason for each.
- On the canvas: dagre's and the force layout's coordinates, zoom and search text; a second tab on the same
  storage.

## Further work

1. The promotion review confirmation: confirmation, pointer and expiry, composed with
   `HostedExecution`, where the enqueue reads them.
2. The server's side of the repair life cycle, beside `PromotionPath!RerunPublished`.
3. The conversation browser: a listing is no older than its call; the sentinel
   protocol of the export with crashes and two exports at a time.
4. Two backends for the preparation of an initialization, stating what remains true without a common lock.

## Running it

    tlc -config intake_two_servers.cfg MCLocalExecution
    tlapm LocalExecutionProofs.tla

`runs` in `PROJECT.json` names the module of each configuration.
