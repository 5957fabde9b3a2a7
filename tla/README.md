# Verification of Ori Studio's coordination layer

Ori Studio is an origami design studio: a React/TypeScript application (`apps/web`, also shipped
as a Tauri desktop app) around a family of Rust engines compiled to WebAssembly. The engines are
numeric and sequential. What is hard to get right is everything around them: documents whose
engine state is created, parked and rebuilt on demand, workers that crash under calls in flight,
answers that arrive after the question changed, caches keyed by generation, retries and
cancellations. This directory models that coordination layer in TLA+, model-checks it with TLC
and proves the properties that matter most with TLAPS.

All paths below are relative to `apps/web/src/` unless they start with a top-level directory.

## 1. Inventory

| Part | State it keeps | Operations | Hard behaviour | What makes it correct |
|---|---|---|---|---|
| **Document registry** `engines/documentRegistry.ts`, `designHandles.ts` | hot handles with recency, parked text, pins | acquire, park, pinned, serialize, adopt, adoptHandle, forget | every operation suspends at engine calls, so they interleave | a handle has one owner; no work is lost; pins hold; the limit is met |
| **Engine host** `engines/engineHost.ts` | one live worker per engine | connect, reset, crash | a dead worker never answers | nobody uses a dead engine's handle |
| **Latest-wins channel** `lib/latestWinsChannel.ts` | newest ticket, busy flag, one waiting request | request, cancel, answer | late answers | one request in flight, only the newest answered, every request settles once |
| **Fold-sequence runtime** `store/workspaceStore/foldSequenceRuntime.ts`, `fold/engine/*`, worker | worker, reference count, generation | retain, release, stop, ask, crash | stale handles across respawns | a handle never reaches another generation's arena |
| **Fold replay** `fold/document/foldReplay.ts` | result cache by path, in-flight table, statuses | run, cancel, clear | superseded runs, cache cleared under a run | a published status is of the current document |
| **Fold session** `fold/session/*` | document, holder, candidates, restarts | pick, commit, undo, search, recover | awaits everywhere, recovery after a crash | commits apply to the pose they were computed from |
| **Layer-order runtime** `layer-order/engine/layerOrderRuntime.ts`, `workers/layerOrder*` | worker, session and cursor, published count, pump | open, ask, count on and off, lose, dispose | a background pump sharing the worker with calls | at most one slice out; no wake-up lost; the count is of the session open |
| **Updater** `store/updateStore.ts`, `lib/updateController.ts`, `platform/updateService.ts` | status, staged update, notice | check, download, relaunch | concurrent checks, staged update vs. new check | a staged update is not lost; no version goes backwards |
| **Fold runs** `store/workspaceStore/foldRuns.ts`, `lib/foldCancellation.ts`, `workers/oristudioCpWorker.ts` | the folds listed, the stops noted on them, one shared cancel slot | begin, end, stop one, stop all | the kernel cannot be interrupted: it reads one slot, aimed again as runs end | a stop reaches the runs it names and no other |
| **Diagram capture** `diagram/capture/*`, `store/workspaceStore/diagramCapture.ts` | captures under way, the run of Refresh all, the queue of pose edits, the step's revision | refresh all, stop, verb on a step, pose edit, commit | a capture folds for seconds while the user edits, undoes, opens another file | a picture lands on the source it was drawn for; the newest edit wins; every edit finishes; one undo entry per run |
| **Folded-model write queue** `cp-workspace/folded/foldedModelWriteQueue.ts` | pending and running write | write, settle | coalescing | the last write wins |
| **Exact-solve runs, CP task session** `engine/cpExactSolve*.ts`, `engines/cpTaskSession.ts` | run per target, cancel flag | start, cancel, time out | work racing abort and timeout | one run per target, no late result applied |
| **Workspace store** `store/workspaceStore/slices/*`, `designTabs.ts` | tabs, documents, histories | open/close/activate tab, save, load, edit, undo | addressed writes after a tab switch | a result lands in the tab that asked |
| **Histories** `compoundHistory.ts`, `snapshotHistory.ts`, `cpHistory.ts` | undo and redo stacks | checkpoint, commit, undo, redo | checkpoints held across awaits | undo returns to the state before the edit |
| **Simulator session** `simulator/simulatorSession.ts` | solver, frame loop, loaded model | load, step, dispose | frames after dispose | numeric for the most part |
| **PWA** `pwa/*`, **unsaved work** `lib/unsavedWork.ts`, `lib/pendingEdits.ts` | service-worker state, dirty flags | update, guard | reload with unsaved work | no reload over unsaved work |
| **Cloud functions** `apps/web/functions/**` | R2 objects, KV | share, models, explori | concurrent uploads | stateless per request for the most part |
| **Desktop shell** `apps/tauri/src-tauri` | native CP engine, files, cancel flag | commands | threads, file writes | saves are atomic |
| **Rust engines** `crates/*` | geometry | optimise, fold, solve | numerics | out of a model checker's reach |

How they interact: the store's slices call the registry for a handle and the engine host for a
client; the registry listens to the host's losses. The fold session, the replay, the search and
the preview all share the fold-sequence worker through the runtime's port, and listen to its
losses. Diagram captures and the folds of the Edit canvas share the crease-pattern kernel, the list
of fold runs and the cancel slot. The layer-order runtime and the updater stand alone, each with a store of its own. All
of it is on one JavaScript thread: code between two `await`s is atomic, and everything else
interleaves. Workers answer the requests posted to them in order.

## 2. Plan

Modules, the most important behaviour first.

| | Module | State |
|---|---|---|
| 1 | `DocumentRegistry`: the registry, the engine host, the slot tables | done; safety proved |
| 2 | `LatestWinsChannel`, which implements the abstract `LatestWins` | done; safety and refinement proved |
| 3 | `UpdateCheck`: store, controller and service of the updater | done; safety proved |
| 4 | `FoldRuntime`: worker lifetime, generations, handles and batched releases | done; safety proved |
| 5 | `FoldReplay`: cache, sharing, epochs and trims, over the runtime | done; safety proved |
| 6 | `LayerOrderRuntime`: calls and the count pump on one worker | done; safety proved |
| 7 | `FoldSession`: holders, recovery, replay, previews, orders, commits on one worker | done; recovery, waiting, ownership and settling proved |
| 8 | `FoldRuns`: the folds that can be stopped, and the slot that stops them | done; safety proved |
| 9 | `DiagramCapture`, over `FoldRuns`, which it implements: captures, Refresh all, pose edits, the history they write | done; safety and refinement proved |
| 10 | `FoldSearch`, `FoldedModelWriteQueue`, `ExactSolveRuns`, `CpTaskSession`: coalescing, work racing abort and timeout | planned |
| 11 | `ProjectLoad`, `DesignTabs`, `CompoundHistory`: the store's addressing of late results, checkpoints across awaits | planned |

Composition. `FoldReplay` uses of `FoldRuntime` exactly what its properties say: every call under
way is rejected when its engine goes (`EveryCallSettles`, `OwnLossOnly`), and a handle of another
generation is turned away (`FoldsFromItsParent`). `FoldSession` has one sequence at a time, so it
carries the part of the replay and of the port it drives in its own record rather than all of
`FoldReplay`, whose subject is replays that overlap. `DiagramCapture` extends `FoldRuns`: its
actions take those of `FoldRuns` for the folds they begin, end and stop, and it is proved that every
behaviour of the captures is one of `FoldSpec`.

Abstract specifications: `LatestWins` for the channel and `FoldSpec` for the folds exist; the one
worth adding is a "design store" (documents with their edits, no handles) for the registry when
calls do not overlap.

Theorems to add: the two of `FoldSession` that are left, `AskedIsHeld` and `ShownIsItsPath`. They can
start from `StatesAreAccountedFor`, which says where every state is.

Each module has one run for its safety and, where the system promises it, its liveness; a second
one only for a distinct question. Runs that expect a violation are few, one for each kind of
mistake; the others of the same kind are told in section 5.

## 3. The modules

Conventions. A call of an asynchronous function is an element of a set (`Calls`, `Requests`,
`Tasks`, `Runs`), made at most once; everything between two awaits is one action, since the
application has one JavaScript thread. A definition introduced by a comment that starts with
"Fault" is no part of a specification. It is a plausible bug of the definition after it, put in
its place to see that a property notices; `PROJECT.json` lists the pairs under "mutants".
`PROJECT.json` also says, for every definition, which lines of the source it stands for.

### `DocumentRegistry` (`MCDocumentRegistry`, `DocumentRegistryProofs`)

*Code.* `engines/documentRegistry.ts`, `engines/engineHost.ts`, `engines/designHandles.ts`, the
handle users in `store/workspaceStore/engineRuntime.ts` and the slot table of
`crates/treemaker-wasm/src/lib.rs` (that of `crates/oristudio-bp-wasm` is alike).

*State.* `hot`, `touched`, `clock`, `parked`, `pins` are the registry's maps. `slots` is what each
engine's table holds; `queue` the requests its worker has not answered; `call` where every call is
suspended and on what. `made` is the history of the edits acknowledged per document.

*Actions.* `Acquire` (opening, editing, or inside `pinned`), `Park`, `Save`, `Forget` (close, or a
file opened over the document), `New` (`claimTree` and `adoptHandle`) start a call. Each
`Answer...` is the worker's answer to one kind of request together with everything the call does
up to its next await: `EvictIfNeeded` is the head of the eviction loop, which parks one more
document and awaits, or returns the handle. `EngineLost` is a crash or a reset: the host drops the
client, the registry the handles, and requests under way are never answered.

*Abstraction.* A document's content is the set of the edit calls it holds, and a text is such a
set: what a conversion to text must keep is exactly which edits are in it. Opening a file is
`forget` and `adopt` of one document in one step. A save is one document's `serializeDesign`.

### `LatestWins`, `LatestWinsChannel` (`MCLatestWinsChannel`, `LayerOrderRuntimeProofs`)

*Code.* `lib/latestWinsChannel.ts`. `latest`, `busy`, `waiting` are its variables, `ticket` the
ticket in each request's closure, `outcome` what each promise has come to, `engine` the calls of
`send` not settled. `Request`, `Cancel`, `Answer` and `Reject` are its operations; the last two
include `next`, which runs the waiting request.

`LatestWins` is the promise: one current request, only the current one answered or rejected,
everything else superseded at some time. The refinement mapping takes for `current` the request
whose ticket is the latest.

### `UpdateCheck` (`MCUpdateCheck`, `UpdateCheckProofs`)

*Code.* `store/updateStore.ts` (`status`, `version`, `highest`, `delivery`, `snoozed`),
`platform/updateService.ts` (`pending`, the handle of the plugin), `lib/updateController.ts` (the
actions) and `components/UpdateCard.tsx` (which buttons are there to press, and the confirmation
before a relaunch). `offer` and `fetched` are the plugin's side: the version a handle is for, and
whether its payload is downloaded. A handle is named after the check that brought it. `Restart` is
the end of the application at any moment: `highest` and `delivery` are in localStorage, nothing
else survives.

*Abstraction.* `checkForUpdate` setting `pendingUpdate` and the controller's update of the store
after its await are one step: between them run only continuations that were queued before, and
none of those reads either. A user's check runs whatever `delivery` says, so `delivery` restricts
no check.

### `FoldRuntime` (`MCFoldRuntime`, `FoldRuntimeProofs`)

*Code.* `store/workspaceStore/foldSequenceRuntime.ts` (`refCount`, `alive`, `generation`),
`fold/engine/foldEnginePort.ts` (`stamp`, `id`, `owned`: a handle; `batch`, `flushes`: the batched
releases), `workers/foldSequenceWorker.ts` and `crates/oristudio-fold-wasm` (`inbox`, `table`,
`poisoned`). Every engine numbers its states from 1, which is why a handle carries the generation.

*Actions.* `Retain`, `ReleaseClient`, `WorkerError` and `ReadTrap` (an answer
`fold_engine_trapped` is read) end in `DropWorker`, which announces the loss: every call under way
is told, and a listener may ask again at once (`FateOfNewCall` says what that call hears). `Ask`
is the port's sheet or step, `Answer` the worker's turn at the oldest message, `ReleaseState` and
`Flush` the batch and the microtask that sends it. Macrotasks wait for microtasks: actions of the
worker are guarded by `flushes = 0`.

### `FoldReplay` (`MCFoldReplay`, `FoldReplayProofs`)

*Code.* `fold/document/foldReplay.ts`, with what `fold/session/foldSession.ts` does to it: it
cancels, clears when the engine is lost, and clears and replays when the engine did not know a
state. `cache`, `pinned`, `inFlight`, `epoch`, `newest`, `running` are the replayer's variables;
`calls` and `held` the port's side; the rest is per run.

*Abstraction.* A path stands for the steps from the sheet to a node, which is what its digest is
made of; a document is its nodes' paths in replay order. A state is named after the call that
landed it. `Locked` paths are steps this build cannot read, `Refused` ones steps the engine turns
down; what is below either inherits its status without a call. Steps that unfold to an earlier
state (`resolveFoldReturn`) are left out.

### `LayerOrderRuntime` (`MCLayerOrderRuntime`, `LayerOrderRuntimeProofs`)

*Code.* `layer-order/engine/layerOrderRuntime.ts` (`live`, `closed`, `asking`, `slicing`, `owed`,
`more`, `broken`, `epochSeen` are its variables, `counting` says that `slice` is not null, `timer`
that `pumpTimer` is not, `counted` what it publishes), `workers/layerOrderBridgeBackend.ts`
(`session`, `cursor`, `epoch`), the trap latch of `workers/layerOrderWorkerApi.ts`, and
`layer-order/dialog/useLayerOrderSession.ts`, which turns the count on and off.

*Actions.* `Ask` and `Open` post a call; `Pump` is the timer's task; the `Serve...` actions are the
worker's turn at the oldest call; `HearCall`, `HearSlice`, `HearTrap` read the oldest answer with
everything its promise handlers do, `schedule` last. `EngineLost` is the error event or a cancel.

*Abstraction.* Calls are anonymous and of four kinds, by what they do to the cursor. A count is its
cursor's epoch and the slices left. The dialog turns the count off before it asks an open and turns
it on only once one has answered: the module takes no other use (section 5 says why that matters).

### `FoldSession` (`MCFoldSession`, `FoldSessionProofs`, `FoldSessionShownProofs`)

*Code.* `fold/session/foldSession.ts` with `foldSessionEngine.ts` and `foldSessionState.ts`, and of
the replay, the port and the latest-wins channel what the one session uses of them. The session,
the sequence it shows and the worker it drives are one record, `s`, since the handlers call each
other and end in one publish: each function of the code that changes them maps a record to a
record. `spent` and `streak` are the bound and a history.

*Actions.* A task of the JavaScript thread each: a surface opens or closes (hold, release, and the
linger with its timer), the document changes under the session, a step is picked, hovered,
previewed, committed or its orders resolved, a message of the worker is read, a call fails, the
worker crashes. Continuations of promises run before the next task and are part of it, but for the
one that resumes a waiter, which is an action of its own.

*Abstraction.* A state is a number in an engine's table, the engine's generation, and the
operations folded from the sheet: what it is tells whether what is shown belongs to its step.
Geometry, orders and candidates are not told apart further.

### `FoldRuns` (`DiagramCaptureProofs`)

*Code.* `store/workspaceStore/foldRuns.ts`: `listed` is `oristudioCpFoldRuns`, `stopping` the runs
so marked, `slot` the shared slot of `lib/foldCancellation.ts` the kernel reads at its checkpoints,
`aborted` the signals raised for work on the host engine. `calls` is the kernel's queue, `work`
where each run's work is. A run goes to the kernel or the host engine and back to the page as often
as it likes: folding, its phases and a relaxation are several calls of one run.

*Actions.* `BeginFold` and `EndFold` are the two ends of `withFoldInFlight`; the latter, and
`Stop`, aim the slot at the oldest run noted. `KernelStops` is a checkpoint that finds the run's own
id; `KernelAnswers` the call's end, whichever way, a stop that came too late included. `LoseEngine`
is the loss of the kernel's worker: its calls never settle, and the list is emptied.

### `DiagramCapture` (`MCDiagramCapture`, `DiagramCaptureProofs`)

*Code.* `diagram/capture/captureQueue.ts` (Refresh all), `stepPoseQueue.ts` (pose edits),
`store/workspaceStore/diagramCapture.ts` and `diagram/document/diagramDocument.ts` (beginning,
folding and committing a capture), with the snapshot history they write and the stop buttons of the
step's card. The page's state is one record, `d`: the steps with their revision, source and
picture, the history, per step the capture marked on it, the captures and runs begun, the pose
queue, and which workspace is open.

*Actions.* `Refresh` to `WaitedForEdit` are the awaits of a run of Refresh all: the index of the
sheets, the confirmation when a redo branch would go, the wait for Edit to be left, the turn of
each step. `Verb`, `DrainPose` and the run's turn begin a capture; `Prepared`, `Folded`, `Land` and
`FailCapture` are its awaits; `Folded` ends the fold's run, with what `EndFold` does to the slot.
`Undo`, `Redo`, `Open` and `LoseKernel` happen at any time. `FoldGoesOn` is whatever `FoldRuns`
does by itself.

*Abstraction.* A source is an identity, a picture the version of the pattern it was drawn from. The
order in which a run takes its stale steps is arbitrary here. `Overlaps` says whether Refresh all
may be asked again before it knows what is stale (section 5).

## 4. The runs

| Run | Shows | Bounds |
|---|---|---|
| `registry_any` | handles are freed once and only while they are their document's; racing evictions meet the limit | 3 calls of any kind, all overlapping; 3 designs, two of them on one engine; 1 loss; 1 hot handle; every request but the work itself may be refused |
| `registry_pins` | pinned work keeps its handle; pins are released and calls settle | 3 calls, 2 designs, no loss |
| `registry_in_turn` | nothing is lost, leaked or misplaced when calls do not overlap | 4 calls in a row, 3 designs, 2 hot handles |
| `registry_stale_text` | one of the ways in which overlap loses work (section 5) | 3 calls |
| `latest_wins` | one in flight, the newest waits, nothing forgotten, `LatestWins` implemented, every request settles | 4 requests, 3 cancels |
| `update_check` | the version shown is the version held; only the newest version seen is installed, over restarts | 4 calls of any kind, 2 versions, every delivery, self-updating or not |
| `fold_runtime` | handles name their own states; steps fold from their parents; nothing leaks; calls settle | 3 calls, 2 references, 2 losses, so up to 3 engines |
| `fold_replay` | held = cached; no state taken from under a run; pins and capacity; nothing asked twice; runs return | 3 runs of 2 documents sharing a branch, 5 engine calls, 1 unpinned state kept |
| `layer_order` | the pump's flags tell the queue; no wake-up is lost; the count is of the session open; a stream of calls never starves it | 3 calls and answers on their way, a count of 2 slices, 2 opens or changes, 2 losses or failed calls; any number of steps and questions |
| `fold_session` | what is shown is the state of its own steps in the engine that is on; no state leaks or is freed under its owner; nothing asks about a state not held; restarts are bounded; no waiter and no held session waits for nothing | 5 acts of any kind (2 holds and releases, 2 document changes, 3 uses of tools, 2 failing calls or states not known, 3 crashes, hence up to 3 in a row), 2 operations, one of them refused, 2 steps |
| `diagram_capture` | pictures land on their source, the newest pose wins, every edit finishes, one undo entry per run, a Stop reaches the folds it names and no other, and reaches the run that captures | 2 steps, one of a Fold step; 2 folds; 3 acts besides the first Refresh all, the loss of the engine one of them; Refresh all not asked again before its confirmation |
| `diagram_capture_progress` | the progress of a run shown in another document (section 5) | the same |

*Why the bounds are enough.* Every hazard of these parts is a race of two or three calls over one
or two documents: a call suspended, one that overtakes it, and one that makes the difference
visible. Three overlapping calls and one spare document to reuse a slot or a path cover these;
the fourth and fifth call lengthen sequences. `layer_order` bounds only what is on its way at once,
and the restarts and mishaps: previews and steps go on for ever there, which is what starving
means. `fold_session` and `diagram_capture` bound the acts, not the steps between them: a commit is one
act and some ten actions. Both were also run to the end with one act more (1.6 and 7.5 million states,
six and eleven minutes) and hold there; the runs keep the smaller bound for its time. Three crashes in a row are one more than the session restarts for. A step
may be rewritten in place only while the session lingers there, and the kinds of call that may fail
for another reason than a loss are three: section 5 tells what the others show. A second loss is there because the first one resets
numbers and the second tells a stale number from a fresh one. Symmetry is used only where calls
are interchangeable and no liveness is checked. Runs stop when their calls are used up, so
deadlock is not checked; liveness takes its place. `registry_in_turn` lets the engine refuse a
creation but not the text of a design being parked: then an eviction keeps the text before, as the
code means it to. `EveryRunReturns` excepts the runs stopped by
the bound on engine calls; `PinsReleased` those whose engine died.

*Fairness.* Only what the code's environment provides: a worker that is alive answers
(`registry_pins`, `latest_wins`, `fold_runtime`, `fold_replay`, `layer_order`), answers that have
come are read and microtasks run (`fold_runtime`, `layer_order`), a run whose answer is there goes
on (`fold_replay`), and a timeout of 0 fires (`layer_order`). No user and no loss is fair. Mishaps
are bounded in `layer_order` because a call that fails earns no slice: a dialog that asks for ever
and always fails would keep the count waiting, by the code's own rule. The updater, the session and the
captures have no fairness: a download, a fold or a confirmation may take for ever. What must not wait
for ever is stated as the safety part of it, that whoever waits has somebody to wait for: `HeldSessionSettles`
and `WaitersAreWoken` of the session, `EveryEditFinishes` of the captures, and the updater's
`StatusIsOfSomething`, which is proved.

## 5. Where the code and its comments part

Found while modelling, and shown by runs that expect a violation:

- `registry_stale_text`: `park` takes a design out of the hot set and then awaits its text. An
  acquire in between (the tab activated again) rebuilds the design from the previous text, or
  blank, although "Parking serializes first, so an eviction never loses work"
  (`engines/documentRegistry.ts:112`).
- `diagram_capture_progress`: after each capture, Refresh all sets its progress whatever document is
  open (`diagram/capture/captureQueue.ts:114`, `157`), and its end clears it only in the document it
  began in (`163`). A file opened meanwhile keeps the progress of a run that has ended, though the
  field is "Refresh all out-of-date steps, while it runs" (`store/workspaceStore/types.ts:2330`).

Of the same kinds, seen with the same modules and not kept as runs of their own.

*Registry.* `ensureTreeHandle` returns a bare handle: if its design is parked before the caller uses
it, and the slot goes to another design, the edit changes that one. Two acquires of one cold design
overwrite each other's handle, which leaks. A save while a design is being parked for the first time
leaves it out of the file; a park under way when a file is opened stores the replaced design's text
under the reused id; a worker that dies under pinned work leaves the pin for good. All are absent
when calls do not overlap, or no engine dies, which `registry_in_turn` and `registry_pins` check.

*Updater.* `checking` does not make a check skip, so two overlap: the later one replaces the handle
under the earlier one's download, which then says `ready`. A check under way when the user relaunches
sets the card to `ready` over `installing`, and the button starts a second install, which
`components/UpdateCard.test.tsx:124` means to exclude. A failed check over `ready` ends in `failed`,
against the comment at `store/updateStore.ts:106-109`.

*Channel.* A superseded request that is already in the engine resolves only with the engine's answer,
not "as soon as a newer request" comes (`lib/latestWinsChannel.ts:27-29`); `LatestWins` promises what
the code does.

*Replay.* States shown by a run that was cancelled are not pinned, and the trim when the last run
ends releases them beyond the capacity, though `fold/document/foldReplay.ts:351-353` says a state the
reader holds is never released under it.

*Session.* A linger that begins takes the replay to be done when the last one of the same load was
(`fold/session/foldSession.ts:745`), though steps may have been added since. So after a replay that
failed nothing is owed, and a surface that comes back within the linger clears the error
(`1328-1334`) and starts nothing: a step neither shown nor on its way, with nothing said. TLC finds it
with two steps committed on a rewritten one and `"replay"` in `Failing`; `fold_session` and
`HeldSessionsSettle` leave that failure out. A step rewritten in place while a
surface holds the session, or while its commit is under way (`foldSessionState.ts:325-330`), leaves a
result of the old step shown for the new one; orders resolved ahead are not covered by the check for
rewrites (`foldSession.ts:776-778`). A halt published while a replay is scheduled leaves a waiting commit
waiting (`831-835`: the scheduled task then does nothing and publishes nothing): `WaitersAreWoken` excepts
a session that gave up.
A commit that awaits a preview of a step let go meanwhile ends in `failed`, not in `stale`; so does one
whose step a replay has meanwhile settled at another state, the one it folds from being released
(`1131-1180` look again at the step, not at its state): `AskedIsHeld` excepts both.

*Captures.* Refresh all can be asked twice before the first has its confirmation: the guard reads
what is set after it (`diagram/capture/captureQueue.ts:48`, `73-76`); then two runs capture, and Stop
names the later one (`Overlaps` admits it; no run does). An undo restores a step's revision with it (it is part of the step, `diagram/document/diagramDocument.ts:1318-1322`),
so an undo and another edit may give a capture under way the revision it began with: `LandsOnItsSource`
excepts the captures an undo or a redo has gone past. The mark of a capture is the step's, not its
owner's: when a file is opened again, the end of an old capture clears the mark of a new one of the same step.
After another's edit comes between, the entry a run joins is no longer the newest and never becomes
another: each later step of that run is an entry of its own. A refresh that joins its entry after an
undo of a later edit keeps the redo branch (`extend` leaves `future`), and a redo then drops the
refresh.

*Folds.* The slot is aimed at the oldest run noted as "the one the engine is executing"
(`store/workspaceStore/foldRuns.ts:41-44`). A run makes several calls, so an older run may be queued behind a younger:
Stop all then names the older, and the younger goes on until the older has ended. When the kernel is lost the list is
emptied (`118`); a run then on the host engine, or in the page, goes on where nobody can stop it.

The layer-order runtime publishes null when an open answers, not when it throws, although the worker
has closed the session before by then (`workers/layerOrderBridgeBackend.ts:175`). By itself it
would keep the final count of a session that is gone, against
`layer-order/engine/layerOrderRuntime.ts:199-202`. The dialog never lets this show: it turns the
count off before every open (`layer-order/dialog/useLayerOrderSession.ts:191`), and
`CountIsOfItsCursor` holds thanks to that line.

## 6. What is proved

All theorems hold for every value of the constants under the named assumptions of the modules
(sentinels are not members of the sets they complete; bounds are natural numbers; versions are
positive). Each follows from an invariant that is inductive, with a lemma per action. The type
invariants are part of it and are proved too (`TypeCorrect`, `FoldTypesHold`), so the runs do not
check them. Theorems that state no property of a run (`NoStatusOutlivesItsCall`, `NoRollback`,
`LossesAreOwn`, `OffStaysQuiet` and others) were checked by TLC before they were proved, and their
runs given to other questions since.

- **`DocumentRegistryProofs`** `TypeCorrect`, `HandlesStayLive` and `HandlesFreedOnce`: the last two
  are inductive only together, since a free is harmless only while nobody else owns the slot. Every
  answer is split into two halves, the call letting go of what it was freeing and then awaiting
  something new; `OwnedBut` is what holds in between, and the lemmas `LetGo`, `EndFreeing`,
  `EndNotFreeing`, `TakeHot` and those on allocation serve all actions. The other invariants rest on
  `NextIs`: every step is one call going on to a suspension (`StepTo`) or the loss of an engine, so
  that `SlotsMove`, `HotMove`, `MadeMove` and `ParkedMove` say once for all actions what a step may do
  to the slots, the hot handles, the history of edits and the texts kept. `EvictionReachesLimit`:
  after an eviction the limit is met, whatever interleaves. `PinsHold` assumes what its run does, no
  loss and no close, load or new file over a pinned design: the pins of a design count the pinning
  calls under way, and the handle of one stays live and is nobody's to free (`PinInv`).
  `EditsInTurnLand`, `NothingLeaksInTurn` and `NoWorkLostInTurn` assume that calls do not overlap
  (`MaxInFlight = 1`), for section 5 shows what overlap does; the last also that no engine is lost and
  that a text being parked is not refused, when the code keeps the text before.
- **`LayerOrderRuntimeProofs`**, of the channel its previews are asked through (`LatestWinsChannel`):
  `ChannelTypeCorrect`, `OneRequestInFlight`, `WaitingStaysNewest`, `NoRequestForgotten`,
  from an invariant that adds `TicketsOrdered` (tickets are unique and never ahead of `latest`);
  `ChannelImplements`, the refinement: each step is a step of `LatestWins` or a stutter, with
  `Current` as a set of at most one request by the uniqueness of tickets.
- **`UpdateCheckProofs`** `OfferStaysPending`, `NoStatusOutlivesItsCall`, `NoRollback`,
  `NewestInstalled`. Needed besides: `ShownIsHighest` (where the installation updates itself, the
  version shown is the highest seen), `PackageIsToldOnly` (elsewhere nothing is downloaded or
  relaunched) and `WorkHasHandle`.
- **`FoldRuntimeProofs`** `HandlesNameTheirStates`, `StepsFoldFromTheirParents`, `NoStateLeaks`,
  `LossesAreOwn`, `WorkerNeedsAHolder`, `CorpsesEndNobody`. The invariant says that stamps are
  never ahead of the generation (`StampsAreOld`), so that a lost engine's handles, batches and
  answers stop counting at once, and that within one engine the table and the handles name each
  other (`TableNamesHandles`); `QueuedIsAsked`, `QueuedOnce`, `LeavingIsGiven`, `OwnedHasLanded`,
  `NoWorkerNoEngine` and `TrapPoisons` close it.
- **`FoldReplayProofs`** `HeldIsCachedHolds`, `RunsHoldTheirStatesHolds`, `CacheBoundedHolds` and
  `AskedOnceHolds`, all from one invariant: a path has one entry, and the table of calls under way has
  those of the present epoch, each of a path not cached (`CacheInv`, `TableInv`); a call of an epoch that
  has ended folds from a state let go of, so it lands nothing (`FromInv`); what the current run has made
  and awaits is of this epoch and in the cache (`LiveInvs`); every call of the epoch is awaited, and
  `running` counts those who await (`WaitInv`, `CountInv`), so the trim comes when nobody is left, and
  reaches the capacity without the states touched last (`TrimInv`).
- **`LayerOrderRuntimeProofs`**, of the runtime: `FlagsTellTheQueue` and `NoLostWakeUp`, inductive together with the
  types (`PumpInv`): the lemmas `Posting`, `Serving`, `Hearing`, `Emptying` say what each move of a
  call does to the numbers of calls and slices. `OffStaysQuiet` and `CountOfTheSession` from
  `CountInv`, which adds that a slice's answer not yet heard is of the present cursor or followed
  by what retracts it (`SlicesAreFresh`), that no open is under way while the count is on
  (`OpensAreQuiet`), and that an epoch 0 is nobody's.

- **`FoldSessionProofs`** `RestartsAreBounded`, `NobodyWaitsForNothing` and `StatesHaveOneOwner`. The
  first two are from `SessionIsSettling`. What was published of the holders, the run and the error is
  what they are (`Current`); whoever waits waits for a step published as pending, with something under way whose end
  is published, or the session gave up (`Heard`): a publish that changes nothing would leave a waiter
  alone, and what makes it news is `Current` broken just before, as by the end of a run or by a failure,
  which is never the one published before it. `Sound` adds that a run has a holder and an engine known
  to be there and that the steps stay in order, each after its parent, so that the order of a replay is
  one (`LinesExist`, `RestsExist`). `Bounded` ties the history to the session's own count. The session
  is one record, so there is a lemma per operator of the module: which fields it may touch and that
  nobody waits after it who did not before (`Keeps`), and what becomes of the invariant (`Mild`,
  `Settles`); an action composes those of the operators it is made of.
  `StatesHaveOneOwner` adds `Whole` to it (`StatesAreAccountedFor`). Within an action a state may be
  on its way: the answer has landed it and nobody keeps it yet, or its keeper has let go of it and the
  release is not yet posted. So `Owned(m, X, U)` says of any record that what the engine holds and
  was not told to release is split among the replay's cache, the offers to adopt, the preview, the
  orders and `X`, the states on their way (`Balanced`; `U` is the preview a commit has taken, once it
  is somebody else's), and that the messages on their way and those who await them say the same
  (`Mail`). At every task nothing is on its way, what a commit has taken it still awaits the fingerprint
  of (`Taking`), and what has landed for steps is of steps there have been (`Placed`). An operator that
  lands nothing keeps all this for every `X` and `U` (`Minds`); the others put a state on its way or
  take it over (`WholeBut`, `Whole`).
- **`FoldSessionShownProofs`**, over those, `HeldSessionsSettle`. It adds `Prompt`, and assumes that of the calls the replay's do not fail but by a loss
  (`"replay" \notin Failing`, as in the run; section 5 says what the code does when one does; refusals,
  crashes and states not known are all there). A start has its version under way, a run the node it stands
  at, whose answer is wanted, and has made the nodes before it (`Steady`, `RunWaits`); a run covers the
  document unless the next is scheduled (`RunCovers`, from `OrderCovers`: every node is in the order of a
  replay). Then what is not shown is on its way or something is said, also for a session that lingers and
  owes nothing (`Told`). A run's end shows all it made (`FinishGoes`), so what is left to show is that no
  operator loses a call somebody wants: most leave runs, starts and surfaces alone (`Leaves`), the others
  begin something (`StartPrompt`) or end what they forget (`StopPrompt`, `RestartPrompt`). While an answer is
  heard its call is gone (`PromptBut`). With the mailbox empty nothing is under way: every step is
  shown, or an error is.
- **`DiagramCaptureProofs`**, of `FoldRuns` by itself: `FoldTypesHold`, `StopsAreTheAsked`,
  `StopsAreHeard`, from `FoldInv`: a run
  in the kernel is at its place in the queue (`QueueOfRuns`), a run noted has been asked
  (`StopsAreAsked`), what the slot names has been asked, while it is live (`SlotIsAsked`), and it is
  the oldest noted (`SlotIsOldest`). Ids are never used again, so a slot left behind by a run that
  has ended stops nobody: that is what `OnlyTheAskedStop` rests on.
- **`DiagramCaptureProofs`**, of the captures: `CapturesImplementFoldRuns`: each action of the captures takes a step of
  `FoldRuns` or leaves it alone, so `Spec => FoldSpec`, and `CapturesStopTheAsked` carries the result
  over. `PicturesLandOnTheirSource` from `CaptureInv`: a capture not gone past by an undo has a
  revision that is not ahead of its step's, and at the same revision the step's source is the one it
  saw. `PosesLandNewest` from `QueueKnowsNewest`: the queue's newest edit of a field is the newest
  there is, or the field is forgotten and no edit of it lands. `StopReachesIt`, under `~Overlaps`, from
  `OneRun`: at most one run is beyond its confirmation, and none waits for one while another captures.
  `RunsAreOneEntry` from `EntryInv`: entries are numbered and a run nobody disturbed has at most the
  newest, which is the one it joins (`Joined`); a change it joins makes none, a change of anybody else
  ends its being alone. `EveryEditIsFinished` from `PoseInv`: what waits in the queue is the latest of
  its field, so ending the session finishes it (`QueueOK`); a step marked is drawn by a capture under
  way (`MarksOK`); an edit neither done nor waiting is written by a capture under way, of the step edited
  if the queue is busy with it (`EditsOK`). `PoseBut` is what holds between taking an edit from the
  queue and beginning its capture, or ending a capture and writing its edit.

Recursive functions (the replay's filters, the trim, the queue's drops) are reasoned about by induction
over sets of numbers: `NatLessThanWellFounded` and `WFMin` give `Least`, every set of numbers has a
least, and so `Ascent`, a set with 0 and with the next of each of its numbers below k has all up to k.
With the set of those numbers at which the function exists, or at which what is claimed holds,
`Ascent` (in `FoldSessionProofs` `Climb`) is the induction, and needs no theorem that takes an operator.

Only model-checked: what is temporal but for invariants and action properties (liveness under
fairness is out of the prover's reach), and of `FoldSession` what is asked about and
what is shown (`AskedIsHeld`, `ShownIsItsPath`), which also need what every step shown, run and offer says
of the path of its state.

## 7. What is not modelled

The parts listed as planned in section 2, with their hazards already in `PROJECT.json`. Of the
modelled parts: the updater's schedule and telemetry, and `skipCurrentVersion` and
`revokeStagedUpdate`, which nothing calls; `stopFoldSequenceWork` (no caller; it is `WorkerError`
with another reason) and calls that only read a state; `returnTo` and unfold-to steps; the
layer-order runtime's `invalidate` and `askCurrent`, its `close` and a `countSlice` asked directly
(no caller that counts), and the replacement of a cursor the engine calls stale;
the session's analyses and other questions about a state, a landed import, unfold-to steps, searches,
`dispose` and the replayer's trim (`FoldReplay` has it); of the folds, a page that shares no memory
with the worker and the desktop's command; of the captures, layer orders lost or needing attention,
pictures that fold nothing of the pattern, the capture session that owns handles, steps deleted, a
document that is read-only or being imported, and undos from a notice, which end no session. Out of
reach or out of scope: the Rust engines' geometry, the simulator's numerics, the user interface,
analytics, the cloud functions (stateless per request), the browser's own service-worker life
cycle. `PROJECT.json` has the reason for each under "components".
