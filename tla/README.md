# A verification development of the local Coding Agent

TLA+ models of the Agent in `src/agent` (an asyncio Runtime, its FastAPI Host and
its local tools), the TLC runs that check them on small instances, and the theorems
TLAPS proves about them for every instance.  The reference is the code; docs are quoted
only where the code and they disagree.

## 1. The system

One Python process serves a browser UI.  Everything below runs on one event loop,
so interleaving happens only at an `await`; a few operations run on worker threads.

| Component | Source | State it keeps | Operations |
|---|---|---|---|
| Thread Runtime | `runtime/thread_runtime.py` | a `_ThreadRecord` per Thread: status, active Turn, preflight slot, Turn summaries, idempotency submissions, closing flag | `run_turn`, `cancel_turn`, `close_thread`, `update_settings`, `resolve_approval`, `aclose`, restart recovery |
| Workspace leases | `runtime/workspace_lease.py` | the active roots | `acquire`, `release` |
| Thread store | `runtime/thread_store.py` | SQLite rows: state, events, idempotency | `save_thread_transition`, `save_thread`, load |
| Events | `runtime/events.py` | a bounded deque per Thread, sequence and its durable watermark, subscriptions, one emitter per Turn | `append`, `read`, `subscribe`, `next_sequence`, `emit` |
| Agent loop, run controller, tool coordinator, conversation | `runtime/loop.py`, `run_controller.py`, `tool_coordinator.py`, `conversation.py` | iteration and tool budgets, deadline and its pause, cancel flag, pending approval, canonical messages | model call, tool batch, approval, settle on cancel |
| Background Turns | `host/turn_tasks.py` | one submission per Thread, its asyncio task, the last host failure | `start`, `cancel`, `inspect`, `shutdown` |
| Host Threads and HTTP | `host/thread_service.py`, `host/app.py`, `host/server.py` | Host views of Threads, error mapping | the REST endpoints |
| SSE stream | `host/event_stream.py` | a cursor and the last reported failure per connection | realtime and polling streams, snapshot recovery |
| Process sessions | `tools/process.py` | active, completed and dead sessions | `exec_command`, `write_stdin`, poll, cancel, close |
| Tool registry, local tools | `tools/registry.py`, `tools/local.py`, `tools/filesystem.py`, `tools/apply_patch.py`, `tools/result_bounds.py` | registered executors, session context | `execute`, file edits, patches |
| Settings | `runtime/settings.py`, `turn_context.py`, `thinking.py`, `host/thread_service.py` | versioned settings per Thread, the captured configuration of a Turn | `update_settings`, normalisation, capture and overrides |
| Task state and evidence | `runtime/evidence.py`, `task_state.py` | a plan and the newest facts of a Turn | `update_plan`, record a fact, project the lines of a request |
| Policy, change tracker | `runtime/policy.py`, `change_tracker.py` | Turn-local | a decision per command; the changes of a Turn |
| Context and history | `runtime/context_*.py`, `runtime/history/*`, `instructions.py`, `skills/*` | a compaction checkpoint | selection, pruning, compaction, budget |
| Model access | `model/*`, `runtime/model_invoker.py`, `message_assembler.py` | a pool of HTTP clients with leases | stream, retry, release |
| Provider configuration and catalog | `host/provider_config.py`, `host/model_catalog.py`, `host/workspace.py` | JSON file, cache with single-flight refresh | save, clear, discover, select |
| Web client | `web/src/*` | reducer state, SSE client | apply event, reconnect |

How they interact: an HTTP handler calls `TurnTaskManager.start`, which creates a task
that awaits `ThreadRuntime.run_turn`; that reserves the Thread, validates the root on a
worker thread (the only await of the preflight), leases it and runs the Agent loop.  The
loop waits for the model and for tools through `RunController.wait`; every semantic event
goes through the `EventBuffer` to a durable sink, which commits the whole Thread state
and the new event in one SQLite transaction.  SSE connections only read the buffer.
Stop, close and approvals are other tasks that run between two awaits of a Turn.

What is hard here: a request is handled at any await of a Turn, so every check made
before an await may be stale after it; `asyncio` cancellation reaches a task that is being
cancelled already; a synchronous tool goes on in its worker thread when its task is
cancelled; a commit can fail at each of a dozen places between two in-memory changes; the
process can die between two commits; and a page, a Turn and an editor all read state that
another one has moved on.  What each component owes:

| Component | What makes it correct |
|---|---|
| Workspace leases | two active roots never overlap; the capacity holds; a Turn that does not run holds none |
| Thread Runtime | status, active Turn, preflight and calls agree; one Turn per key and one outcome per Turn; what was returned is durable; every call settles, every close completes |
| Thread store | a transition is stored whole or not at all; no started Turn is forgotten |
| Settings | a save replaces what its page displayed; a version names one state of the settings; what is saved is what a Turn accepts; a request asks for nothing its model does not document |
| Model call | what is shown comes from one attempt and is told once; the message is exactly what the provider sent |
| Task state | a command that fails now is not shown as passed as long as its line fits, nor is a failure that was repaired; the plan shown is the plan in force |
| Agent loop, tools, run controller | every tool call is answered before the next request; a stopped Turn launches nothing and never completes; no operation outlives its Turn; every Turn ends |
| Background Turns | the mapping reaches every suspended call; shutdown returns |
| Event buffer, SSE | sequences never repeat; a page catches up |
| Page | the state reduced from events is the one a Snapshot hydrates; the pending approval has its card, which can be clicked |
| File edits | a patch is applied whole or not at all; the reported changes are those on disk; an editor's save is not overwritten unseen |
| Process sessions | output is delivered once and in order; a session survives other Turns; no process outlives its owner |
| Context and history | a request never cuts a tool interaction in two and shows the newest one as it is; a summary, once committed, is never lost |
| Model access | a key's verification is the current key's; a leased client stays open; shutdown leaves none |

## 2. Plan

Modules in the order they were (1-10) and will be (11-14) written; an arrow is EXTENDS or
INSTANCE.

1. `WorkspaceLease`: the abstract lock the Runtime promises; `ThreadRuntime` -> `WorkspaceLease`:
   calls, leases, store, crash and recovery; `LeasesImplemented` is the refinement.
2. `HostTurns` -> `ThreadRuntime`: the background tasks, Stop, Close and the shutdown above it.
3. `TurnExecution`: the inside of what `ThreadRuntime` treats as one outcome.
4. `EventStream`: buffer, SSE connection and page.
5. `WorkspaceEdits` -> `WorkspaceLease`; `ProcessSessions`: the tools with effects.
6. `ModelClients` -> `ModelCatalog`: credentials, discovery, the client pool.
7. `ContextReduction` -> `History`: units of a canonical history, pruning, the raw tail, the
   rolling checkpoint, and the model steps of a Thread that use them.
8. `ModelStream`: the inside of `TurnExecution`'s model call: retries, chunks, the message assembler.
9. `TurnSettings`: versions under concurrent saves, and from the capture to the request;
   `TurnEvidence` -> `TurnExecution`: the facts and the plan a Turn shows its model.
10. `PageView`: the reducer and the approval card over the events of `EventStream`.
11. Token estimation, result bounds and the sections of a request as operators over 7.
12. Policy: the decision as an operator over command shapes, in the place of `TurnExecution`'s input.
13. The polling fallback of the SSE stream; text deltas in `PageView`.
14. `run_command` and truncation in `ProcessSessions`; directory creation and in-place
    writes in `WorkspaceEdits`.

Abstract specifications: the lease manager (implemented by `ThreadRuntime`), and planned a
Turn's promise to its Thread (one start, one outcome, no effect afterwards) implemented by
`TurnExecution`, and an exactly-once log implemented by `EventStream`.

Theorems, in order: the lease manager's exclusion and capacity; the Runtime's types,
record agreement and lease refinement; the Turn's safety; the settings' versions; the Runtime's
durable history and its leases; the Host's mapping above it; the model clients and the catalog;
the processes; the edits; the histories, of which a selection is made of whole units
(`PairsWhole`); the answers of the model call; `SequencesGrow` of the event buffer; what a request asks of
its model; the task state; what a page shows (all done).

## 3. Modules and the code

Names follow the source.  An action is the code between two awaits of one coroutine (the
loop is cooperative); only `WorkspaceEdits` has steps of worker threads.  Refused requests
that change nothing are not steps.  Operators commented "Fault" are used by no action: each
is a plausible bug in the definition beside it, under which a property is shown to fail.

**WorkspaceLease** - `leases` is the dict of `WorkspaceLeaseManager`; `Acquire`, `Release` its
methods; `ProcessEnds` its loss with the process.  Path normalisation is a constant:
roots are model values, `Parents` their ancestors.

**ThreadRuntime** - a `Call` is one `run_turn` invocation and names its Turn.  `rec` is the
`_ThreadRecord`, `durable` the store's copy, `pc` where each call awaits (`validating` the root
check, `joined` a shared future, `running`, `cleanup` the provider release), `future` the
idempotency future, `cancel` the cancellation its task got.  `Invoke` is `run_turn` up to its
first await in the code's order of checks; `Preflight` resumes it (rejections, `StartTurn`);
`TurnTerminates` is one outcome of the Agent loop with the terminal commit and its failures;
`RequestApproval`/`SettleApproval` the waiting status; `Stop`, `CloseIdle`, `CloseActive`, `Aclose`
the commands; `Crash`, `Restart`, `RestoreThread` a process death and `_restore_stored_threads`.
`AcloseFails` is a shutdown of which one save fails, so that the Turns of later Threads are never
cancelled, `RestoreFails` a recovery of which one does: the constructor raises, with an interrupted Turn
ended in the store or not.  `Commit`/`Apply` write the whole Thread or fail.  `Legacy` are finished Turns that an older
Runtime left marked active, which `_is_coherently_terminal` repairs.

**HostTurns** - `submission`, `failure`, `accepting` are `TurnTaskManager`'s fields, `task` the
asyncio task of a start request.  Every step of `run_turn` is taken by that task, and
`Bookkeeping` is `_run`'s except/finally in the same step.  `CancelPending` and `CancelActive` are
the two branches of `cancel`, `CloseQuiet`/`ClosePending`/`CloseRunning` the close endpoint,
`ShutdownBegins`/`ShutdownEnds` the manager's shutdown and the closing of the Runtime.

**TurnExecution** - `pc` is where the Turn's task is (`loop`, `assembling`, `streaming`, then the
steps of one call), `wait` where it is inside `RunController.wait` (waiting, sweeping timers,
unwinding after a cancellation, late), `failures` the fingerprint of the last failure and its count (a failure
with the same error may be the same call again or another one), `op` the operation task with whether a cancelled
synchronous tool has settled, `interrupt` a `CancelledError` on its way, `cancels` a ghost count.
`expired`, `paused`, `patience` are the deadline, its pause and the approval timeout.  `results`
are the tool messages after the last response.  `Lost` is the failed commit of each event.

**EventStream** - `log`, `sequence`, `watermark` are the `EventBuffer`; `durable`, `stored` the
store; `conn` the generator of `_stream_realtime` with its subscription and read task; `frames`
the TCP stream; `link`, `cursor`, `mounted`, `shown`, `seen` the page.  `EventsNext` is the
next-state relation, `EventsSpec` the specification without fairness.  `Emit` appends with or
without its commit, `NextBatch`/`SendEvent`/`RecoverInStream` are the generator's awaits,
`Open`/`Receive`/`RecoverAnswers`/`Recovered` the client, `Resubscribe` the effect that replaces it.

**WorkspaceEdits** - a file is the set of changes it holds, so lost updates are visible.
`known`, `original`, `final` are the `ChangeTracker`'s maps.  `BeginCall` is `before_execution`,
`PrepareOp`, `CommitOp`, `CommitFails`, `RestoreOp`, `RestoreFails`, `RollbackEnds` the worker thread,
`RecordCall`/`LoseCall` `after_execution` and `execution_interrupted`, `Save` an editor.

**ProcessSessions** - `session` holds per id the process, its output counters and the tasks of
`ProcessSession`; `active` and `exited` the manager's registries; `call` the tool call in
progress; `turn` the Turn and its cancellations.  `Observes`/`Drained` are the watcher,
`ReaderReads` the readers, `TimerFires` the timeouts, `Retire`/`Returns`/`FinalPoll` the three ways
output is delivered, `CancelStep` and `CloseStep` the cancellation paths.

**ModelCatalog, ModelClients** - `credential` is the provider document, `status`, `owner`,
`cache`, `inflight` the catalog's dicts, `task` its refresh tasks; `pool`, `client`, `adapter`
the client pool and the lease of each Turn.  `SaveProvider`, `ClearProvider`, `DiscoverModels` are
the endpoints, `TaskStep` the refresh, `Resolve`/`Release` a Turn, `Shutdown`, `PoolClosed`,
`CatalogCloses`, `CatalogClosed` the end of the Host.

**History, ContextReduction** - a message is its role, its size and its calls, a call the position
that made it and its rank.  `history` is the `Conversation` after the system message, `checkpoint`
the record's `CompactionCheckpoint` with the prefix its fingerprint stands for, `saved` the store.
`Units`, `Prunable`, `RawTail`, `Promoted`, `Source`, `Rolled`, `ValidFor` are the functions of
`runtime/history` and `context_reduction.py`; `SendWhole`, `SendPruned`, `SendTail`, `StartCompaction`
and their failures the exits of `assemble_with_reduction` in their order, `CompactionEnds` and
`CompactionFails` the provider's answer up to `_save_checkpoint`; `request` is what the model is
shown.  Every commit may fail, which ends the Turn.  `known` is a ghost: what a summary tells.
Every compaction is semantic, as in a Turn, which always passes a compactor.  A Thread whose
recovery fails to commit stays down and is not modelled.

**ModelStream** - one `ModelInvoker.stream` (or `chat`): `pc` is its await, `attempt` the loop's
counter, `indexes` the adapter's `call_indexes` and `next_index`, `assembler` the
`MessageAssembler`, `emitted` what `on_event` was given, `sent` what the provider sent in the
attempt.  A fragment stands for its content by its position in `sent`, so a message can be
compared with what was sent.  `style` is how a provider names the call of a part: by an index,
or not, with its id in the first part at least.  `Arrives` is one chunk through adapter,
assembler and `on_event`, `Fail` the `except` branches with `should_retry`, `NotAStream` the
completion that a provider returns in place of a stream.

**TurnSettings** - `settings`, `durable` are the record's and the store's `ThreadSettings`, `view` what
each page displays, `patch` the PATCH it has sent, `turn` a Turn between its submission and its
end, `started` what committed `turn_started` events name.  `Accept` is `update_settings` with the
Host's normalisation (`Projected`, `Normalized`), `Start` the preflight after its await: `Applied` is
`TurnSettingsOverride.apply`, `Accepts` the validation in `ModelInvoker`, `ResolvedLimit` and
`ThinkingBody` the request.  `sure` marks a page that displays settings the store holds.

**TurnEvidence** - EXTENDS `TurnExecution` and adds the task state to its steps: `evidence`, `plan`
are `TaskState`'s fields, `EvidenceOf` is `evidence_from_tool_execution`, `RecordEvidence` the bounded
list, to which the facts of a call are added one at a time.  `Projected` is `projected_items`: an
item is the position of a fact (`FactProjected`) or of a step of the plan (`StepProjected`) under a
priority of it.  `Place` is the key they are sorted by, and `View` the greedy `Filled` in that order: a
line that does not fit into the room that is left is skipped, and a later, shorter one may be taken.
A line takes the room its fact was given (`size`).  `RecordResult` and
`AbortResult` are `TurnExecution`'s `Record` and the aborts with the facts they leave, `UpdatePlan` the
tool.  `told` and `lastRun` are ghosts: the plan of the last `update_plan` the model saw succeed,
and the last recorded run of the command.  Every step of it is one of `TurnExecution`'s, so the
run checks that module's properties as well.

**PageView** - `page` is `EventState`, `Applied` is `applyAgentEvent` with one operator per event type,
`ModelTellsError` and `ModelRaises` are a model call whose failure is told and one that ends its Turn, which
need not come together; `Hydrated` is `hydrateThread` with `initialThreadState`, `Reconciled` is `reconcileApprovalSnapshot`,
`action` the card's guard, `flight` the HTTP requests out, `link` and `cursor` the client's.  `log` and
`host` are a Thread's Turns as far as a page sees them.  An event is named by its position, and the
record the Host had at an event is a function of the events up to it (`Seen(n)`: `Messages`, `Rows`,
`ActiveTurn`), so that what a page shows is compared with the record at the newest event it was
told of.  A Snapshot is such a position, with the approval that was pending then.  The
stream is taken to deliver once and in order, which `EventStream` looks at (and where a new
subscription breaks it, section 4); HTTP answers come in any order.
`misled` marks a page that took a view older than itself or of another Turn (section 8).

## 4. Runs

Passing runs check safety and liveness on the instances below; each property is listed with
a fault of the code that breaks it in `PROJECT.json`.

| Run | Instance | What it shows |
|---|---|---|
| `runtime_recovery` | 1 Thread, a leftover marker, a keyed Turn and its retry, 1 approval, 2 crashes, 2 failed commits | over every order of Stop, Close, cancellation, `aclose`, crash, recovery and failed commit, of each of them: the record agrees with its calls (`RecordsAgree`), a key starts one Turn (`OneTurnPerKey`), what was returned is stored (`ReturnedIsDurable`), a started Turn is neither forgotten nor ended twice (`NoTurnForgotten`), and every suspended call and every close settles (`CallsSettle`) |
| `host_turns` | 2 Threads on nested roots, 3 start requests (a key, the same key with another text, none), 1 approval | the tasks and the Runtime below them: `SubmissionCovers`, `RunningDisjoint`, `LeaseReleased`, `LeasesImplemented`, `ShutdownCompletes` |
| `turn_execution` | 2 iterations, 3 tool calls, batches of 2, 1 cancellation by the Host beside Stop, 1 lost event, 3 facts, 2 plans, a view with room for 2, failures that take 1 or 3 | `CallsAnswered`, `StopNeverCompletes`, `StopLaunchesNothing`, `SettledRecorded`, `QuietAtEnd`, `AnswerDecides`, `TurnEnds`, and of the task state `TaskStateTold` |
| `model_stream` | 5 attempts, 5 fragments of text, reasoning and 2 calls, 2 styles | what is shown is of one attempt, each fragment once, and a failure is told once (`ShownOnce`); a response is what the provider sent (`AnswerExact`) |
| `turn_settings` | 2 pages, 6 models of every thinking style, 3 saves, 2 Turns with overrides, 1 lost commit, 1 restart | `SavedAreAccepted`, `VersionNamesSettings`, `RequestFitsModel`, `StaleRefused` |
| `page_view` | 2 Turns with 2 calls, 1 fault (a lost connection, a lost answer or a told failure of a model call), 2 requests in flight | at every event, `PageAgrees`; with everything delivered, `RestIsSnapshot` |
| `event_stream` | buffer and reservation of 2, 3 events, 1 each of lost commit, crash, host failure, broken connection, new subscription; 1 frame in flight | `SequencesGrow`, `CatchesUp` |
| `edits` | 2 Turns on nested roots, 2 calls each out of 6 (a read, a write, an edit through a symlink, 3 patches of 2 operations), 1 save, 2 faults | `AllOrNothing`, `ChangesExact`, `SavesKept` |
| `processes` | 2 sessions of 1 chunk, 2 Turns, 2 cancellations of each, 2 active, 1 retained | `CollectedOnce`, `NoOrphan`, `SurvivesOtherTurns`, `EveryProcessEnds` |
| `model_access` | 1 provider, 2 keys, 3 Turns, pool of 1, 3 refreshes, 3 changes, 1 request, 1 fault | `VerifiedIsCurrent`; a leased client stays open and the shutdown leaves none (`ClientsAccounted`) |
| `context_reduction` | a budget of 15 tokens, 7 messages of 1, 5 or 10, up to 2 calls per response, 1 crash, any commit may fail | `PairsWhole`, `FreshShown`, `SummariesKept` |

`CHECK_DEADLOCK FALSE` in all of them: a Turn ends, calls and bounds are used up, a Host shuts
down, and the models stop there.

One counterexample run, of a sentence the repository says of itself:

| Run | Property | What the trace shows |
|---|---|---|
| `event_repeated` | `NothingRepeated` | A recovery hydrates the page, then a submission ends and the effect mounts a new client at the first cursor (App.tsx:1728); events the Snapshot held are shown twice. |

`OneTurnPerKey` and the clause of `NoTurnForgotten` about two outcomes speak of runs without failed
commits, and `LeaseReleased` is checked where none fails, because they do not survive one
(section 8).

## 5. Bounds

* Two Threads and one root inside the other are the smallest instance in which the three
  clauses of `_overlaps` and the capacity differ; every property of calls is about at most
  two calls of a key and one call beside them.
* In `runtime_recovery` a second crash finds a Thread in the middle of its recovery, or a Turn
  that was started after one; recovery reads only the store.  Two failed commits reach "the handler of a failed commit fails to commit too", the deepest nesting.
* Two iterations, two calls per batch and a limit of three calls reach every limit before,
  at and after its last call; `RepeatLimit = 2` is the least that counts.  A third cancellation
  finds the same code as the second.
* A buffer of two and three events evict the page's cursor; a reservation of two puts a
  crash inside a reserved block and at its end; one frame in flight is the least that
  leaves the server ahead of the page.
* Two iterations of `turn_execution` give two batches, so a command runs, fails and runs again
  before or after facts of another call; three facts are kept of more, and a room of two is less than
  the lines of them and of the plan take: each limit is met.  A failure of size three never fits, so a
  shorter line behind it is taken.  The code's limits are 100 facts and a budget of characters and tokens.
* `model_stream` has all five attempts of the code.  Five fragments are the least in which two
  calls begin, interleave and go on beside text.
* In `page_view` two Turns are the least with "the Turn before", two calls the least with a second
  approval while the answer to the first is out, two requests the least that overtake.  One
  loss reaches a recovery over every prefix of both Turns.  A loss and a told failure together are not in
  the run; the theorems of `PageViewProofs` have any number of both.
* `turn_settings` has one model for each kind of the presets, and bodies that are accepted,
  normalised, and refused; three saves are the least with a stale one between two good ones.
* Two operations per patch are the least with something to roll back, two faults make the
  rollback fail as well, and two calls per Turn let the second meet the record of the first.
* Two sessions and `Retention = 1` reach eviction of a completed session; two Turns reach "a
  session of another Turn"; two cancellations reach `close()` twice.  With one chunk the
  order of chunks inside one session is not at stake, only that none is delivered twice.
* Three Turns on a pool of one client reach reuse, replacement and refusal; three changes
  reach "saved, cleared, saved again" while the first refresh is still out.

* The sizes of `context_reduction` lie on both sides of every limit: a result above and below the
  prune threshold, a message above the tail's target, two that do not fit the compaction request
  together.  Seven messages are enough for a promotion, a bounded compaction, a second one over the
  first, a tail that overflows and an input that is appended to it; each was seen to happen.

## 6. Fairness

Liveness is claimed only under what the scheduling gives: the event loop runs every task
that is ready and fires every armed timer.  No request, Stop, close, approval or crash is
ever forced.

* `ThreadRuntime!FairSpec`: a suspended call resumes (`Settles`) - root checks, the Agent loop and
  approvals end by their own timeouts, which `TurnExecution` shows for the Turn - and a
  starting process goes on restoring.  A dead process need not start again, and does not
  settle anything: `CallsSettle` says that again and again each call is not suspended, and
  that again and again a Thread is not closing, is closed, or has no process.
* `HostTurns!HostFairSpec`: tasks run their first step and resume; the shutdown resumes after its
  gather.  The Host is given one life.
* `TurnEvidence!EFairSpec`, that of `TurnExecution!FairSpec`: the Turn's own steps, and the timers.  A model call and an asynchronous
  tool may hang for ever; the worker of a synchronous tool is taken to return, as the code
  does (`shield` and wait), and a cancelled coroutine to unwind.
* `EventStream!FairSpec`: the generator and the browser run what is ready; a Host that crashed is
  started again - the page cannot catch up with a Host that is gone.
* `ModelStream`, `TurnSettings` and `PageView` claim no liveness: a model call ends by the Turn's
  deadline (`TurnExecution`), and what a page waits for is `EventStream`'s.
* `ProcessSessions!FairSpec`: the spawn returns and armed timers fire; nothing else is needed for
  a process to end, not even that anybody polls, cancels or closes.

## 7. Proofs

TLAPS proves 53 theorems, in eight modules, for every value of the constants under the
modules' ASSUMEs: finitely many calls whose arguments have their types, at most one leftover
marker per Thread (`CallAssumption`), a capacity in 1..32, which the constructor enforces, and
ancestors that are roots (`LeaseConfiguration`, `CapacityAssumption`, ...), bounds that are
natural numbers (`BoundsAssumption`), positive Turn limits (`TurnBounds`) and limits of the task
state (`EvidenceBounds`) with plans of known steps (`PayloadAssumption`), profiles that
`ThinkingCapabilities` does not refuse to describe (`SettingsAssumption`) and overrides that can be
written down, with a switch of the adapter for a model that can be switched off, as all profiles of
the presets have it (`ProfileAssumption`), sizes that are numbers and percentages that are some
(`HistoryBounds`, `ReductionBounds`), at least one attempt of a model call (`StreamAssumption`), a positive
reservation of sequences (`StreamBounds`), a positive pool and finitely
many Turns (`ClientAssumption`), a positive number of active sessions (`SessionLimits`), and of
file tools that a call has an operation, a read is a call of its own (`EditAssumption`), a path is below its
root once resolved, so that roots of which none is inside the other share no file
(`ResolveAssumption`), and contents are told from "no file" and "unknown" (`ContentAssumption`).  No assumption says
that ancestors are transitive or antisymmetric: exclusion needs only that both directions
are looked at.

`WorkspaceProofs`, the leases and the files they protect:
* `TypeCorrect`, `MutualExclusion` and `Bounded` of the lease manager.  `NoOverlap` is inductive by
  itself; `Bounded` counts an added element.
* `EditsConsistent`: the invariant `EditInv` of the file tools, any number of Turns, patches of any length.
  `LeaseInv` says that a Turn at work holds the lease of its root, so two of them share no file
  (`AreasDisjoint`) and a step of one disturbs nothing of another (`OthersOk`).  `ToolOk` ties a call to its
  place; `DiskOk` says that a file no committed path names is as the call found it, and that what was read of
  it is what a rollback needs.  `TrackOk` relates the tracker to the disk: an original is the content at
  the begin of the Turn, a final the content before the call, none means unchanged.  `SeenOk` says that what
  a Turn knows of a file, and while it writes the file what is on disk, has no save it has yet to see;
  `GenuineOk` that a save is only in contents of its own file, so a new one is in nothing known.
* From it `EditsAtomic` is `AllOrNothing`, `ReportsExact` is `ChangesExact`, `SavesNotLost` is `SavesKept`.
  `LeasesUsed` shows that the Turns here use the lease manager as it is specified.

`ThreadRuntimeProofs`:
* `TypeCorrect`, action by action, with a lemma for each record-valued helper (`Ended`,
  `Recovered`, `Loaded`, `Commit`, ...), of which every step is built.
* `OneTurnPerThread` is `[]RecordsAgree`.  It is not inductive: recovery loads what the store
  holds, so the invariant `AgreeInv` adds that the stored Threads agree with themselves
  (`StoredAgrees`) and that a process which is down or starting runs nothing (`QuietUntilUp`).
  Each group of actions moves one Thread and its calls (`OneThreadAgrees`), one call
  (`OneCallAgrees`), or none (`NoCallAgrees`), and the proofs are by that shape.
* `LeasesRefined` is `LeasesImplemented`, the refinement of the lease manager.  `LeaseInv` adds
  that a running Turn holds the lease of its own root and a call that has not started none:
  without it a release could name another root than the one acquired.
* `TurnsDisjoint` is `[]RunningDisjoint`: the lease manager's theorem, carried over by `LeaseInv`.
  `LeaseHeld` is that invariant.

There too, what the store and the leases are owed:
* `ResultsDurable`, `TurnsAccounted`, `KeysOnce` are `ReturnedIsDurable`, `NoTurnForgotten`, `OneTurnPerKey`.
  `HistoryInv` says that in the store, and in every restored record, each started Turn is the
  active one or has its outcome, that a record has every outcome the store has (`Keeps`), and that
  what a call returned, a future holds or a key answers is a summary in the store (`Committed`).
  After a failed commit a record may have more than the store, and no less.
* `FaultlessInv` is what holds besides while `storeFailures = 0`: the record is what the store has, no
  Turn has two outcomes, each started key names its Turn, and a call that still validates has left
  no trace and finds its key free.  The clauses of the properties that name `storeFailures = 0` rest on it.
* `LeasesReleased` is `storeFailures = 0 => LeaseReleased`; with a failed commit `LeaseReleased` is
  false (section 8), and the run that checks it admits none.

The last part takes these to the Host.  `HostSteps` shows that what a task or an endpoint does is
a step of the Runtime or leaves it alone, but for the requests that also write a Thread
(`RequestStep`, done by their shape), so `HostLeasesRefined`, `HostTurnsDisjoint` and
`HostLeasesReleased` follow from the Runtime's lemmas.  `CallsCovered` is `SubmissionCovers`; `HostInv`
adds that only a started task is suspended in its call, and that the mapping names a task that
has yet to run.

`TurnExecutionProofs`: one inductive invariant, `TurnInv`, for all of a Turn's safety.  Its parts
are why the properties hold: `PlaceInv` ties the batch to the place in it; `OpInv` says the
operation is the one the Turn waits for and that a wait which ends normally has its result;
`ResultsInv` that the messages are those of the calls before the current one; `StopInv` that a
Stop the Turn has not met is on its way to it as an interrupt; `CancelInv` that only a second
cancellation can leave an operation behind; `ApprovalInv` that a started call was allowed;
`SettledInv` that the last tool is an earlier call's or its result is the current one.  From it
follow `TurnTypeCorrect`, `EveryCallAnswered`, `StoppedNeverCompletes`, `SettledIsRecorded`, `EndsQuietly`
and, as properties of steps, `StoppedLaunchesNothing` and `AnswerIsFinal`.

`ModelAccessProofs`, the clients, the catalog and the settings a Turn comes to its model with:
* `VerifiedCurrent` is `VerifiedIsCurrent`.  `CatalogInv` says that a refresh nobody cancelled is the one in flight for its provider and key,
  and that the owner of a status, and the key of its last refresh if it is "ready", is the provider's
  current key unless its last change was reported as failed.  Without the first, a
  refresh that was forgotten could publish for the next key.
* `ClientsClosed` is `ClientsAccounted`.  `ClientInv` says that the pool holds the open clients, each
  once, that a client has at least as many leases as Turns that hold it, that what a Turn holds is
  in the pool, and that a Turn which has not resolved its model has made no client; so what eviction
  closes is nobody's.  Its lemma `RenewedPool`
  describes the pool after one client took the place of another.
* Of `TurnSettings`: the invariant `SettingsInv`, for every number of pages, table of capabilities and
  sequence of saves, lost commits and restarts.  `StoreBehind` says that memory equals the store
  or is newer; `Behind` of a displayed or started version that it is the store's or older than
  it, which is what survives a restart that goes back to the store (`SureBehind` for pages that
  display stored settings, `StartedBehind` for committed events); `SavedAreAccepted` rests on the
  lemma `NormalizedAccepted`, that what the Host makes of a body by the public projection is
  accepted by the capabilities themselves.  From it `SettingsAccepted`, `VersionsName` and, of steps,
  `StaleUpdatesRefused`.  `RequestsFit` is `RequestFitsModel`: `RunsAccepted` says that the Turn runs on an
  override of settings that can be written down, and that its model accepts the result; the
  adapters are then looked at style by style.  It holds of arbitrary capabilities only under
  `ProfileAssumption`.

`ProcessSessionsProofs`: one invariant, of which `SessionsConsistent` says that it always holds.  `SessionsInv`: the counters
of a session are ordered (final <= taken <= read <= written) and its watcher is as far as its
process allows.  `RegistryInv`: active, completed and closing sessions are in their stage.
`CallInv`: the session of the call is as far as the call is, and the one an `exec_command` reads
is of this Turn.  `OutputInv`: each of those that can still deliver output - the session, the call with
a batch in its hands, the final poll - goes on where the last delivery ended.  `TurnInv`:
a cancellation is on its way until the Turn unwinds, and a closed manager has only sessions of a
Turn that will.  `AliveInv`: a process that runs is active, being closed, in the call, or abandoned.
From it `OutputCollectedOnce`, `NoOrphanLeft`, `TypesCorrect` and, of steps, `OthersSurvive`.

The rest of `TurnExecutionProofs` is the task state.  `EvidenceRefinesTurn` shows that every step of
`TurnEvidence` is one of `TurnExecution`, so the theorems above are theorems of the specification the
run checks.  `TaskStateIsTold` is `TaskStateTold`.  Its invariant `EvidenceInv` adds `Remembered`: the last run of the
command is either forgotten, with every older one, or its fact is where the count of newer
facts says, nothing newer is of the command and no more of the newer are failures than were
counted (`RunKept`); `PlanInv`, that the plan is the one the model was told of unless the call the batch is
at has replaced it, and `Awaited`, that a Turn waits for no operation anywhere else.  That a failure
whose line fits with those of newer failures is shown rests on the order: the items with a place before its own
are failures newer than it (`FirstPlaces`), so whatever was filled until then leaves it its room.  `Filled`
is a function on places, and what holds of each place is proved by well-founded induction.

`ContextReductionProofs`, histories of any length: `ReductionInv` has three parts.  `HistoryInv` says that a
history is well formed, with every result after its call; `CheckpointInv`
that a checkpoint ends with a closed unit, knows what it covers and leaves the interaction at the
end alone (`Stands`), of the record's history and of the store's, so that a crash between the two loses
nothing; `PhaseInv` that a batch in progress has the results of its first calls and that a running
compaction is of the plan the history still gives.  From it `FreshAlwaysShown` (`FreshShown`) and, of steps,
`SummariesAlwaysKept` (`SummariesKept`).  `PairsAlwaysWhole` is `Strict => PairsWhole`, the hypothesis under which
the run checks it too: `StrictInv` adds that interactions do not overlap and that a request shows
every open call, which holds of a provider that answers no request with an open call left out
(section 8 has what happens with another).

`StreamsProofs`, the answer of a model call and the events of a Thread:
* `AttemptShownOnce` and `AnswersAreExact` are `ShownOnce` and `AnswerExact`, for any number of attempts, calls
  and fragments and both styles of naming.  `StreamInv`: `Assembled` says that the assembler has every fragment
  once and in its list (`Owned`: a part is a piece of the call it names, and a name is of one
  call; `InOrder`: calls are numbered as they began), `Indexed` that the adapter's next index is above
  all of them and its names are the assembler's, `Relayed` that what was shown is what was sent.
* `SequencesAlwaysGrow` is `SequencesGrow`, of `EventsSpec` and so of `FairSpec`.  `EventsInv` orders the counters
  (highest <= sequence <= watermark <= stored) and says that no stored event is above the highest:
  a restart resumes at what the store has reserved.

`PageViewProofs`: what one page shows, for any number of Turns, calls, losses and, if at least one, of requests
in flight (`PageBounds`).  `IInv`, which `PageInvariant` states, has four parts:
* `HostInv`: the events have a grammar.  Turns follow each other, a started Turn ends before the next
  begins, the events of a call come after the answer that made it, and at the end every call is
  settled (`Grammar`); and the Host is where its events say (`Open`, `Closed`, `Waits`).  `HostStep`
  is what a step of the Host does to the log, whichever step it is.
* `PageInv`: a page that is not misled shows the conversation, the current Turn and the rows of the record at
  `upto`, but for rows that are ahead (`RowsAgree`); while its Turn is under way it shows no end, only files that Turn has changed and an
  error only if a model call of it has failed (`ShownOfTurn`), and afterwards the end and the files of the summary and its
  error, or that of a model call (`ShownAtRest`).  It is kept by one lemma per
  event of the reducer (`Effect`, `Told`), which compare the record before and after one more event.
* `ViewOk` and `FlightOk`: a view on its way was the record at some event, its approval is the one still pending
  unless a newer was asked for, and an answered approval is pending no more.  From this a
  Snapshot keeps `PageInv`, and so does a reconciliation that fits the page's events.
* `CardInv`: the guard of a card belongs to a request that is still out, or to a settled card that is shown.

The hard step is the end of a Turn seen by events: no row may be ahead of the record any more, which needs that
the grammar settles every call, also the one whose card only a reconciliation has brought.  From
`IInv`, `PageAlwaysAgrees` is `PageAgrees` and `RestAlwaysSnapshot` is `RestIsSnapshot`.

`LeaseHeld`, `MutualExclusion`, `Bounded`, `LeasesUsed`, `EditsConsistent`, `TurnInvariant`,
`SessionsConsistent`, `ReductionInvariant`, `PageInvariant`, `EvidenceRefinesTurn`, `EvidenceInvariant` and the four theorems
about types name no property of a run; the others prove for all constants what a run checks on its
instance.

Model-checked only: liveness (`CallsSettle`, `ShutdownCompletes`, `TurnEnds`, `CatchesUp`, `EveryProcessEnds`; out of the
prover's reach with ENABLED).  Every safety invariant and action property of the passing
runs, and the refinement, is a theorem, two of them under the hypothesis their run checks them under (`LeaseReleased`,
`PairsWhole`).  No module declares recursion; the sum of sizes in `History` is a fold, of which the proofs use
no value: what is said of a selection holds whatever the sizes are.

## 8. Where code and docs differ, seen while modelling

The counterexample run is the finding of `PROJECT.json`.  The models hold the
following behaviour too; a property was stated to look at it and left out, or excludes it in
its statement.

Thread Runtime and Host
* A preflight that is rejected after its lease was taken (the Thread was closed during the root
  check, the context is invalid) and whose `turn_rejected` commit fails leaves the `except` branch
  before `release` (thread_runtime.py:897): the root stays busy until the process ends, against
  "released on every terminal path" (docs/react-agent-runtime-spec.md:299).  `LeaseReleased` is
  violated in `host_turns`'s instance with `MaxStoreFailures = 1`.
* A Turn has run, its last save fails, the exception frees its idempotency key (:988), and the
  retry starts a second Turn (docs/react-agent-runtime-spec.md:159); so `OneTurnPerKey`
  speaks of runs without one.
* A failed commit of `turn_completed` leads from `_finish_turn(COMPLETED)` into the catch-all
  branch and `_finish_turn(FAILED)` (thread_runtime.py:1169): two summaries, two terminal events,
  against "the terminal event itself as last" (docs/specs/kernel-freeze-lifecycle-hardening-spec.md:91).
  `NoTurnForgotten` asks for exactly one outcome only while no commit has failed.
* A Turn whose terminal commit failed leaves a half transition in memory (:999) and its
  Thread reads as busy to a retry (:731).  A Thread closed while a joined call waits is
  reported closed early (:1630).
* Stop or shutdown that cancels a task before its first step never enters `_run`, so its
  `finally` does not run, the mapping stays, and the Thread refuses every later start
  (turn_tasks.py:138), against docs/local-web-ui-host-spec.md:186, the Host "removes the mapping on
  every terminal path".
* The failure of a submission may be reported as that of an older rejection (turn_tasks.py:187,
  :219), and Close after an accepted Stop answers NO_ACTIVE_TURN (app.py:634).
* A shutdown may complete a Turn whose tool settled while it was being cancelled
  (turn_tasks.py:156).

One Turn
* A second cancellation while the first sweeps its timer lets a tool outlive its Turn
  (run_controller.py:158), and one while a tool settles drops its result (:159, :288);
  `QuietAtEnd` and `SettledRecorded` speak of at most one.
* A failed commit of `tool_requested` or `tool_finished` leaves calls without a result
  (tool_coordinator.py:99, :167, :421) against docs/react-agent-runtime-spec.md:287;
  `CallsAnswered` speaks, at the end of a Turn, of those whose events were committed.

The task state
* A call given up as CANCELLED or LIMIT_REACHED leaves a fact of a failure although it may
  never have started, against the comment that "skipped calls, and aborted batches [...] never count
  as actual Harness execution" (evidence.py:359).
* The projection fills its budget greedily (task_state.py:637): a failure with a long line, or behind
  those of newer failures, may be left out where a shorter and older success fits, against "Unresolved
  failures are always first" (task_state.py:554).  `TaskStateTold` asks for the failure where its line fits
  with those of newer failures.  The token budget is the tighter of the two limits for most lines; the
  model has one measure in the place of both, without the rounding of an estimate.  A run that is still "running"
  opens a resolved failure again, and a late poll of an older session counts as the newest run.
  A failure without a command is never resolved.

The model call
* A stream that ends without a finish_reason is accepted as complete (openai_compatible.py).  A
  completion in place of a stream is shown as an error and then returned; `ShownOnce` says so.
* A provider that mixes parts with and without an index, or whose later parts carry no id and no
  index for a call begun earlier, is outside `style`.

Settings
* The dialog's draft is taken when it opens (App.tsx:1516) but its save sends the version displayed
  then (App.tsx:2071): a save of another tab in between is overwritten without a conflict, against
  docs/react-agent-runtime-spec.md:293 "stale writes fail with SETTINGS_CONFLICT".  The model takes a
  page to edit what it displays.
* A save whose commit is lost stays in memory and is shown; after a crash its version is given to
  other settings, and a page that displayed it saves over them.  `StaleRefused` speaks of pages that
  are `sure`.
* "The two can never diverge" (thread_runtime.py:806) says of the output limit and its reserve;
  the reserve is capped at a quarter of the window (context_budget.py:222), the request is not.

Events
* A client that connects without a cursor keeps reading from none, so an eviction sends it
  one Snapshot after another (docs/local-web-ui-host-spec.md:249) or loses events silently;
  `Covered` excludes such a page once events have been evicted.
* A host failure is looked at only when a batch arrives (event_stream.py:222-238), and the next
  read is issued with the cursor of before its Snapshot (:220).
* A page may show an event whose commit was lost in a crash.

The page
* A completion that a provider returns in place of a stream is told as `model_error` and then taken
  (openai_compatible.py:158, model_invoker.py:222).  The page keeps that error to the end of a Turn that completes
  (events.ts:382, :572), a Snapshot of it has none: what a page shows depends on whether it was reloaded.
  `RestIsSnapshot` asks that no error of a Turn is missing, and allows the page this one.
* `reconcileApprovalSnapshot` applies a view whatever its cursor is: a late answer clears a newer
  card, which the step before it takes care not to do ("A newer approval is never cleared",
  App.tsx:2172), and a view of a Turn that has
  ended in the meantime empties `current_turn_id`, so the events of its end, the answer among
  them, are dropped until the next Snapshot.  `PageAgrees` and `RestIsSnapshot` exclude a page so
  `misled`; the card that stays may stay locked.
* Views of several requests are taken in the order of their answers (App.tsx:1142, :1216, :1226).
* A page recovered in the preflight of a Turn that is then rejected lacks the files of the Turn
  before; `RestIsSnapshot` leaves files out after a rejection.

Edits
* A save between the worker's write and `after_execution`'s look at the disk is taken for that
  write and overwritten later (change_tracker.py:121, docs/react-agent-runtime-spec.md:129).
  `SavesKept` speaks of saves between calls.  A file is not `known` when it is first prepared for writing (docs/react-agent-runtime-spec.md:305).
* Two operations of a patch on aliases of one file pass the parser's check for duplicates
  (docs/windows-wsl-and-coding-harness-upgrade-spec.md:151).
* A failed `file_changed` commit leaves the later files of a patch unrecorded with
  `diff_complete` true (change_tracker.py:118).  An in-place write of a hard-linked file that
  fails twice leaves it truncated (filesystem.py:463).

Processes
* A cancellation while the PTY is attached (process.py:265) leaves a process without session or
  timer; one between SIGTERM and SIGKILL leaves it to its timeout.  Both are in `abandoned`;
  `--die-with-parent` of the sandbox ends them with the Host.
* A write to a completed session discards its uncollected result (:1390), and a read may retire
  a session 0.05 s after its exit where the readers may need 0.25 s.  Output is delivered at
  most once, never at least once.

Context and history
* A checkpoint covers up to the largest end of what it summarises (compaction.py:717); with the
  newest interaction kept raw between them, messages before and after it are summarised and the
  interaction itself is, from the next request on, neither shown nor summarised, against
  docs/context-architecture.md:97.
* A call whose result was lost to a failed commit stays open until a restart, since nothing else
  closes it.  A provider that answers such a request all the same (`Strict = FALSE`) can make a
  next call, whose result a recovery appends after the first one's, outside its unit: `PairsWhole`
  fails, against units.py "instead of allowing selection to expose an orphan".
* The promotion may move the newest tool interaction when the largest unit lies after it, against
  "the newest tool interaction and open units remain raw" (context_reduction.py:23).  Such an
  interaction has been consumed, so `FreshShown` holds.
* A compaction whose final request overflows loses its checkpoint and is repeated in the next
  Turn; one that had to bound its source leaves the omitted middle out of that request.  An input
  that was compacted is appended to the same request again.
* `_default_estimate` imports `.context_budget` from the wrong package (history/units.py) and always
  falls back; Turns inject an estimator.

Model access
* A save that is reported as failed has changed the key in memory, and the next write that
  succeeds stores it (provider_config.py:72); a failed `chmod` reports failure of a file that has
  changed (:173).  `VerifiedIsCurrent` excludes providers whose last change was so reported.
* `schedule_refresh` in the round between a refresh's end and its callback sets "loading" and
  returns the finished task; the status stays so until something else asks (model_catalog.py:273).
* With Python 3.11 a refresh cancelled by `invalidate` may still publish for the cleared key;
  the endpoint shows such a provider as unconfigured.  Callers that wait for a refresh get its
  cancellation.  `aclose` does not await refreshes `invalidate` has forgotten.
* The lost commit of `turn_rejected` (above) leaks the lease of the model client as well:
  it can then never be evicted.

## 9. Not modelled

* Liveness of the shutdown depends on every Turn unwinding; its 10 s deadline is left out.
  `HostTurns` has no crash: `ThreadRuntime` has.
* The SQLite schema, serialisation, request parsing, HTTP errors and security headers,
  rendering: data and I/O.  A commit is one step because SQLite's transaction is.
* Prompts, skills, instructions, the runtime environment and the workspace browser: files read
  at the start of a Turn.  The CLI starts the server.
* Result bounds, token estimation, the sections of a context, policy, the polling fallback, text
  deltas, `run_command`: planned (section 2).
* In `ModelStream` usage, activity phases and the encoding of requests; in `TurnEvidence` the text of
  facts and artifacts; in `PageView` activity, skills and rendering; in
  `TurnSettings` limits, approval mode and temperature, which are taken over like the fields that
  are kept, and the lookup of credentials.
* In `ProcessSessions` the tombstones of dead sessions, truncation and the bubblewrap command
  line; in `WorkspaceEdits` parsing, hunk matching, hard links and directories; in
  `ModelCatalog` the selected models and the default provider.
