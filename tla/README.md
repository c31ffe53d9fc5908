# A verification development for AITrans

AITrans is a reading and research assistant: a React/Tauri desktop front end, a FastAPI
backend that runs agents over the user's documents, and a number of SQLite stores in
which notes, knowledge items, conversations, writing projects, memories and the state
of agent runs survive restarts. This directory holds TLA+ models of the parts where
several threads, windows, retries and crashes meet durable state, the TLC
configurations that check them, and TLAPS proofs of the most important properties.

Paths below are relative to `src/`. `PROJECT.json` maps every definition to the lines
it stands for.

## 1. The system

| Component | State | Operations | What makes it hard |
|---|---|---|---|
| **Task checkpoint store** (`SQLiteTaskCheckpointStore` in `backend/agent_core/orchestration/parallel_executor.py`) | one lease row per run, one checkpoint row per task | `acquire_lease`, `heartbeat`, `release_lease`, `begin_task`, `complete_task`, `load`, `prepare_retry` | shared by every window and every process life; the row updates are not fenced |
| **Task graph executor** (`ParallelTaskGraphExecutor`, same file, with `SharedRunBudget`, `_GLOBAL_EXPERT_SLOTS`, `_GLOBAL_GPU_SLOTS`, `AgentRunControl`) | `by_id`, the ready frontier, the pool's futures, the budget | `execute`, `_execute_one`, `prepare_retry`, `discard_late` | a thread pool, cancel, timeouts, late results, resume after a crash |
| **Artifact store** (`artifact_store.py`) | versions, revocations, the memory outbox | `put`, `get`, `revoke`, `pending_memory_refs`, `mark_memory_delivered` | deterministic ids, so a re-run addresses the version of the attempt before it |
| **Knowledge curator commit** (`backend/services/curator_commit_service.py`, `research_note_service.py`) | operation receipts and steps, notes, knowledge items, relation suggestions | `apply`, `get_receipt` | two databases, partial failure, idempotent retry, concurrent user edits |
| Memory (`backend/memory/`, `coordinator_memory.py`) | items, versions, operations, frozen run snapshots | `remember`, `update`, `forget`, `load_snapshot`, `submit_candidates` | frozen snapshots against revocation; at-least-once delivery |
| Planner, validation, router, scope resolver, reducer, task state (`backend/agent_core/orchestration/`) | none | pure functions | merge order, limits |
| Specialist graphs (`backend/agent_graph/*_graph.py`) | none of their own | linear LangGraph pipelines | only through the executor |
| **Agent runtime and root graph** (`backend/agent_graph/reading_agent_graph.py`, `backend/agent_core/runtime.py`, `product_adapter.py`, `backend/services/agent_conversation_service.py`, `multi_agent_runtime_bridge.py`) | LangGraph checkpoints, the exchange of a run, the lease of its conversation | start, resume, task retry, the graph's nodes, abort | restarts between an effect and its checkpoint, confirmation of writes, overlapping executions |
| **Agent API** (`backend/api/agent.py`, `agent_trace_store_service.py`) | request states, event logs | run, resume, retry, snapshots | a surface may ask again at any time |
| **Companion chat and conversations** (`backend/api/companion_stream.py`, `backend/api/conversations.py`, `conversation_store_service.py`, `conversation_lifecycle_service.py`, `companion_ownership_service.py`; in `apps/desktop/src`: `useCompanionConversationRuntime.ts`, `companion-stream.ts`) | conversations and messages in SQLite, leases in memory, per window the open conversation, the view and the active request | send, cancel, open, reset, delete, rename, rewrite, background refresh | two windows, a websocket each way, a producer thread, lost connections, restarts |
| **Writing projects** (`backend/services/writing_project_service.py`, `backend/api/writing.py`; in `apps/desktop/src`: `WritingDraftPanel.tsx`) | outline, section versions, operation receipts; per window a preview and its operation id | `save_outline`, `save_section`, `prepare_revision`, `apply_revision` | optimistic versions, idempotent operations, an artifact store that commits first |
| **Document index** (`backend/rag/index_service.py`, `index_manifest.py`, `stores/qdrant.py`, `sparse/store.py`, `backend/services/knowledge_library_service.py`, `backend/api/knowledge.py`) | the manifest, the vector store, the BM25 index | import, reindex, delete, recovery | three stores written one after the other, in a thread pool, without a common lock |
| Relation suggestions | suggestions, relations, items | `generate`, `accept`, `reject` | late acceptance of a stale suggestion |
| RAG retrieval, chunking, models (`backend/rag/`) | loaded models | retrieval, ranking | numeric |
| Translation (`app/translation/`) | request version, caches | `translate`, cancel by version | a late answer overtaking a newer request |
| Selection capture, research stores, UI, Tauri shell, extension, evaluation, scripts | – | – | input hooks, single-transaction stores, presentation, offline tools |

**How they interact.** The root graph plans a run (planner, validation), freezes a
memory snapshot for it and calls `execute`. The executor takes the run's lease, loads
what earlier calls left on disk, and starts specialists in a pool; each specialist reads
evidence, writes one artifact and returns a result, which the executor merges and
persists. A cancel sets an event that is seen at the executor's checkpoints; workers that
cannot be stopped run on, and a done callback revokes what they produce. The user may
retry a failed task from the UI, which rewrites checkpoint rows before the next
`execute`. Drafts of a knowledge artifact that the user approves go through
`CuratorCommitService.apply`, target by target, into two databases. A request of the user
reaches the graph through the Agent API, which begins an exchange in a conversation under
that conversation's lease, or through the companion's websocket, which does the same
without a graph; both settle the exchange in the same store. Windows tell each other what
changed and read the rest again. What a specialist or the chat retrieves was put into the
document index by the knowledge library.

**What makes each part correct** is listed with the properties in sections 3 and 4;
everything in the code that a test would hardly reach is listed, at its line, under
`hazards` in `PROJECT.json`.

## 2. The modules

| Module | Models | Composition |
|---|---|---|
| `TaskCheckpointStore` | the durable store of one run | actions are formulas that the executor conjoins into its steps |
| `TaskGraphExecutor` | every call of `execute` for one run, its pool, and the environment | EXTENDS the store |
| `RunOwnership` | what the two promise together | abstract; instantiated by the executor with a refinement mapping |
| `MCTaskGraphExecutor` | plans and symmetry for TLC | EXTENDS the executor |
| `TaskGraphExecutorProofs` | theorems and proofs | EXTENDS the executor and TLAPS |
| `CuratorCommit` | all calls of `apply` for one `operation_id` | stands alone |
| `MemoryRepository` | memory items, receipts and run snapshots | operations are formulas that `ArtifactMemory` conjoins into its steps |
| `ArtifactMemory` | runs between the artifact store with its outbox and the memory, and the user's requests | EXTENDS the repository |
| `MCArtifactMemory` | one artifact version, two runs, for TLC | EXTENDS `ArtifactMemory` |
| `ArtifactMemoryProofs` | theorems and proofs | EXTENDS `ArtifactMemory` and TLAPS |
| `MCCuratorCommit` | batches and selections for TLC | EXTENDS `CuratorCommit` |
| `CuratorCommitProofs` | theorems and proofs | EXTENDS `CuratorCommit` and TLAPS |
| `ConversationStore` | conversations, messages and leases | operations are formulas that the next two conjoin into their steps |
| `ConversationStoreProofs` | lemmas about the store's operations and the library's sequences | EXTENDS `ConversationStore` and TLAPS |
| `CompanionChat` | two windows, their websockets, the handler and producer of each request | EXTENDS `ConversationStore` |
| `AgentRun` | the executions of one run of the root graph, its checkpoint and its exchange | EXTENDS `ConversationStore` |
| `MCCompanionChat`, `MCAgentRun` | the two for TLC | EXTEND them |
| `CompanionChatProofs`, `AgentRunProofs` | theorems and proofs | EXTEND them and `ConversationStoreProofs` |
| `DocumentIndex` | one document in manifest, vector store and BM25 index | stands alone |
| `MCDocumentIndex` | the same for TLC | EXTENDS it |
| `DocumentIndexProofs` | theorems and proofs | EXTENDS it and TLAPS |
| `WritingProjects` | the panels of several windows, the service and the manuscripts in the artifact store | stands alone |
| `ManuscriptHistory` | what the writing projects promise an author | abstract; instantiated by `WritingProjects` with a refinement mapping |
| `MCWritingProjects` | symmetry for TLC | EXTENDS `WritingProjects` |
| `WritingProjectsProofs` | theorems and proofs | EXTENDS `WritingProjects` and TLAPS |

### TaskCheckpointStore and TaskGraphExecutor

`lease`, `row` and `now` are the two tables and the clock. A row abstracts to its status,
its `attempt_ordinal` and the attempt whose result `result_json` holds; results
themselves are statuses. A plan is acyclic (`PlanAssumption`): `ValidatedTaskPlan` refuses
any other. `acquire_lease` succeeds unless another owner holds an
unexpired lease; `heartbeat` compares only the owner; `begin_task` and `complete_task`
compare neither owner nor attempt: these omissions are the code's.

An *owner* is one call of `execute`. `phase` is its program counter:
`idle -> loading -> loop -> dispatch -> collect -> loop ... -> done`, with the exits
`rejected` (lease taken), `draining`/`cancelled` (cancel or total time over, with or
without late futures), `failed` (lease lost, foreign result), `stuck` (the "no executable
frontier" error) and `crashed`. One action is one stretch of code between two points at
which other threads can be observed: taking the lease, loading, the head of the
`while` loop (checkpoint, heartbeat, frontier), the dispatch of one ready task, `wait`,
the checkpoints before a result (`PassCheckpoint`) and its `complete_task` and merge (`Merge`).
A cancel may come between the last two: the result is stored all the same, and `storedLate`
remembers that it was. `future` is the state of each task in the pool: queued,
waiting for an expert slot, holding it and waiting for the GPU slot, running, and then
its outcome. `by_id` is the variable `byId`; the frontier is recomputed from it exactly
as the code does; ready tasks are dispatched in the order of their ids until
`max_parallel_experts` futures exist.

A worker may succeed, be partial, fail, be blocked by a resource, raise, or return
another task's result; with or without an artifact in the store. A re-run addresses the
same artifact version, and `put` returns it even when it is revoked.

`Retry` is the retry endpoint (`prepare_retry`), `Cancel` the user or the total
timeout, `Crash` the end of the backend process (all owners live in it, the databases
survive), `Tick` the clock.

**Stalls.** `MayStall = FALSE` lets the clock wait for the heartbeat that each loop
iteration sends: `wait` returns after at most 0.05 s and the lease lasts 90 s, so only a
suspended or starved process outlives its lease. `MayStall = TRUE` drops that. The safety
properties marked so in the module hold without stalls; `scheduler_liveness` has them, and
shows that every call ends all the same. No property says what a stalled scheduler does to
the rows of its successor: it overwrites them.

### RunOwnership

One variable says who holds the run, one which tasks are settled. A holder is granted
when there is none; a task is settled by the holder after everything it depends on;
settled work is reopened only while nobody holds the run and only together with all that
rests on it. `ImplementsOwnership` is this specification with `holder` mapped to the
active scheduler and `settled` to the tasks whose row is a success.

### CuratorCommit

`receipt` and `step` are the operation's tables in the knowledge database, `note` the note
database, `object` the knowledge items and relation suggestions. Contents are abstracted
to what the code distinguishes: absent, the content the draft was prepared from, the
draft's, or a later user edit. `apply` is cut where a transaction begins or ends and
between a read and the decision that rests on it: reading the receipt, reading the steps
and deciding, writing the opening receipt, then per target validating, saving the note
(its own database), saving object and step in one transaction, and rewriting the receipt.
The targets are visited in the order notes, items, relations. Crashes end every running
call; user edits may come anywhere.

### MemoryRepository and ArtifactMemory

`item`, `receipt` and `snapshot` are tables of the memory database, `stored`, `revoked` and
`outbox` those of the artifact database. Texts are left out; a payload is what its hash
covers as far as the code can tell two requests apart: the item and version addressed, the
status, the workspace and a token for the rest. `Save` is the one transaction behind every
change of a memory: an operation that is known is replayed or refused, a stale version is
refused, anything else writes item, version and receipt together. Every scope has a
workspace of its own.

A run goes `idle -> checking -> working -> submitting <-> saving -> idle`. `Load` freezes the
snapshot or finds it; `CheckItem` is one read of an item's current row; an invalidated
packet ends the run. `Put` stores an artifact version and its outbox row together, `Revoke`
is the executor's treatment of late results (`TaskGraphExecutor`), `Abandon` an `execute`
that raises. `SubmitStart` reads the outbox, then each ref is read (`Get`, or `Skip` for one
of another scope), each claim saved and the row marked, with everything else between these
steps. `update` is cut between its read and its save; `remember` and `forget` have nothing
of the model between theirs. A run may be loaded again at any time it is idle, which covers
both the second `resolve_memory` of one request and a resume.

`shown`, `forgotten` and `owed` are history variables: no action reads them.

### ConversationStore and CompanionChat

`row` holds the assistant message of each request (its conversation, position, status and
text), `recent` the conversations from the one touched last, `lease` the in-memory registry
of `companion_ownership_service.py`. Every operation is one transaction: `BeginExchange`
(which creates the conversation when the one asked for is gone, and trims the oldest; title
and context mode are transactions after it, and belong to the modules that call it),
`UpdateStream`, `FinalizeMessage`, `DeleteConversation`, `Rewind`, and `Initialize`, which
settles what a stopped process left streaming. A text is what the properties tell apart:
nothing yet, a part, the whole.

A request is one websocket. `handler` is the program counter of `stream_companion_chat`
(received, claimed, begun, serving, cancelling, closing or raising, ended or broken), `producer`
that of its thread (streaming, flushing, verifying, committing or failing, then the terminal
event), `queue` and `wire` are the events between producer, handler and window. `Claim`, `Begin`
(the exchange is committed) and `Serve` (its context mode is written, the lease of the
conversation it got is taken) are three steps: the conversation may be deleted between the first
two, and the mode may be refused after the exchange (`ModeRefused` when the conversation is
gone, `BeginFails` when the store raises). `CommitTerminal` is the lock all ways to finish
share. The store may refuse it at each of its calls: the producer then turns to its error and,
refused again, ends without an event (`CommitFails`), the handler raises (`CancelFails`), or its
`finally` clause breaks off before the release (`FinallyFails`, the handler is *broken*). Each
refusal is a fault and counts as a lost connection or a restart does. What is left streaming by
a refused mode or a refused last commit stays so until the next start, and blocks rewinding
meanwhile, as `MayRewind` says. On the other side `win` is the hook's state (open conversation,
active request, scope, whether it was detached), `view` what the window shows of each reply,
`fetches` its reads under way, `signals` what the other window told it. A read is asked,
answered from the store and applied, with everything else between. Rewriting checks the leases
in one request, and rewinds in another; deleting looks at the leases and deletes in a second
step. There is a main window and there may be an overlay; conversations are opened and deleted
in the history panel of the main window (`ChatAssumption`).

A lease also expires after 15 minutes; the model lets it expire once its handler has ended
or broken off, since a live handler renews it.

### AgentRun

`ckpt` is the latest checkpoint of the run's thread: the next node and the state. `exec` is
what each accepted execution (the start, a resume, a task retry) is doing. A node takes
effect in one step, its checkpoint is put in the next; a write tool is `BeginWrite` and
`EndWrite`. Every node of `ReadingAgentGraph` is an action or two: resolve the context and
begin the exchange, collaborate, route, execute directly, the ReAct loop with its limits on
iterations and tool calls, finalize. Cancellation, an exhausted budget and an error of a
provider are one exception wherever a node looks at its control or calls out; what a node does
with it is its own handler: `Abort` for most, none for the collaboration. The preparation ends
by how far `begin` came: `PrepareConversation`; `ClaimFails`, which leaves
nothing; `ExchangeRefused`, whose exchange, if it was committed before its title or mode
was refused, nobody knows of; `ContextRefused`, which raises with exchange and lease in hand, and
`FailSetup` behind it, the `except` clause that settles and releases them. Every other
transaction of the conversation may be refused as well (`Break`); the lease goes back in
`_abort` and `complete` even then, and is left in `FailSetup`. `OtherBegins` and
`OtherEnds` are another window in the same conversation. `Restart` ends all executions and
runs the store's `Initialize`. A resumed execution goes on with the checkpoint's state.

`solo` (no two executions overlapped) and `unknown` (the process stopped inside a write) are
history variables.

### DocumentIndex

A request is a thread of the endpoints' pool: `found` to `swept` are the points of
`_index_document` between two of its reads and writes, `doomed` to `unlisted` those of
`delete_document`. `existing` is the record `_index_document` found at its start and uses
until its end, however old. The chunks of a content are stored and removed together and
hash the content in their ids, so one content stands for all its chunks. The four active
statuses are one. An exception at any step of an import marks the record failed and keeps
its chunk ids; an exception in a deletion leaves what it leaves; `Restart` is a new process
and its `recover_interrupted_operations`. `solo` and `cut` are history variables.

### WritingProjects and ManuscriptHistory

`sections` and `receipts` are tables of the writing service, `outline` the column of
`writing_projects`, `artifacts` the manuscripts in the artifact store, which an agent
filled with the first version of each draft. Sections share nothing but their project, so
each project has one; a revision changes one paragraph, which is what the panel sends. A
manuscript is a function from paragraphs to texts; a replacement is *broken* when the
joined markdown does not come apart into the same paragraphs again (it is empty, or holds a
blank line). A revision is named by a digest, which the model replaces by what the digest
covers.

`panel` is what a window shows: a preview and the operation id drawn with it. `call` is the
request a server thread works on, with a stage: *asked*, *checked* (artifact and memory
were looked at before the lock was taken), *stored* (the result is in the artifact store;
the lock is held until section and receipt are committed, in `CommitRevision`) and
*answered*. `PutResult` and `CommitRevision` are two steps since they are two transactions;
a restart may come between them. The panel names the project it shows when the author
presses Apply, which need not be the project of the preview; an author may also leave the
page while a request is under way, cancel, or send an operation again. An artifact's
version is typed by hand when it is attached, so that one that an apply left behind can be
attached too.

`ManuscriptHistory` knows, per project, the sequence of its manuscripts: `Attach` appends
one, `Revise` appends the last one with one paragraph changed and notes the version under
the operation's id, `Publish` counts outlines. `ImplementsHistory` is this specification
with `history` mapped to the texts of versions 1 to the current one and `done` to the
receipts.

## 3. The runs

| Run | Expect | What it asks |
|---|---|---|
| `scheduler_safety` | pass | Three tasks, the third needing the other two (one of them GPU, two optional) with one model call too few; two overlapping calls of `execute`, one crash, a cancel, retries, lease expiry. One scheduler at a time; a success on disk rests on successes; a stored result is of the attempt its row counts; `by_id` and rows agree; successes are reused; however many results are waiting when the cancel comes, at most the one past its checkpoint is stored after it; the lease is kept until the last of several late workers is discarded, whichever it is, and given back then; the frontier never gets stuck; every task is accounted for in what `execute` returns; and the scheduler implements `RunOwnership`. |
| `scheduler_liveness` | pass | Two calls of one GPU task, on the two expert slots and the one GPU slot of the code, and a scheduler that sleeps past its lease and loses the run. Every `execute` ends; a worker that waits for the GPU slot with an expert slot in its hands gets it. |
| `curator_safety` | pass | Three calls of one operation, one of them with a different payload, over a revised note, a revised item and a proposal that joins them; one crash, one user edit. Objects, steps and receipt stay consistent and nothing reported as committed is taken back. |
| `artifact_memory` | pass | One artifact version with two claims and two runs that may deliver it, in one scope or two; the user remembers, updates, activates and forgets; one crash. Each claim becomes one candidate, whoever delivers it and however often; what a failed run left in the outbox is delivered by the next run of the scope; a resumed run sees the versions it was frozen at, only what the user approved, and never what was forgotten before it was loaded; no memory goes back in status. |
| `companion_windows` | pass | Three requests of two windows over two conversations, and one gesture (cancel, open, reset, delete, rename, rewrite). One generation per conversation unless its conversation was deleted under it; a lease outlives its socket only then; a terminal status is final; no window shows a completion that was not stored. |
| `companion_faults` | pass | One window, two requests, two gestures, and any two of a lost connection, a restart and a refused transaction (the exchange, its context mode, each terminal commit). Every reply settles, except where the code has no step left that could: its mode was refused after the exchange, its last commit was refused, or its producer could store neither answer nor error and the handler still waits for its client. Save in that last case the window gets its composer back, unless its cancel or its change of scope was lost with the socket. |
| `agent_run` | pass | A run with up to one resume or task retry, every route, exceptions at every node, refused transactions at every step of its conversation, one restart at any step, another window in the conversation. A write whose effect is unknown is not started again; when nothing executes any more, an exchange streams or the lease is held only if an execution ended in one of the listed ways that settle or release nothing; a finished run's reply is the one stored. |
| `document_index` | pass | Two threads import, reindex and delete a document whose file changes between two contents; any step may fail or be the last before a restart. What the manifest says is what searching finds; no status stays active. |
| `writing_projects` | pass | Two windows and two server threads over two projects that share drafts, two operations, up to three versions, five gestures; one restart, revoked draft or forgotten memory at any step. The history of a project grows by one version at a time and each operation adds at most one; what an operation added is what its preview showed; an apply that finds its version taken has met another revision's result, never what an earlier attempt of its own left. |
| `curator_replay` | violation | A receipt is reported as completed while selected targets were never written. |
| `agent_approval` | violation | A run resumed after a restart writes on the approval given before the restart. |
| `writing_current` | violation | An apply whose version, paragraph and memory are current is refused for good: the result of a revision that does not come apart into its paragraphs was stored under the next version before it was refused. |

The three violations are disagreements between what the code does and what its documents and
comments say of it; `findings` in `PROJECT.json` quotes the sentences. Seven more are written
down as properties next to those that hold, and not run: `BudgetSpansResume` (every `execute`
renews the run's budget), `OneExecutorPerTask` (an `execute` that fails on one task's result
releases the lease while another specialist runs), `SucceededArtifactLive` (a resumed attempt
succeeds with a reference to the version revoked before), `RetryStaysPossible` (a revised note
is saved, its step is not, and every retry conflicts with the operation's own write),
`EndedRunFreesConversation` (a run cancelled while its specialists work, or whose failed
preparation could not be settled, keeps the lease of its conversation until it expires),
`OneActiveGeneration` (a request whose conversation was deleted before its exchange streams into
another one, without that one's lease), and `ResultMatchesAttempt` with `MayStall = TRUE` (a
scheduler that outslept its lease overwrites the row of the attempt that replaced its own).

A lease expires after 15 minutes in any case; that the run *releases* it is `EndedRunSettles`,
which speaks of the moment at which nothing executes and does not wait for the clock.
`OneGeneration` and `LeaseEndsWithSocket` say what holds when a conversation is deleted under a
request, and exempt that request; `OneActiveGeneration` makes no exception, and the code breaks
it.

**Bounds, and why they are enough.** Two owners are two windows, or a call and the one that
resumes it; no action reads the state of more than one other owner. Three tasks give dependence,
independence and fan-in. The two tasks of the fan-in plan that run at once are what several late
workers need. One task per call is enough for a stalled scheduler, whose loss of the run is
between the calls, and for the GPU slot, which the worker of one call holds while the other's
waits with its expert slot (`scheduler_liveness`; two workers do not contend for the two expert
slots there, and two tasks per call with stalls are out of TLC's reach). `LeaseSeconds` 1 or 2
with `MaxClock` 1 to 3 lets a lease be taken, renewed and expire. `MaxCrashes = 1` allows a
crash in each state of either call and a resume after it. `MaxModelCalls = 2` runs out in the
fan-in plan. In `CuratorCommit` three calls are a first attempt, a retry or double click, and a
conflicting one; the drafts cover each kind; revised objects are in `curator_safety`, where they
can also conflict with a user's edit, new ones in `curator_replay`. In `ArtifactMemory` three
writes (`MaxWrites`) are enough to remember, forget and write late, or to submit, activate and
forget; a specialist may write two contents, one of them verified, so a re-run may collide with
what is stored; the two runs share a scope or not. In `CompanionChat` two conversations and
three requests are what two windows need to race for one conversation while a third request
takes its place after a deletion or a trim; `companion_faults` needs one window, since what a
fault loses is between a window and its socket, or a handler and the store; `MaxFaults = 2`
refuses both commits of a producer, or loses the connection and refuses the commit of the
`finally` clause, and `MaxGestures = 2` is a cancel and an open. One background read per window
is under way at a time (`MaxFetches`); reads that overlap differ only in which is applied last,
and a stale one is refused by its scope. In `AgentRun` two executions are a start and whatever
comes after it, or both at once; two iterations and two calls reach both limits; one restart
falls into each state. `DocumentIndex` is bounded by nothing but its two contents and its two
threads: two contents tell stale from fresh, two threads overlap. In `WritingProjects` two
windows and two threads race for one section, two projects compete for one draft's versions, two
operations are one that is sent again and one that differs (`MaxOps`); five gestures
(`MaxGestures`) are attach, preview, apply and two more of any window; `MaxVersion = 3` lets a
preview outlive the version it was made on; `MaxFaults = 1` puts the restart, the revocation or
the deletion into each state. Where owners or calls are interchangeable the safety runs use
symmetry; liveness runs do not.

`CHECK_DEADLOCK FALSE` everywhere: a run whose calls have all ended stops, as in the code.

**Fairness** (`FairSpec`). Weak fairness of each scheduler thread and of each worker:
threads of a live process are scheduled, `wait` has a timeout, model and retrieval calls
carry timeouts of their own, so a running specialist ends. Requests, cancels, retries,
crashes and the clock are not assumed to happen. The slots are contended and a
semaphore is not a queue, but each call starts a task at most once and there are finitely many
calls, so a worker that waits is overtaken finitely often: weak fairness suffices.

In `CompanionChat` the handler's coroutine, its producer thread, the socket and the window's
event loop are weakly fair; the provider's stream ends, which is strong fairness of `EndStream`
because deltas and flushes come between. `AgentRun` states no liveness and assumes no fairness.
In `DocumentIndex` a thread that serves a request goes on until it has answered. Restarts,
failures and requests are never assumed.

## 4. The proofs

`TaskGraphExecutorProofs` proves, for every set of tasks, every `depends_on`, any number
of owners, every policy and no bound on behaviours, from the assumptions named in the
modules:

* `TypeCorrect`: the type invariant, with or without stalls;
* `CancelsCutShort`: `CancelCutsShort`, however many results wait to be merged and wherever
  between a checkpoint and `complete_task` the cancel falls; `LateWorkKeepsTheLease`:
  `LateWorkKeepsLease`, and `LeasesAreInUse`: `LeaseIsInUse`; all three with or without stalls;
* `InvariantHolds`: `SchedulerInvariant`, assuming `MayStall = FALSE`;
* from it `OneSchedulerAtATime`, `SuccessesRestOnSuccesses`, `ResultsMatchAttempts`,
  `ViewsMatchStore`, the action property `SuccessesAreReused`, and
  `SchedulerImplementsOwnership`, the refinement of `RunOwnership`;
* `AccountHolds`, a second invariant on top of the first, and from it `NothingIsDropped`:
  `NothingDroppedSilently`, what `execute` returns accounts for every task;
* `FrontierIsNeverStuck`: `FrontierNeverStuck`, for every acyclic plan, with or without stalls.

**The argument.** None of the safety properties is inductive. That a success on disk
rests on successes is preserved by `begin_task` only because the scheduler never starts a
task whose row is a success, which holds because `load` restored every success into
`by_id` and nobody else has written rows since, which holds because the active scheduler
is the owner of a live lease and a retry refuses while a lease is live.
`SchedulerInvariant` is that chain: `LeaseHeld` (the active scheduler owns an unexpired
lease: the conjunct that fails with stalls), `NothingBeforeLoad`, `OutcomeHasResult`,
`UnmergedNotSettled`, `ReadyIsPending`, `FutureIsGrounded`, and the properties themselves.
Steps that write no row and merge nothing go through one lemma (`InvQuiet`), exits of
`execute` through another (`InvLeave`: nobody is active afterwards); `Load`, the two ways
to settle a task unrun, `DispatchStart`, `Merge` and `Retry` have a lemma each, with one
step per conjunct. The retry rests on `DescendantsClosed`: what is reopened contains
whatever depends on it. The refinement needs, in addition, who writes rows
(`RowWriters`) and what the abstract holder is (`HolderValue`).

Types and late results are one induction (`LateHolds`), without any assumption on stalls: what
`complete_task` writes is a status only because a result that passed its checkpoint belongs to a
finished worker (`PassedIsFinished`), and what a cancelled call has stored is one result because
storing it used up what had passed before the cancel (`LateInvariant`). Who gives a lease up is
`LeaseGivers`: while a call drains, only the callback that finds itself the last. That nobody
else keeps it is inductive by itself (`UseOwn`, `Released`): an exit either releases the lease
or leaves late work, and a callback that is not the last leaves another.

That a task left unrun has a reason is stated of one step, the end of the loop, and must hold
from the moment the task was settled: `AccountInvariant` says it of everything a running
`execute` has merged. The reasons last only because of the order of dispatch: a task is on
the ready list once all it depends on is merged (`ReadyHasInputs`), so that a failed
dependency is a merged failure, which nothing takes back; the budget is never given back; and
the tasks found interrupted are fixed by `load`. `FrontierExists` needs no induction: the
pending tasks, when nothing runs, are a set of which `PlanAssumption` picks one that depends
on none of the others, and that one is ready.

`DocumentIndexProofs` proves, for any set of contents and any number of threads,

* `TypeCorrect`: the type invariant, whatever overlaps;
* `SearchMatches`: `SearchMatchesManifest`.

**The argument.** `SearchMatchesManifest` relates record and stores, and between two of its
writes a request holds them together only by where it is. `IndexInvariant` adds `Call(r)`,
one conjunct per stretch of the program: the status is active from the first mark to the
last, the content is in the vector store once it was stored, the BM25 index is empty once
cleared and holds that content once listed, and, up to the decision to reuse, the record
that was found still describes the stores (this is what lets `Reuse` put it back). While
nothing overlaps (`OneRequest`), a step of the one request is the only change, so
`OnlyRequestSteps` leaves `Call` of that request and `StepKeeps` goes through its actions.
That a known content is a content at all (`ContentKnown`) is part of the typing.

`CuratorCommitProofs` proves, for every artifact (`DraftsAssumption`, `CallsAssumption`), any
number of calls of one `operation_id` with any selections, crashes and edits,

* `TypeCorrect`: the type invariant;
* `ObjectsHaveSteps`, `ReceiptsAreBacked`, `ProposalsComeLast`: the invariants of its run;
* `CommittedStays`: `CommittedNeverTakenBack`, what `get_receipt` reports is never taken back.

**The argument.** Calls write one receipt row without comparing, so what the row claims is
right only because whatever any of them could write is: `ClaimsAreBacked` says of the row, of
the copy each call has read and of each call's own results that a committed target has a step.
Steps only grow (`StepsGrow`), a call adds to its results what has a step or what it gives one
in the same transaction. A proposal is stored only from `checked`, where `AtTarget` keeps what
the validation saw: both of its endpoints are among the call's own successes, hence have steps.
`get_receipt` overlays the steps on the row, so what it shows as committed is exactly the
steps (`VisibleIsStepped`), once there is a row; a row that was never written claims nothing
(`NoEmptyClaims`). That `apply` has a next target while one is left (`CurrentIsTodo`) uses that
`<` is well-founded on draft numbers.

`WritingProjectsProofs` proves, for every set of windows, threads, projects, drafts and
texts and any bound on versions, operations, gestures and faults (`WritingAssumption`),

* `TypeCorrect`: the type invariant;
* `ReviewedApplies`, `OrphansNeverBlock`: the invariant and the action property of its run;
* `ServiceImplementsHistory`: the refinement of `ManuscriptHistory`.

**The argument.** What a receipt says of two versions stays true only because versions are
never rewritten, and they are not because a new row continues the versions 1 to n
(`SectionsNumbered`): `save_section` compares, and `apply_revision` takes the version from an
artifact it computed from the current row. Between storing that artifact and inserting the
row the service holds its lock, so that the row it computed from is still current
(`LockHolds`). `RowContinues` and `RowAdded` are the two lemmas about a table that grows by its
next version; both writers go through them (`SaveSectionAdds`, `CommitAdds`). That an orphan is
the artifact the retry computes rests on `Provenance` (a row copies an artifact, and an
artifact past the first is the one before it with its revision's paragraph replaced) and on
the key of the artifact store (`KeysAreUnique`): two artifacts of one revision under one
version are the same (`SameRevisionSameResult`). The refinement turns a row into an `Append`
(`HistoryGrows`), and needs that steps which write no row and no receipt stutter.

`ArtifactMemoryProofs` proves, for any runs, scopes, artifacts and requests, any number of
crashes and any bound on writes (`RepositoryAssumption`, `ArtifactAssumption`),

* `TypeCorrect`, and the invariants of its run: `DeliveriesAreOnce`, `SnapshotsAreApproved`,
  `ViewsAreFrozen`;
* its action properties: `DeliveriesDrain`, `ForgottenIsFound`, `StatusesAdvance`.

**The argument.** Everything rests on the receipts. Each version of an item has one, so an
item cannot have more versions than there were writes (`ItemsHaveReceipts`, needed even for
the types), and a delivery is a replay or a conflict by what its receipt holds. A replay it
is, because the receipt has the content and the scope of its artifact (`Fits`), which the
artifact store and the frozen snapshot never change. `DeliveryInOrder` follows a run through
its outbox: what it has passed is saved, what it owes is still before it, and of the artifact
it is at, the claims it has already taken are saved. This makes "delivered" mean saved, also
when two runs deliver one artifact. `LoadsFindOut` is the same for a load: what had been
forgotten is unread or has been found out. `UpdatesAreRead` ties an update to the version it
read, and lets `StatusesAdvance` follow from the comparison `save` makes. What a step may do
to the repository at all (add receipts, advance items, forget) is `RepositoryGrows`; the
parts of the invariant that look at other tables are then proved from it once.

`AgentRunProofs` proves, for any number of executions and restarts, any limits of the policy
and any approvals (`AgentAssumption`),

* `TypeCorrect`, and the invariants of its run: `InterruptedWritesStay`, `EndedRunsSettle`,
  `FinishedRunsAreStored`.

**The argument.** `RepliesHaveExecutions` says who answers for each streaming reply and for the
lease (`AnswersForReply`, `AnswersForLease`): an execution that holds its exchange, one whose
preparation is raising, or one that ended where nothing is settled (`LeftStreaming`) or released
(`LeaseLeft`). Nothing that has ended goes on, so `EndedRunsSettle` is what is left of it when
nothing is alive. A preparation adds an exchange and a lease together, or an exchange nobody
knows of (`BeginsInvariant`, used three times); `FailSetupStep` and `AbortsStep` have a case for
the store that refuses. While executions follow one another, the live one is where the
checkpoint is or one node ahead (`SoloInStep`), so what the checkpoint says of a pending write
(`UnknownIsPending`) is what a resume finds, and an exchange is stored from its beginning to its
withdrawal for a confirmation (`SoloIsStored`). Even the types need counting: each execution
begins one exchange (`ExchangesCounted`), hence no more rows are numbered than there are
requests.

`CompanionChatProofs` proves, for any number of requests and conversations, the main window
with or without the overlay and any bound on faults and gestures (`ChatAssumption`,
`StoreAssumption`),

* `TypeCorrect`, and the invariants of its runs: `ShownRepliesAreStored`,
  `GenerationsAreSerial`, `LeasesEndWithSockets`;
* `TerminalRepliesAreFinal`: the action property `TerminalIsFinal`.

**The argument.** `ChatInvariant` is a few facts of the store and, per request, what each place
on the way of an event knows of the row. `HandlerFits` ties the handler's place, the producer's
and the lock `terminal` to the status of the row (`Begun`: from the exchange until a commit
succeeds the row streams or is gone, however many commits were refused); since
`finalize_message` itself compares nothing, that a terminal status is final is a consequence of
nobody being in a place from which a second one is written. `LeaseFits` ties the lease to the
handler that claimed it and every undisplaced stream to its lease, which gives both lease
properties. `QueueFits`, `WireFits` and `ViewsFit` follow a `done` event from the producer
through queue and wire to the view, and through an answer of the server to a background read:
wherever it is believed the reply is `Settled`, complete or deleted, and no step of the store
unsettles it. A step of a handler or producer is held against what it must keep for its own
request and leave alone for the others (`ServerSide`, `ProducerSide`), a step of a window or
socket against what it must keep of the windows (`WindowSide`, `WindowOnly`); each action is one
application of these. `ConversationStoreProofs` has the lemmas on the store that both users
need: what the list of conversations holds after one is removed, touched or trimmed away
(`WithoutType`, `TouchedType`, `KeptType`).

**Only model-checked:** liveness (`ExecuteEnds`, `NoSlotStarvation`, `ReplySettles`,
`WindowRecovers`, `IndexingEnds`), which TLAPS cannot do under fairness. Every invariant and
every action property of a passing run is proved for all values of the constants, those of the
scheduler for schedulers that do not outsleep their leases, save `TypeCorrect`,
`CancelsCutShort`, `LateWorkKeepsTheLease`, `LeasesAreInUse` and `FrontierIsNeverStuck`, which
hold with stalls too. The type invariants of the scheduler, the curator, the document index and
the writing projects are proved and not run; the inductive invariants of the other proofs were
checked with TLC on the instances of the runs before they were proved.

## 5. Not modelled, and why

In the scheduler: the plan-hash conflict (one plan per run is assumed), the per-specialist tool
and retrieval reservations (they end in the outcomes a worker already has), the order of results
and which output is delivered directly, progress events. In the curator: checks before any state
change (approval, scope, memory), deletion of existing objects. In the memory: texts, roles and
profiles, the `LIMIT` of the outbox query, limits on lengths, the `memory_jobs` rows nobody
reads, temporary runs (they read and write nothing). In the chat: deltas on the wire (they only
redraw), titles and grounding metadata, the values of context modes (that writing one is a
transaction that may be refused is modelled), the hook's agent transport, ownership polling, the
retry button of a recovery that failed. In the agent: prompts, routing rules and evidence;
temporary runs; a run that was asked in no conversation or in one since deleted (its exchange
comes before its lease, `agent_conversation_service.py` lines 171 to 178); the paths of
`AgentRuntime` without a graph; the event stream and snapshots; a LangGraph checkpoint is taken
to be durable before the next node starts. (The code asks for no particular durability; a
library that writes the checkpoint while the next node already runs leaves a moment in which a
write tool has started and `InterruptedWriteStays` does not apply, since the restart finds the
node before it.) In the index: visual assets and the visual index (off by default), the outline
cache, changed versions of parser, chunker or model, a manifest or BM25 file that cannot be
written. In the writing projects: evidence and verification status, revisions an agent wrote
(they reach `apply_revision` the same way), several sections or several changed paragraphs,
contents of outlines, listing and export (they only read). Specialist graphs are abstracted to
their outcomes. The components of section 1 without a module are listed in `PROJECT.json` with
the reason.

## 6. Plan

In order of importance:

1. **Proofs**: an abstract specification of what a memory promises (a frozen view, one
   memory per claim, no way back in status), implemented by `ArtifactMemory`; one of an
   exchange (begun, streaming, settled once), implemented by `CompanionChat` and `AgentRun`.
2. **Task state and reducer** as pure algorithms against reference definitions; translation
   request versions; relation suggestions; the visual index beside the document index.
3. **Writing**: agent-written revisions, several paragraphs and evidence; one abstract
   specification of an idempotent operation that this module and `CuratorCommit` implement.
