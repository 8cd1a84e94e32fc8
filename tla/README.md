# Formal verification of the agent platform

TLA+ models of the server under `src/server/`, model-checked with TLC on small
instances and, where section 4 says so, proved with TLAPS for every value of the
constants. `PROJECT.json` lists the components, runs, theorems, hazards and, for
every definition that models code, the lines it was translated from.

## 1. The system and its parts

A tenant configures *agents*; an agent has *skills* (a knowledge base, a tool, a
delegation to another agent, a workflow). A client posts a message to
`/api/v1/invoke`; the server answers after retrieval, model calls, tool calls or a
workflow step. One process, one asyncio event loop, a SQL database, a few
background threads.

```
client ──POST /invoke, /invoke/stream──▶ api/invoke.py
   account ▸ rate window                             middleware/auth.py
   slot ▸ session lock ▸ idempotency cache           engine/request_guard.py
        └▶ AgentRuntime.invoke                        engine/agent_runtime.py
             ├ active workflow? ─▶ WorkflowExecutor   engine/workflow_executor.py
             │        └ tools, decision provider, completion webhook
             └ otherwise: summary + history ▸ retrieval ▸ model ▸ tool loop ▸ delegation
                  │            │                      engine/knowledge_retriever.py, vector_store.py
                  │            └ trimmed prompt       engine/context_budget.py
                  └ tools and models through a circuit engine/circuit_breaker.py
             commit ▸ dispatch events ▸ schedule a summary fold
                          │                 └▶ engine/summary_scheduler.py (takes the lock to persist)
                          └▶ engine/event_dispatcher.py (fire and forget)
administrators ──▶ api/workflows.py, api/knowledge.py, api/vector_admin.py, api/auth.py, api/backup.py
beside the requests: backup scheduler, index jobs and rebuilds in threads, audit purge, shutdown
```

| part | code | state | hard | correct when |
|---|---|---|---|---|
| Workflow turn | `workflow_executor.py`, `agent_runtime.py`, `rule_evaluator.py`, `decision_service.py` | the session row (position, status, gate, up to five snapshots, collected data), queued events, one idempotency key per run | one message runs any number of steps and is cut in any of them; external calls cannot be rolled back, the database can; a confirmation spans two turns; definitions change under live sessions | nothing is announced that was not committed; a gated action runs only on a yes to that gate with the data shown; a turn calls out only for what was asked; one ticket's data never reaches another; every turn ends by itself |
| Request guard | `request_guard.py`, `api/invoke.py` | slots, reference-counted session locks, idempotency cache | entries come and go around waits that may be given up; the cache is asked before and under the lock | turns of a session never overlap; everything taken is given back; nobody waits for ever; a kept response is not computed again |
| Streamed delivery | `api/invoke.py` | bounded queue, producer task, slot and lock | the client stops reading or leaves while the producer is anywhere; time limits; `asyncio.wait_for` differs between Pythons | one verdict; slot and lock come back always, and not before the turn is over |
| Conversation memory | `summary_scheduler.py`, `agent_runtime.py`, `api/sessions.py` | rows ordered by time, summary and watermark, folds in flight | three queries without the lock, a wait for a model, then a write; later rows may sort earlier | the summary stands for exactly the rows before the watermark; a prompt has every message once |
| Answer loop and delegation | `agent_runtime.py`, `context_budget.py`, `llm_adapter.py` | messages of the round, chain of ancestors, text already streamed | a model or tool that fails midway, several calls in one reply, delegated turns in sessions of their own, fragments of streamed calls | what was done is told; a workflow has the last word; no stale text; depth and rounds are bounded; a prompt fits and keeps what belongs together |
| Tool gateway and circuit breaker | `tool_gateway.py`, `circuit_breaker.py` | failures and state per target | results arrive after the state moved on | a dead target is spared, a recovered one used again |
| Knowledge | `api/knowledge.py`, `vector_store.py`, `pgvector_store.py`, `vector_rebuild.py`, `knowledge_retriever.py`, `api/vector_admin.py` | chunk rows, index, id sidecar, rebuild flags | threads add and delete while a rebuild runs; two files; another embedding model | a vector is attributed to its own chunk, a committed chunk is found, a deleted source is not answered from, nothing uploaded is lost |
| Workflow administration | `api/workflows.py` | step rows, version counter, snapshots | requests that validate what they read and commit later; its reading of a definition against the executor's | what is live and what is published the executor can run |
| Accounts and rate limit | `api/auth.py`, `middleware/auth.py` | users, keys, sliding windows | concurrent first registrations, the window at its limit | every power goes back to an administrator; never more than the limit in a minute |
| Event dispatcher, backup, retention, shutdown | `event_dispatcher.py`, `backup.py`, `retention.py`, `main.py` | tasks of the process, archives, traces | retries, failures and overlaps, the drain with its deadline | everyone is asked, a completed backup stays, nothing outlives what it uses, a shutdown ends |
| Secrets, audit log, localization | `secrets_store.py`, `audit_logger.py`, `localization.py` | | | library and wording; not modelled |
| Configuration CRUD, ASR, settings | the other `api/*.py` | rows | little | validated writes in one transaction; not modelled |
| Clients | `console/`, `sdk/`, `static/` | | | not server code |

## 2. Modules

| module | models |
|---|---|
| `WorkflowDefs` | definitions as the executor reads them: rules, targets, fallbacks, validity of answers, what a message says |
| `WorkflowTurn` (on `WorkflowDefs`) | one session's turns: routing, every step handler, webhook, commit, dispatch, aborts, edits |
| `TicketLife` | the abstract promise about tickets; `WorkflowTurn` instantiates it as `Life` |
| `InvokeGuard` | slots, session locks, idempotency cache |
| `StreamDelivery` | one streamed answer |
| `ConversationMemory` | rows, summary, fold |
| `CircuitBreaker`, `OutboundCalls` | the circuit as operators; callers with their attempts, streams and late results through it |
| `AnswerLoop` (on `PromptBudget`) | a conversational turn and the turns it delegates to |
| `PromptBudget`, `ModelReply` | trimming a prompt; reading a reply streamed and whole, with its reasoning in either of the two fields providers use |
| `KnowledgeIndex` (on `VectorStore`) | chunk rows, index, jobs, rebuilds, restarts, questions |
| `VectorStore` | the index with its id list and the two files, as operators |
| `TextSplit`, `TableText`, `RankFusion` | splitting a text; cleaning a CSV file and laying out a table as lines; fusing channels, one of which may bring a chunk twice |
| `Uploads` (on `KnowledgeIndex`, `TextSplit`, `TableText`) | the texts, tables and CSV files that are uploaded, the sizes they are cut to |
| `WorkflowAdmin` (on `StepGraph`) | overlapping requests of administrators |
| `StepGraph` | the validator, and the executor's reading of the same rows; a route is a text or an integer (`Reference`), and the two read an integer differently |
| `Accounts`, `RateWindow` | registration, identities, keys; the sliding window |
| `Background`, `AuditPurge` | scheduler, backups, delivery, shutdown; the purge in batches |
| `MC*` | small instances: definitions, agents, chunks, requests, and the bounded inputs of the pure operators |
| `*_proofs` | theorems about the module of that name; `Background_proofs` also about `AuditPurge` and `ConversationMemory`, `Administration_proofs` about `Accounts`, `RateWindow`, `WorkflowAdmin` and `StepGraph`, `AnswerLoop_proofs` about `PromptBudget`, `KnowledgeIndex_proofs` about `VectorStore`, `Uploads`, `TextSplit` and `TableText` |

The models meet at the session's lock. `InvokeGuard` shows that it serialises turns
and `StreamDelivery` that a stream keeps it until its turn is over; this is what
lets `WorkflowTurn`, `AnswerLoop` and `ConversationMemory` have one turn at a time,
and why the first turn of a session the server names, which takes no lock, is a case
of its own in `ConversationMemory` (`TurnStart(FALSE)`). `WorkflowAdmin` shows which
definitions may stand in the tables; `WorkflowTurn` runs those and, since older rows
may be worse, some the validator would refuse. `OutboundCalls` says what becomes of a
call, `WorkflowTurn` and `AnswerLoop` take any outcome. `Background` closes the
database only when nothing delivers; the archives of backup threads and the automatic
rebuild's task are not waited for (section 6).

### How an action corresponds to the code

An action is what a coroutine does from one await to the next, or what a thread does
between two points where another may see its work.

**WorkflowTurn**

| actions | code |
|---|---|
| `StartRun`, `Chat` | `_make_workflow_handler`, `_invoke_conversational` with its safety net for finished workflows |
| `CancelRun`, `Reprompt`, `Resume`, `Continue` | `_should_exit_active_workflow`, `_cancel_active_workflow`, `_continue_active_workflow` |
| `RefuseStep` | the guards at the top of `process_step`: depth, no steps, index past the end |
| `Collect`, `Validate`, `Confirm`, `ShowGate`, `DenyGate`, `EnterToolCall`, `AskDecision`, `PauseForReview`, `Complete` | one step handler each, with the snapshot `process_step` takes first |
| `CallTool`, `ToolSucceeds`, `ToolFails`, `DecisionAccepted`, `DecisionRejected`, `SendWebhook`, `WebhookDelivered`, `WebhookFailed` | the awaits inside the handlers and what follows each outcome |
| `StartFails` | the `except` of the start handler |
| `Commit`, `FlushEvents` | `_finalize_workflow_turn` or the conversational tail: save, commit, hand events over |
| `TurnAborted`, `AbortedInCommit` | the `except BaseException` of `invoke`; a cut during the commit, which may have reached the database |
| `EditWorkflow` | any save of step rows in `api/workflows.py` |

`saved` is the committed row, `wf` and `data` the turn's own object; `owed`,
`published`, `calls`, `acks` and `seen` are history. A collected value carries the
run it was entered in, so that a leak between tickets is visible. Texts are
classified by the keyword tests of the code (`Msg`), values by what rules and
validation distinguish.

**InvokeGuard.** `ReplayEarly`/`ReplayLate` are the two looks at the cache, `Admit` and
`TurnAway` are `invoke_slot`, `Acquire`, `GiveUp` and `Leave` are `session_lock`,
`Begin`, `CommitTurn`, `Answer`, `Cut`, `Close` the pipeline as the guard sees it.
The lock of a key is named after the request that made it, because an entry may be
dropped and made anew while an older lock object still exists.

**StreamDelivery.** `writer` is the program point of `_run_pipeline`, `reader` that of
`_event_generator`; `legacy` is the `wait_for` that makes its inner awaitable a task of
its own (up to Python 3.11).

**ConversationMemory.** A row is a number, a summary the set of rows it was made from;
`ReadContext`, `Count`, `ReadRows`, `Summarized`, `Persist`/`Discard` are the fold's
steps. `Skew` says how many rows a new row may sort before.

**OutboundCalls.** A caller is ready, sent, in a pause between attempts or over;
`kind` says whether it is a tool, a one-shot or a streamed model call, and whether its
request can leave the process at all. `circuit` is `CircuitStats`, changed only by the
operators of `CircuitBreaker`; `resting` counts the ticks since a circuit opened, `up`
is the target.

**AnswerLoop.** `turns` is the stack of the turn and the delegated turns it waits for,
each with its round, the calls still to do, its messages, and what was streamed, called
and recorded. `Ask`, `Delta`, `StreamFails`, `Answer`, `ModelFails`, `WantsTools` are the
model's side of a round, `CallUnknown`, `CallTool`, `StartWorkflow`, `Delegate`/`Return`
the handlers, `NextRound` and `Save` what closes a round and a turn. A message is its
role, its size and where it stood; the prompt is `Trim` of `PromptBudget`.

**KnowledgeIndex.** A job is a thread's program point and what it read: `ReadRows`,
`Reset`, `Clear` for rebuilds, `Grow`, `Name`, `Blot`, `WriteIndex`, `WriteIds`, `Upsert`
for the stores; `JobFails` is an exception before the vectors are in, `SaveFails` one of `save`,
which leaves either file torn or as it was. `disk` is the pair of files, `flag` the mismatch found on opening,
`Restart` a stop between any two steps with or without another embedding model.
`excused` records that a documented loss happened (section 6), `cut` that a rebuild was
stopped between its two files, `lagging` that a save failed and none has ended well since:
the open store is right, but a restart would read what the disk has. An answer without hits is not kept.

**WorkflowAdmin.** Each request is two actions, what it reads and validates, and its
commit; `pending` is what it read. `skewed` and `behind` record that a write was based
on rows, or on a version number, another request had replaced. Ids of steps are given out
in the order of `Ids`; the name of a step may be the id of one that is stored, but nobody
guesses an id before it is given out (`Guessed`). The cycle search is a function over the
sets of steps it has not entered yet (`Visit`), `visiting` the path, `visited` what it
has settled.

**Accounts.** A registration goes through the lock, the count of users, the right of its
credential, its name, the hash and the commit; `Identity` is `get_current_user`, `Allowed`
the three dependencies as the routers combine them.

**Background.** A job of `create_backup` is opened, written, and then finished, failed
or crashed; `task` is one delivery through the subscriptions with its log of attempts;
`life` the stages of the shutdown.

## 3. Runs

| run | question | bounds | distinct states |
|---|---|---|---|
| `turn` | Does each of ten shapes of workflow behave, whatever is said and whatever is cut? `NoPhantomEvents`, `AnnouncedHonestly`, `OnlyWhatWasAsked`, `TurnEnds` | depth guard 3, 2 snapshots, 1 webhook retry, 1 run, 2 values | 58 083 |
| `tickets` | Two runs in one session while a lookup is inserted before the gate and deleted again: `RunIsolation`, `GateConfirmed`, and the refinement `LivesAsPromised` | 2 runs, 2 versions, 1 value | 1 140 466 |
| `invoke_guard` | `TurnsSerialized`, `NothingLeaks`, `RepliesSound`, and every waiter ends | 3 requests of 4 kinds, 2 slots, 1 cache entry | 242 092 |
| `stream` | One verdict; slot and lock given back, not too early | queue of 3, 6 progress events, both Pythons | 3 990 |
| `memory` | `SummarySound`, `NothingForgotten` | 8 rows, threshold 4, window 2, batch 3, skew 2 | 127 171 |
| `answer` | `DeedsTold`, `ChainBounded`, `NoStaleText`, `PromptSound`, `AnswerEnds`; `StreamReadsTheSame` over replies of up to two calls | five agents in two tenants, budget 11, 2 rounds, depth 2, 2 calls in a reply | 48 568 |
| `outbound` | `DeadTargetSpared`, `CallsGoThrough` | 3 callers in 3 mixes, threshold 2, window 1, recovery 2 | 45 908 |
| `index` | `IndexSound`, `NothingMissed`, `AnswersOwnAndLive`, `Settles`; `UploadWhole` and `FusionSound` over bounded inputs (9 331 CSV files with tabs and as many without and every two-row table among them, lists that hold a chunk twice) | 2 chunks, both stores, 2 models, 2 of questions, manual rebuilds, failed embeddings and saves, and restarts | 1 344 194 |
| `admin` | `DefinitionsSound`, `CycleCheckExact` | 2 administrators, 3 steps out of 13 bodies, 3 requests, depth 3, symmetry | 92 861 |
| `access` | `Accountable`, `RegistrationsAnswered`; `RateKept` over every history of up to four calls | 3 registrations, 2 names, 1 key, 1 stop | 159 956 |
| `background` | `RetentionSound`, `DeliveriesDrained`, `EveryoneAsked`, `GoesOnAndEnds`; `PurgeComplete` over every purge of five rows | 3 backups in 3 seconds, 2 kept, 2 subscriptions, 2 attempts, 1 stop | 468 380 |
| `claim_forgotten` | a statement of the code's documentation that does not hold: section 6 | as `memory`, ids used again | |

Several properties are conjunctions of named parts, each with its own comment beside it:
`OnlyWhatWasAsked` (a denial, an unsure decision, a wait, a finished ticket),
`AnnouncedHonestly`, `Accountable`, `DefinitionsSound`, `DeedsTold`, `RetentionSound`,
`SummarySound`, `UploadWhole`, `GoesOnAndEnds`, `CallsGoThrough`; `RepliesSound` and
`IndexSound` include the type invariant of their module.

Why the bounds are enough for what is asked. *Turn*: three automatic steps are more
than any of the shapes needs without a cycle, and one cycle step past the guard is all
the guard can be asked; two snapshots make trimming happen in a definition of four
steps; one retry gives a first, a last and an exhausted attempt. The shapes are the two
kinds of template (form–confirm–submit and triage with review), a gate, a confirmation
followed by a gate, a definition whose fallback points at a tool (refused on
publication, possible in old rows), validation that rolls back, a loop of automatic
steps with dangling routes, a decision that falls back to a submission without an address,
and loose definitions with an unbound decision. *Tickets*:
the first run ends in each of the four ways before the second starts; an insertion and
a deletion move the index in both directions. *Guard*: two requests contend, the third
finds the table's entry gone; two slots and three requests fill the server; a cache of
one entry evicts on every second key. *Memory*: eight rows are four turns: two before
the first fold, one during it, one after; a batch of three leaves a backlog. *Stream*:
six events fill the queue twice. *Answer*: a conversation of four messages and tool
replies of one or four tokens make each branch of the trimming happen; two rounds are a
first and a last; a chain of two reaches the limit, a cycle and another tenant.
*Outbound*: a threshold of two is reached by one caller's attempts or by two callers';
the window and the recovery time are passed and not passed. *Index*: two chunks are the
least for a vector to be attributed to another; two events allow a failure and a
restart, a question and a deletion, two rebuilds; the reach of the texts is the window
size plus what a boundary may move it. *Admin*: a cycle, a loop through the user and a
chain that ends need three steps; one name reads like an order and one like an id, so
that the precedence of the lookup matters; three requests are two that overlap and one
that follows. *Access*: two first registrations and a later one. *Background*: the third
backup is the first that retention removes another for.

Deadlock is not checked: a client may stop sending, a bounded model stops when its
rows, runs or requests are used up. What must not stop is stated as a liveness
property instead.

### Fairness

| run | fair | why | not fair |
|---|---|---|---|
| `turn` | executor and committing steps (weak) | the event loop resumes a coroutine that can go on; each external call has a limit of its own | the pipeline's limit and every abort, so that `TurnEnds` shows that the depth guard ends a turn; messages, edits |
| `invoke_guard` | `Work` of each request (weak) | same; the pipeline has a time limit | giving up a wait, cuts, expiry |
| `stream` | producer, generator, both time limits (weak) | timers of the loop | `Send`: nothing makes a client read |
| `answer` | `Work` (weak) | same as `turn` | the cut of the turn |
| `outbound` | the clock, and each caller that can proceed (weak) | time passes; a send has a time limit, so it comes out somehow | cuts, and the target's state |
| `index` | jobs, opening the store, the automatic rebuild's task, questions of others (weak) | threads and tasks run to their end | manual rebuilds, failures, restarts |
| `access` | `TakeLock` of each registration (strong), the rest of it (weak) | `asyncio.Lock` serves its waiters in order, so nobody is passed over for ever | arrivals, stops |
| `background` | a backup's progress, the deadline and the steps of the shutdown (weak) | a thread runs on; `wait` has a timeout | attempts of a delivery: httpx limits each read, not the whole, so a subscriber may keep one for ever |

### What each property would catch

Every property of a passing run has a mutant in `PROJECT.json`, a plausible bug in a
mapped definition under which TLC finds it violated: a depth that is not counted, a yes
that opens a gate nobody saw, an event sent when it is queued, a webhook that fails
silently, an entry dropped by the first to leave, a look at the cache forgotten, a
watermark at the end of what could be folded, a slot released at once, a chain that
remembers one ancestor only, a stream that breaks off without taking its text back, any
late success closing a circuit, entries taken out of the sidecar instead of blanked, a
mismatch found without an alarm, a step deleted without validation, a node left on the
path of the cycle search, retention after a failure, a full batch taken for the last.

## 4. Theorems

19 580 obligations in eight modules, all proved; no fact is assumed but the named assumptions on
constants.

| theorem | for every | strengthening |
|---|---|---|
| `TypeCorrect` (`WorkflowTurn!TypeOK`) | set of definitions, depth, snapshots, retries, runs | `TypeInv`: a step that works belongs to a run; what is awaited is a step of the plan read before; between turns the session object equals the row |
| `NoPhantom` (`NoPhantomEvents`) | same | `EventInv`: at the hand-over everything pending is owed. An abort empties `pending`, so it cannot outlive its commit |
| `GateHolds` (`GateConfirmed`) | same, with edits at any time | `GateInv`: the first step of a turn works on the committed row (`FirstStep`), later steps hear silence, so a gate can open only in the first step of a turn, on a gate that was committed (`Confirmed`) |
| `Isolation` (`RunIsolation`) | same | `IsolationInv`: live data and every snapshot belong to the run, in the session object and in the row alike |
| `Honest` (`AnnouncedHonestly`) | same | `AnnounceInv`: nothing is queued while a turn works; at its commit what is queued is the announcement of its last step, of the turn's own run |
| `Implements` (`LivesAsPromised`) | same | `LifeInv`: a turn works on the run the database shows as open or, when there is none, on one begun last of which nothing is committed (`OwnRun`); runs are numbered as they begin; each action is mapped to a step of `TicketLife` or a stutter |
| `Awaited` (two conjuncts of `OnlyWhatWasAsked`) | same, with edits at any time | `WaitInv`: an open ticket was not completed, and whoever works was sent what the ticket waits for |
| `Asked` (`OnlyWhatWasAsked`) | definition that stands while the session lives (`~Edits`) | `AskInv`: a gate that is shown is the gate of the step the ticket is at (`GateAt`), in the session object and in the row; a turn that was denied has taken no step yet; after an unsure decision only a step that calls nothing is entered |
| `Serialized`, `NoLeak` (`TurnsSerialized`, `NothingLeaks`) | finite set of requests, any sessions, keys, slots, cache size | `LockInv`: everyone inside refers to the lock in the table under their key (`Referring`), its count is the number of those (`Counted`), whoever is in its turn holds it (`Held`), a lock not yet made is free (`Unmade`) |
| `Replies` (`RepliesSound`) | same | `OnceInv`: `LockInv`, and a computed response stays in the cache until it is dropped (`FreshKept`), so whoever found none under the lock is the first to compute one (`Alone`) |
| `SummaryHolds`, `PromptWhole`, `MemoryTyped` (`SummarySound`, `NothingForgotten`) | threshold, window, batch, skew ≤ window, row bound | `MemoryInv`: rows are numbered and distinct, a fold whose session is there holds the watermark and summary of the session (`FoldReads`), and reaches no further than the window allowed when it counted |
| `NoTurnOutlives` (`NothingOutlivesItsLock`), `StreamTyped` | queue size, number of events, either `wait_for` | `IInv`: a cancellation is pending only for a reader that is gone, and an orphan only of a timed-out turn |
| `OneVerdict` (`EndsWithVerdict`) | same | `StoryInv`: what was received, what the generator holds and what is queued tell, in this order, how far the producer is |
| `TrimSound` | budget, list of messages of any length and sizes | none: what `Trim` keeps, drops and leaves whole, by a least-counterexample argument over its two scans |
| `DeedsAreTold`, `DelegationEnds`, `TextIsCurrent`, `PromptsSound` (`DeedsTold`, `ChainBounded`, `NoStaleText`, `PromptSound`), from `Invariance` | agents, skills, tenants, histories, budget, rounds, depth | `Inv`: every turn of the stack but the last waits; a turn that works has started nothing, and when the model is asked or a call handled its streamed text has been taken back (`TurnInv`); its messages are a list the model can read but for as many replies as calls are still to do (`Ready`), which is what `Trim` needs to be given |
| `Spared` (`DeadTargetSpared`), `ClosedBelow`, `CallsTyped` | callers, services, mixes, threshold, window, recovery time | `BreakerInv`: an open circuit has rested as long as its clock says (`Rested`), what is sent has a target, and a closed circuit has counted fewer failures than open it |
| `IndexHolds`, `OwnAndLive`, `NothingLost` (`IndexSound`, `AnswersOwnAndLive`, `NothingMissed`), from `Invariance` | chunks, batches, sources, tenants, either store, models, number of jobs, rebuilds, failed embeddings and saves, restarts | `Token`: a mismatch is one flag, one task or one automatic rebuild. `Shape`: one writer names at a time. `Steady`: the vectors and ids a job is about to write agree, and so do the files wherever a restart may read them, or their save failed (`lagging`). `MissInv`: a committed row is in the store or on its way there, and so is it in what a restart would read (`Restorable`, `Saved`) |
| `TextWhole`, `TableWhole`, `CsvWhole`, `UploadHolds` (`UploadWhole`) | text, table, CSV file, size from the window on, overlap but one of a single character, boundaries, segmentation | none: a boundary lies within its window (`BoundaryIs`), so a piece starts beyond the one before and no later than that one's end (`PieceIs`); what the fold over lines or paragraphs holds never shrinks (`LineTaken`, `ParagraphTaken`); the filled columns, and the lines a cleaning leaves, are put in order by a bijection (`InOrderIs`) |
| `Accountability` (`Accountable`), `AccountsTyped` | number of registrations, names, roles, scopes, keys, stops | `RegInv`: a registration past its wait holds the lock; one that found no user still finds none, any other past its check carries an administrator's login (`Keeps`). `KeyInv`: keys are numbered as they are made, and no two alike |
| `RateHolds` (`RateKept`) | history of calls, callers, span, limit | `Kind`: a window is no longer than the limit and lists the times of its caller's admitted calls in their order, all of those in the span among them (`Tells`); counting it counts `Recent` |
| `DefinitionsHold`, `CycleCheckHolds` (`DefinitionsSound`, `CycleCheckExact`) | administrators, finite set of bodies, ids, tools, steps, requests, depth, any text of an order; integer routes under `Clear`, the cycle check under `AllClear` | `AdminInv`: the rows are well-formed, their ids among those given out, and what reads like an id in a name or route reads like one that was given out (`Shelf`, `KnownBy`); a request before its commit carries what it validated about what it read (`Carries`), and an id is left for it; no number is published ahead of the counter unless it was written back (`behind`) |
| `CheckIsExact` | well-routed definition in which no step is called like an integer that some route is (`AllClear`) | the validator's search finds a cycle exactly when the executor's descent through automatic steps need not end. What the search leaves behind as visited is closed under edges or a trap (`SearchIsExact`); its table of references is the executor's lookup (`TableIs`), its edges the executor's onward routes (`EdgesAreOnward`); without a cycle each descent uses up steps (`RunsOut`) |
| `AcceptedIsSound` | set of bodies `Accepts` lets through, fresh ids; what `Sound` says of an integer route it says of one no step is called like | none: giving the steps ids changes nothing the validator looked at (`Stored`), since no route can name an id that is not there yet |
| `Retention`, `Drained`, `Asking` (`RetentionSound`, `DeliveriesDrained`, `EveryoneAsked`) | number of backups, seconds, archives to keep, subscriptions, attempts, stops | `ProcessInv`: an archive in the making has one writer, under the name that writer opened (`Writers`); the archive of a backup nobody ran beside is touched by nobody else (`Lone`); a failure is one of a backup that ended (`FailuresEnded`); the subscriptions before the one being asked are settled and those after it untouched (`AtOne`) |
| `Purging` (`PurgeComplete`) | finite set of rows, any part of it expired, any batch | over the number of transactions: after each, what is gone is expired and what is left shrank by a full batch or is empty |

Why strengthening is needed at all: `TurnsSerialized` says nothing of the table, so a
state with two lock objects of one session satisfies it and the next `Acquire` does
not; `SummarySound` says nothing of a fold in flight whose base has moved; `RunIsolation`
says nothing of the committed row a rollback or an abort brings back; `EndsWithVerdict`
says nothing of an event still in the queue; `Accountable` says nothing of two
registrations that have both seen an empty table; `IndexSound` speaks of the store that
is open, not of the ids a job computed before another one wrote, nor of a sidecar that
a restart would read beside a longer index; `NothingMissed` is asked only when all is
quiet, and says nothing of a row between its commit and its place in the index;
`PromptSound` says nothing of a list in which a reply's calls are half answered;
`RetentionSound` says nothing of a writer that still has the name of an archive
retention removed; `DefinitionsSound` says nothing of a request that has validated and
not yet committed, nor of a name that becomes the id of a later step and takes over the
routes that meant the name.

Assumptions. `MemoryAssumption`: a row sorts before at most `RecentWindow` rows that
were there first. Clocks of one server that step back further than eight messages of
one session would break it, and the property with it. `~Reuse` is the hypothesis of the
memory theorems: without it they are false (`claim_forgotten`). `~Edits` is the
hypothesis of `Asked`: with it a denial may meet a step inserted before the gate, which
calls its tool (section 6). `LoopAssumption`: history holds what users and agents said
(`get_recent_messages` filters the roles), and a skill delegates to an agent that exists.
`IndexAssumption`: a chunk belongs to one source and a source to one tenant, a generated
id is not the blank one, an embedding has a dimension. `PurgeAssumption`: a table is
finite and a batch is not empty. `UploadAssumption`: a chunk is no smaller than the window of
a boundary (both are 50 at least in `upload_document`), and an overlap is not one, for which
the code does lose text (section 6); texts merged into one make an empty one only if there are none. `AdminAssumption`: ids (`uuid4`) differ, are not numbers
and suffice for the steps and requests of the bound; no step is named "None", for with one the
validator judges another step's safety than the executor reaches (section 6). `RateAssumption`: time does not fall along a history; the clock is
monotonic and read by coroutines of one loop, which do not wait before they take the lock. The other assumptions say that sentinels are not values
and that limits are numbers.

Induction. The library's induction theorems take an operator as a parameter, which no
installed prover can instantiate. What a scan, a count of transactions or a fold over
numbers, lines or paragraphs yields is proved without them: the set of the numbers at
which the claim fails is empty, because a least one (`NatLessThanWellFounded`, `WFMin`) would not be one. The
cycle search is a function that calls itself on fewer free steps: the same argument over
the number of free steps gives what it returns.

Only model-checked, and why: `StreamReadsTheSame` (recursive over the
reply) and `FusionSound`, pure operators tried on every input within bounds and not yet proved; and all liveness (`TurnEnds`, `EveryoneLeaves`, `GivesBack`,
`AnswerEnds`, `CallsGoThrough`, `Settles`, `RegistrationsAnswered`, `GoesOnAndEnds`), for
liveness under fairness and `ENABLED` are out of the prover's reach here. What is proved
of a purge, of the trimming and of the limiter is proved of the operators the runs
evaluate, not of a second definition.

## 5. What the models leave out

- Texts: prompts, cards, translations, the wording of answers. Keyword tests are kept
  as the classes of messages they make; a language model's verdict is a choice.
- Two turns of one session in parallel inside `WorkflowTurn` (excluded by
  `InvokeGuard`), several sessions (they share nothing there but the definition).
- The idempotency header over a workflow's own key, tenants of a guard key (a key is
  already a pair), the clock where any time may pass (expiry, time limits).
- The database: a commit is atomic; a cut during it has either outcome.
- Content of a summary; the token budget of a fold's batch is any number of rows from one on.
- Mapping of tool arguments and responses; the payloads of the model providers; the
  cached health report of a model (`llm_health.py`), which nothing else reads.
- Names with blanks at their ends (the validator strips some of them, section 6) and routes
  that are JSON booleans or fractions.
- A message of the model with both fields of reasoning at once.
- What `csv.Sniffer` guesses from odd files: the separator of a text is taken to be found,
  and a cell to hold no separator, quote or line break.
- Extraction of text from files of the other kinds, embeddings, the re-ranking model, the warm-up of a store.
- Lengths and formats of fields; listing and downloading; password hashing and token
  signing; the mode without authentication.
- What is inside an archive (the index and its sidecar are copied one after the other),
  temporary directories, an archive that cannot be unlinked; the drain of summary tasks,
  which is the same code as the dispatcher's.
- Secrets, audit log and localization, CRUD of configurations, migrations, clients:
  `not_modelled` in `PROJECT.json`, with the reason there.

## 6. Findings

One run ends in a violation of something the repository states. `claim_forgotten`: a
session deleted and opened again under the same id while a fold waits for the model
gets the summary of the deleted one, and loses its own first messages from every prompt.

Also met while modelling, without a run. Each is what the models do, too, unless it says
otherwise; where one limits a property, the property says so.

*Turns and requests*
- A request cut after its turn was committed caches nothing, so a retry with the same
  `Idempotency-Key` commits a second turn (`invoke.py:157-168`, against its docstring at 129).
- On Python 3.11 a cancellation that meets the end of the pipeline is dropped by
  `wait_for`; if a stalled client left the queue full, slot and lock are kept
  (`invoke.py:252`, `368-377`). A timed-out turn's roll-back may still run when the lock
  has been given back (the `orphan` of `StreamDelivery`).
- After a lost answer a client that sends its yes again, as the integration guide
  allows (8.2), opens a gate it was never shown (`workflow_executor.py:202`).
- With a step inserted before the gate a user is looking at, the no is handled by the
  inserted step, which may call its tool (`workflow_executor.py:1064`).
- The confirmation prompt offers "cancel" for editing while the cancel word leaves the
  workflow (`agent_runtime.py:1793`, `workflow_executor.py:731`); a form more than five
  steps back is trimmed from the snapshots; a run past its last step after a deletion
  answers that it is complete without a `complete` step; four webhook attempts of 30 s
  exceed the pipeline's 90 s.
- Turns that exceed the budget, are refused as risky or end in an apology are not
  recorded; a delegated agent that starts a workflow leaves it in a session nobody can
  reach; the action fallback replaces streamed text without taking it back.

*Calls*
- A half-open circuit lets every caller through (`circuit_breaker.py:22`, `66`), and a late
  success of a request sent before it opened closes it; the failure window is compared
  with the last failure only; an HTTP 4xx counts as a failure, an unreadable reply as a
  success. `chat_stream` takes a connection that ends without `[DONE]` as complete.
- A reply without text is answered from its reasoning. `chat_stream` reads that from
  `reasoning` or `reasoning_content` (`llm_adapter.py:555`), `chat` and `chat_with_tools` from
  `reasoning` only (328, 414), although the docstring of `chat_stream` says "mirroring the
  non-streaming reasoning-model handling above" (469): from a provider of the second field a
  reply that is streamed has an answer and the same reply whole has none. `StreamReadsTheSame`
  claims agreement for the other replies, and that these and no others are read apart.

*Knowledge*
- An overlap of one character with a long unbroken word loses up to 19 characters
  (`knowledge.py:685`); `UploadWhole` is stated of the other overlaps.
- The reset of a rebuild takes no write lock (`vector_rebuild.py:226`); a stop between
  index and sidecar (`vector_store.py:398`), an add after a mismatch, and an automatic
  rebuild that meets a manual one and returns with the flag cleared
  (`vector_rebuild.py:119-140`) leave rows unindexed: `cut` and `excused`.
- A deletion's job may run before the add of the same chunk and leave its id in the
  index; answers are joined with the rows, so it is not cited. An entry added to a source
  that is being deleted remains without it, `chunk_count` loses updates, a rebuild without
  rows resets nothing, and one on pgvector is reported complete though its writes failed.
- A save that raises is logged and dropped by the jobs (`knowledge.py:38`, `51`) and retried
  only by the automatic rebuild. The open index is complete, but a restart before the next
  save finds older or torn files (`vector_store.py:312-355`) and the committed rows are not
  found until a rebuild: `lagging`, which `Restart` turns into `excused`.
- A CSV file is cleaned as text before it is parsed (`knowledge.py:449`, `354-358`): blank
  lines at its ends go and several become one, so "Row 7" may be line 9 of the file; tabs
  become blanks, so a row of a tab-separated file is one cell and has no headers, although
  the sniffer after it is offered tabs. `CsvKept` is about the rows of the cleaned text.
- `_rrf_fuse` adds a share for every occurrence of a chunk in a list, not "for each list
  containing d" (`knowledge_retriever.py:159`). The index holds a chunk twice when a rebuild
  and the chunk's own job both add it; such a chunk may come before one that both channels
  found. `FusionSound` compares with chunks that came once.

*Administration and accounts*
- Edits that overlap can leave a live definition the executor cannot run and the
  validator then refuses every later edit of (`skewed`); a stale update writes the version
  back and the next publication fails on its number (`behind`). Published snapshots are
  not read by the executor.
- `next_step_rules` may give a target as a JSON integer. The validator looks up its text
  (`workflows.py:195`, `357-371`), among ids and names before orders; the executor compares
  the integer with ids and names, which are texts, and so reaches the order
  (`workflow_executor.py:1030-1043`), against the comment "Same precedence as the executor:
  stable ID, then name, then order." (`workflows.py:350`). Beside a step named "1" an automatic loop
  may be accepted that runs into the depth guard, or a harmless definition refused; a name "9"
  admits a route 9 that leads nowhere. `CycleCheckExact` and the soundness of
  what is accepted are stated of definitions in which no step is called like an integer
  route (`Clear`, `AllClear`); without that both are false.
- Names are compared stripped by the validator (`workflows.py:241`), raw by its own cycle check
  (359, 371), which then fails on the lookup, and raw by the executor. The validator looks
  the failure route of a decision up with `str(item.get("id"))` (`workflows.py:325`): steps
  that are not stored yet have no id, so a route to a step named "None" is judged by the
  first of them. `AdminAssumption` leaves such a name out.
- `get_db` commits after the handler; the limiter counts per process.

*Beside the requests*
- Archives of failed attempts are counted by retention, so "the newest 7" may hold fewer
  that can be restored; repeated failures let the directory grow, since only a success
  prunes. Two backups in one second share a file; overlapping ones may push out the one
  that finishes last; names of local time step back in autumn.
- A subscription disabled after the load is still posted to; a slow one delays the next;
  events are lost when the process stops between commit and hand-over, which the
  dispatcher's docstring accepts.
- The shutdown drains deliveries and summaries (`main.py:117`), nothing else: a backup thread may still
  copy the database after `engine.dispose()`, and the automatic rebuild's task
  (`vector_rebuild.py:121`), with a session of its own (`203`), may query it then.
  `DeliveriesDrained` is about deliveries; the rebuild's task is part of `KnowledgeIndex`
  only, where a stop may come between any two of its steps.

## 7. Plan

Done: everything in the table of section 1 but secrets, CRUD and clients.

What a next step would add, in this order:

1. Proofs: `StreamReadsTheSame`, with the interleavings written as a function;
   `FusionSound`.
2. Refinement: an abstract lock for `InvokeGuard`, an abstract map from chunks to
   vectors for `KnowledgeIndex`.
3. The health report of the models and the drain of summaries, if they come to share
   state with the rest.
