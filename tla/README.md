# Botpress server: TLA+ models and proofs

This directory holds a verification development of the Botpress 12 server
(`src/src/bp` and `src/modules`): TLA+ modules translated from the TypeScript
source, TLC configurations that check them on small instances, and proofs that
TLAPS checks. `PROJECT.json` is the machine-readable index: for each definition
the source lines it stands for, for each run its configuration and properties,
for each property a mutant of the model that breaks it, and the list of hazards.

Paths below are relative to `src/src/bp/` unless they start with `modules/`.

Contents: [1 The system](#1-the-system) ·
[2 Inventory](#2-inventory) · [3 Modules](#3-the-modules) ·
[4 Runs](#4-the-runs) · [5 Bounds](#5-bounds) · [6 Fairness](#6-fairness) ·
[7 Proofs](#7-proofs) · [8 Findings and observations](#8-findings-and-observations) ·
[9 Not modelled](#9-what-is-not-modelled) · [10 Plan](#10-plan) ·
[11 Running](#11-running-the-models)

## 1 The system

One Node.js process, the *web worker*, serves the bots; a *master* process forks
it and forks one *training worker* for each NLU training that finds none free.
All of the web worker runs on one event loop, so that the unit of atomicity of
every model here is **one run of the loop until the next `await`**, callback or
query. Two asynchronous activities interleave at those points only.

The path of a message, with the module that models each part:

```
 channel / Converse API / module
      |  sendEvent                                        Converse
      v
 incoming queue, one conversation at a time       ->      MemoryQueue  (implements ConversationFIFO)
      |  subscriber
      v
 before hook -> middleware chain with timers -> after hook   EventEngine (INSTANCEs ConversationFIFO)
      |                 |                       |
      | restore         | storeEvent            | decision engine
      v                 v                       v
 SessionState      EventCollector          DialogEngine
 (sessions,        (batch, flush,          (flows, nodes, instructions,
  janitor)          retries)                error flows) -> replyToEvent -> outgoing queue

 studio: bot mounts, edits, trainings, cancels          requests of the agents
      v                                                        v
 TrainingLifecycle (EXTENDS JobLock)                     Handoffs (HITL Next: a middleware of the
      |  status, models, bot states                        chain that pipes messages past the bot)
      v
 NLU engine -> TrainingQueue (web worker <-> master <-> training workers)

 studio: saves, renames, roll-backs of flows  ->  FlowEditing (EXTENDS GhostCache)
                                                    the flows DialogEngine runs
```

## 2 Inventory

For every component: its state, its operations, who it meets, what is hard about
it, and what makes it correct. Those that are modelled, all or in part, come first.

**Event queues** (`core/services/queue/memory-queue.ts`; modelled). State: the
array `_queue`, the map `_lock` of conversations, pending `setImmediate` ticks,
suspended `tick()` calls, the drain timer. Operations: `enqueue`, `dequeue`,
`cancelAll`, `peek`, `tick`, `subscribe`, `dispose`. Called by the event engine;
calls its subscribers. Hard: ticks, the drain timer and the settling of
subscribers interleave; a failed job goes back to the front while other ticks
are pending; a subscriber may never settle. Correct when the jobs of one
conversation are served one at a time and in order, none is lost or served twice
at a time, retries are bounded, wake-ups are never missing, and a conversation
that hangs does not hold the others.

**Event engine and middleware chain** (`core/services/middleware/event-engine.ts`,
`middleware.ts`, the hooks of `core/botpress.ts`; modelled). State: two sorted
lists of middleware, for each event a copy of the list, the position in it, a
timer, and what the handler answered. Operations: `register`,
`removeMiddleware`, `sendEvent`, the two subscribers, `MiddlewareChain.run`.
Hard: a handler may answer late, never, or throw, and goes on running after its
timer; the list changes while chains run; a failing event has its chain run
again. Correct when handlers run in order, one at a time as long as they answer
in time, none is skipped, a pause or a swallow is honoured, and every event is
settled.

**Converse API** (`core/services/converse.ts`; modelled). State: `_responseMap`
and the listeners for `done`, `action.start` and `action.end`, all keyed by user,
and a timer for each request. Hard: the request, its event, and the replies to
it (which go through another queue) are three activities that meet in state
shared by all requests of the user. Correct when each captured reply goes to one
request, an action is not cut short, and every request ends.

**Event collector** (`core/services/middleware/event-collector.ts`,
`core/repositories/events.ts`; modelled). State: the batch, the promise of the
flush under way, the interval, the table `events`. Operations: `storeEvent`,
`runTask`, `start`, `stop`, the transaction and the clean-up after it. Hard:
versions of an event race with a flush, a failed batch is put back behind newer
versions, Postgres refuses a batch with two versions of a row. Correct when the
last version of an event is not lost, rows do not go backwards, and an entry is
given up after three attempts, no sooner and no later.

**Dialog sessions, state manager, janitor** (`core/services/middleware/state-manager.ts`,
`core/repositories/sessions.ts`, `core/services/dialog/janitor.ts`; modelled but for
the attributes of the user). State: the rows of `dialog_sessions` with two expiry
dates; with `USE_REDIS_STATE` also a key of thirty seconds in Redis, a batch in
memory and the transaction that writes it. Operations: `restore`, `persist`,
`deleteDialogSession`, `_runTask`, the janitor's sweep. Hard: the janitor does not
go through the event queue, so that its reads and writes fall between those of an
event; a batch is written behind events, deletions, lapses and crashes. Correct
when turns and contexts are not lost or revived, and stale sessions are dealt with.

**Dialog engine** (`core/services/dialog/dialog-engine.ts`, `queue-builder.ts`,
`instruction/*.ts`; modelled). State: the context of the session (flow,
node, queue of instructions, jump points), the stack trace, for NDU bots the workflows and
the current one. Operations: `processEvent`, `processTimeout`, `_transition`, `jumpTo`,
`changeWorkflow`, the instruction strategies. Hard: mutual
recursion in which an exception is caught by whichever transition is innermost;
actions that change the context under the engine; loops without a wait; the status of workflows
kept apart from where the engine stands. Correct
when every event ends, loops included, instructions run are those of the node
where the session stands, a session is never stored at a node that does not
exist, and one workflow is active at a time.

**Decision engine** (`core/services/dialog/decision-engine.ts`; modelled, the election itself as
a choice). State: none of its own. Operations: `processEvent`, `processEventNDU`. Hard: suggestions that were
sent before a redirect is found to fail; its error flow; what is persisted of an event that failed.

**Training worker queue** (`nlu-core/training-worker-queue/index.ts`; modelled)
and **cluster master** (`cluster.ts`; its part in training). State: `readyWorkers`,
`activeWorkers`, waiting calls in the web worker; the list of forked workers and
`cluster.once('exit')` handlers in the master; the trainings under way in each
worker. Operations: `startTraining`, `cancelTraining`, and a handler for each
message. Hard: three kinds of processes, messages in flight when a worker is
killed, crashes, trainings that fail with two reports. Correct when a worker is
never given to two sessions, none is forgotten, trainings and cancels settle, and
a training resolves with its own model.

**Flow service** (`core/services/dialog/flow/service.ts`; modelled), on the **Ghost
file service** (`core/services/ghost/`), the **key-value store** and the roll-back of the **bot service**
(each as far as flows use it). State: files in the database or on the disk, the
cache of their bytes and of the objects parsed from them, `_allFlows`, a mutex row for each flow.
Operations: `loadAll`, `insertFlow`, `updateFlow`, `deleteFlow`, `renameFlow`, a roll-back, an edit
on the disk and the watcher that reports it. Hard: three caches, which reads fill
while saves invalidate them; a mutex tested and set by two queries; one flow that
cannot be read empties the answer. Correct when caches settle on what is stored, two editors
are not in one flow, and a bot is not taken for one without flows.

**NLU training life cycle** (`modules/nlu/src/backend`; modelled) on **locks**
(`core/services/job-service.ts`) and the mounts of the **bot service**. State: the bot
states, sessions with a status that is also a row of the key-value store, model files, loaded models,
the lock of a language. Operations: mount, unmount, `trainOrLoad`, cancel,
the announcement that a training is needed. Hard: the lock expires after five minutes and nothing
extends it, a cancel deletes it first, mounts and unmounts overlap, any step may throw.
Correct when one training of a language runs at a time, a status never says training for ever,
and a bot that is done serves the model of its definitions.

**HITL Next** (`modules/hitlnext/src/backend`; all but presence and comments).
State: the rows of the handoffs, the cache from threads to handoffs, the cache of
agents. Operations: create, tag, assign and resolve a handoff; piping a message; warming up.
Hard: requests read, then write, then tell the cache; messages look up, then read.
Correct when no message reaches another conversation and, at rest, each goes where the
table says.

The components that are not modelled, with what they would be checked for:

| component | state | what is hard |
|---|---|---|
| Broadcast (`modules/broadcast`) | outbox rows | sent and not removed; failed in the middle |
| Action service and servers (`core/services/action`) | caches, tasks | remote execution, time-outs |
| Hook service | script caches | a hook that never ends |
| Real-time, notifications | sockets | delivery is best effort |
| Logger persisters, data retention, monitoring | batches, counters | loss of a batch |
| CMS, configuration, workspaces, authentication, migrations, module loader | tables and files | sequential; caches like Ghost's |
| NLU and NDU engines, language server | models | numerical |
| Channels, other modules, user interfaces | - | I/O |

`PROJECT.json` lists them one by one, with the reason each is left out or when
it is planned.

## 3 The modules

Each module says in its header what it models. Histories (variables that no
guard reads, marked `history`) record what a property needs to know about the past.
Operators marked `Mutant of X` are no part of the model: they are the plausible
mistakes in `X` that the properties must reject.

### ConversationFIFO - what a queue promises

The abstract specification: each job is `new`, `waiting`, `serving`, or settled
(`done`, `abandoned`, `cancelled`, `taken`); a conversation that serves nothing
may serve the waiting job that arrived first; a failing job keeps its rank and
is served at most `MaxAttempts` times. It has no array, no locks, no ticks.

### MemoryQueue - how `memory-queue.ts` keeps that promise

| variable | code |
|---|---|
| `queue` | `_queue`: jobs wrapped with `retries` |
| `lock` | `_lock` |
| `ticks` | `setImmediate(() => this.tick())` callbacks not yet run |
| `calls` | `tick()` calls suspended in `Promise.mapSeries`, with the subscriber they await |
| `draining` | the drain timer has not been disposed of |
| `clock`, `arrival`, `fate`, `attempts` | histories |

| action | code |
|---|---|
| `Enqueue`, `Dequeue`, `CancelAll`, `Dispose` | the methods of those names |
| `Tick`, `Drain` | `tick()` up to its `await`, from a callback or from the timer |
| `NextSubscriber`, `Complete` | a subscriber resolves |
| `FailAndRetry`, `FailAndAbandon` | a subscriber rejects; `catch` and `finally` are one step, there is no `await` between them |

`Fifo == INSTANCE ConversationFIFO WITH status <- Status` is the refinement mapping:
`Status` is `serving` for the jobs in `calls` and `waiting` for the jobs in the array.
Each job is enqueued once: `event-engine.ts` calls `enqueue` with the retry count 1,
whence the constant `InitialRetries`.

### EventEngine - the subscribers and the chain

It runs on top of `ConversationFIFO`, instanced as `Q`, so what it shows holds of any queue
that keeps that promise. `direction` says which of the two queues of the engine a
behaviour is about (incoming or outgoing; they share nothing but the code).
For each event: `phase` (idle, before hook, chain, after hook), the copy `chain` of the list, `pos`,
`answer` and `timedOut` of the handler that `run()` awaits. `running` holds the
handlers that were called and have not answered; `late` those among them that
`run()` has given up.

`Register`/`RemoveMiddleware` are the two methods (stable sort included);
`SendEvent` and `Start` the two ends of the queue; `BeforeDone`/`BeforeFails` and
`AfterDone`/`AfterFails` the two hooks; `Answer`, `SetPause` and `TimerFires` what
happens while a handler is awaited; `NextHandler`, `Swallow` and `HandlerFails` the loop
of `run()` when the race is decided. Timer and answer are separate from the
continuation, because the code reads `timedOut` after the race: a timer that fires
between the answer and the continuation wins. `ChainInv` is inductive (section 7).

### Converse - requests that share a user's listeners

`req` is a request (outcome, timer, `actionRunning`, the entry it will answer with),
`event` its event in the engine, `onDone`/`onAction` the listeners,
`maps`/`entry` the response objects and which of them `_responseMap` holds (a
request that has resolved keeps a reference to its object, which may still
grow), `outgoing` the other queue. `SendMessage`, `SetTimer`, `TimerFires`, `DelayOver`
and `Finally` are the request; `StartEvent` ... `EndEvent` the event engine and the
dialog engine as far as Converse listens to them; `SendReply` the outgoing
chain with the capturing middleware.
`Patient` is an assumption about the client: it sends its next message when the
previous one was answered or failed.

### EventCollector - the write-behind batch

`batch` (entries in order, with their retries), `busy` (`currentPromise`), `flights`
(transactions under way), `rows` (the version of each event in the table). `database`
is chosen in `Init` and never changes: Postgres fails on a batch that has two
versions of an event, SQLite keeps the last. `RunTask` is the interval, `Commit`, `Abort`
and `Cleanup` the outcomes.

### SessionState - sessions between events, janitor and the batch

`row` is a row of `dialog_sessions`; a context is the number of the turn that left it and the
session data is the set of turns recorded, which is all the properties tell apart. `worker`
is the event under way (`Restore`, `SaveRead`, `SaveWrite`, `Give`): `persist` is a read and a write, two queries.
`janitor` is the sweep: `Sweep` deletes expired sessions, `List` reads the stale ones,
then for each `Timeout` (the timeout flow), `Reread` and `Reset`
(`_resetContext`). `Expire` is time; `DeleteDialogSession` an action or a hook.

`redis` (`useRedis`) is chosen in `Init`. With it, `PersistToRedis` sets the `key` of the
session and adds to the `batch`; `RunTask` takes elements out of it into a
transaction (`flight`), which for each reads the row (`FlushRead`) and updates it
(`FlushUpdate`), until `Commit` or `Abort`. On Postgres, which a cluster
needs, the reads of the transaction and its insertions take no part in it
(`sessionRepo.get` is not given `trx`, `insertAndRetrieve` ignores it), so that they see and do
what is committed; the updates lock their rows and are seen at the commit. `Expire` lets
keys lapse, `DeleteKey` is the second half of a deletion, `Crash` loses what is in memory.

### DialogEngine - flows and instructions

`ctx` is `event.state.context`, `stored` what was persisted; `workflows` and `kept` are the same of
the session's workflows. `Receive` is the restored state of a message, `Decide` the decision
engine (or the actions of the NDU engine), `Timeout` the janitor with a session whose context has expired. `pc` says
where the recursion stands: with the decision engine (`decide`), at the top of `processEvent` (`enter`), at
an instruction (`run`) or in `_transition`. `Finish` and `Abandoned` are the two ends of an event, for those who
called the engine; `EnterWorkflow` is `changeWorkflow` with the completion by a success or failure node. `catchers` counts the `.catch` of the
transitions taken: that is all of the call stack that matters, since every
`.catch` does the same (go to the error flow). Conditions, rendering and
actions are choices. A bot is data (`Bots`, given by `MCDialogEngine`): the model does not
invent flows, it runs those it is given. Actions that jump, fail or throw, red ports, catch-all
transitions, skill-call nodes, `#`, `##` and `END` are all there.

### TrainingQueue - three kinds of processes

`readyWorkers`, `activeWorkers`, `calls` and `cancels` are the web worker;
`toMaster` and `canceled` the two message queues between it and the master; `worker`
the training workers, with the reports on their way; `handlers` how many
`cluster.once('exit')` handlers wait in the master. Every handler of every message is an action;
so are `Boot` (which may fail), `Train` (which may throw), `Crash` and `Exit`.
A report settles all the calls that listen to the worker, one after the other; `PrepareForNextTraining` gives what
they leave behind (a second call of one session finds no entry left, `EntryOf`).
`Impatient` says whether the caller starts a session again while its worker is
still being created or a cancel of it waits.

### GhostCache and FlowEditing - three caches over one file

`GhostCache` is the state and the steps of the Ghost service, without an order: the
driver (`db` says which), the two caches, what `chokidar` has not reported. `FlowEditing` extends
it with those who take the steps.

| variable | code |
|---|---|
| `stored`, `db` | the files: a table with a `deleted` mark, or the disk |
| `buffers`, `objects` | the keys `buffer::` and `object::` of the memory cache |
| `allFlows` | `_allFlows` |
| `mutex` | the row of each flow in the key-value store, and whether it is younger than 30 s |
| `op` | requests of editors, roll-backs, edits on the disk: where each is between two awaits |
| `load` | calls of `loadAll`, with a read for each file |
| `notices` | changes the watcher has still to report |
| `crossed`, `doubt`, `listDoubt`, `late` | histories |

`TestMutex` and `SetMutex` are the two queries of `_testAndLockMutex`. A save is `Write`,
`InvalidateObject`, `InvalidateBuffer`, `Clear`, in that order; `Move` and `RemoveFolder`
invalidate nothing, as in the code. A read of a load looks a key up, gets it or reads the driver,
and fills the two caches in two steps. The contents of a file is the number of the operation that wrote it.

### JobLock and TrainingLifecycle - a bot's model

`JobLock` is one lock of the job service: it expires, it can be taken when it has, and `unlock`
deletes it whoever holds it. `TrainingLifecycle` is the language of a bot in the NLU module. `task` are the
functions that run, each with its next step; `bots` the bot states a mount makes, of which `current`
is the one registered; `row` the status in the key-value store; `stored` and `loaded` the models,
named after the version (`defs`) they were trained on; `active` the training in the engine.
`Fetch` ... `Release` are `trainOrLoad`; `Read`, `Decide`, `Announce` the check whether
a training is needed; `Clear`, `Tell`, `Mark`, `Kill` a cancel; the rest mounts, unmounts, `Edit`s
and `Restart`s. Every await that can throw has a step that does.

### Handoffs - conversations taken over by agents

`rows` is the table, `cache` and `agents` the two caches of the middleware. A `request` is
created by `Request` and goes on in the steps between its awaits: `Look` and `Insert` for a creation,
`Find` (which validates the transition) and `Update` for the others, then `Cache` or `Expire`. A
`message` that finds its thread in the cache is `Send`, and is piped by `Pipe`, which reads the
row again. `Evict` is the limits of the cache, `Restart` the warm-up. The thread that is made for an
agent has the number of the request that assigned the handoff.

### MC modules

`MCMemoryQueue`, `MCEventEngine` and `MCDialogEngine` give values to
function-valued constants; `MCFlowEditing` and `MCHandoffs` add the symmetry of the
editors and of the users. The other modules are checked as they are.

## 4 The runs

Twelve runs, of which two show a violation. "States" are distinct states; the longest takes about two and a half minutes.

| run | question | states |
|---|---|---|
| `memory_queue` | Does the queue keep a conversation's order and exclusion, lose nothing, wake up, and implement `ConversationFIFO`, with one conversation hanging? | 126 000 |
| `event_engine` | Do chains stay in order and complete while middleware come, go, answer late and fail; are pause and swallow final; does every event settle? | 261 000 |
| `converse` | Does each captured reply go to one request, no action get cut short, and every request end, for a patient client? | 520 000 |
| `event_collector` | Is the last version of each event kept through failing flushes, with the right number of attempts? | 123 000 |
| `session_state` | Do turns and contexts survive the janitor and, with Redis, the batch, its failures and crashes; are stale sessions dealt with? | 330 000 |
| `dialog_engine` | Does every event and time-out end, at a node that exists, with one active workflow, running the instructions of the node it is at? | 437 000 |
| `flow_editing` | Are two editors kept out of one flow; do the three caches settle on the files, in the database and on the disk? | 2 920 000 |
| `training_lifecycle` | Who trains at once, and with what status and model is a bot left by mounts, cancels, edits, expired locks, restarts and throws? | 2 040 000 |
| `handoffs` | Is every message piped within its conversation and, at rest, where the table says; does a handoff only go forward? | 1 760 000 |
| `training_queue` | Are workers never shared or forgotten, and do trainings and cancels settle, with crashes? | 1 027 000 |
| `event_engine_timeout` | (violation) Does a time-out stop processing? | - |
| `training_queue_twice` | (violation) Is a session trained once at a time? | - |

What the properties say, beyond types:

*memory_queue.* `OneAtATime`: at most one job of a conversation in process, and the
lock is held exactly then. `NoJobLost`: a live job is in the array once or in
process, not both. `RetriesBounded`: exactly `MaxAttempts` attempts before a job is abandoned.
`NoLostWakeup`: at least as many ticks are pending as there are conversations with a job
ready to be taken, so that the two-second drain timer is never what a
conversation waits for. `HungConversationsIsolated`: if the subscribers of a conversation settle, its
jobs have an outcome although another conversation hangs. `ImplementsFifo`: the refinement,
which says that the jobs of a conversation are served in the order of their arrival. `IInv`: the inductive invariant of the proofs.

*event_engine.* `ChainInv` (types and `OneHandlerAtATime`): no two handlers of a conversation run at once, given-up ones
aside. `NoneSkipped`: handlers are called in the order of their definitions, none twice in an attempt, and an event that was not swallowed has
met every middleware that was registered throughout. `PauseMutesTheBot`: an event
paused during its chain never reaches the decision engine, retries included.
`SwallowIsFinal`: an outgoing event that a channel took in time is handled no more - hence not sent twice.
`EventsSettle`: every event is done or abandoned, even if no handler ever answers.

*converse.* `RepliesInv` (types, what makes it inductive, and `EachReplyOnce`): a captured reply waits in the user's entry, or is in the answer of one
request, or was deleted with the entry of a request that failed; never two of these.
`ActionsNotCutShort`: a request does not time out during an action (unless the action began
before the request had read its time-out). `RequestsSettle`.

*event_collector.* `LastVersionKept`, `RowsNeverGoBack`: unless an entry of the event was put
back by a failed transaction, its last version is never lost or overwritten by an older one.
`BatchInv` (types and `GivenUpInTime`): three failed transactions with a version, neither more nor less.
`EventuallyFlushed`.

*session_state.* `TurnsKept`: a persisted turn stays in the session while it exists, and is in the row when no batch
is on its way there. `RowsInv` (types and `ContextNeverOld`): a session never falls back into
a context it had left. Both except what `raced` names, place by place: a turn persisted between the janitor's last read and its
write, a deletion in the middle of an event, a key that lapses before its batch is written or after it was lost, and an element that keeps
the context in a batch that changes it. `StaleSessionsHandled`.

*dialog_engine.* `EngineInv` (types and `EntriesBounded`): an event enters a node at most three times (plus the jumps of its actions).
`SessionSound`: the session never points at a node that does not exist (`StoredContextRunnable`; but when `FORCE_PERSIST_STATE`
persisted an event that failed) and the only active workflow is the current one (`OneWorkflowActive`; but after an event whose state came
out of Redis). `OwnInstructions`: the instruction run is the context's node's. `NotReentered`: a node that a subflow returned to takes its transitions
and does not enter the subflow again. `EventsEnd`.

*flow_editing.* `MutexInv` (inductive): who tested the mutex finds it free, who set it still owns it, and two editors are not
saving one flow, unless one of them is late: it tested before the other had set, or took more than thirty seconds. `CachesSettle`: when nothing is under way, what is cached of a
flow is what is stored, except the copies of a read that a change overtook, of a file renamed or removed with its folder and,
in the list, of a file edited on the disk (`doubt`, `listDoubt`). `EmptyOnlyIfCrossed`: `loadAll` answers with no flows only when
a change crossed it.

*training_lifecycle.* `LockInv` (inductive): a run under way has the lock, unless one has expired or was cleared by a cancel; only a run that
threw leaves the lock behind. `StatusSettles`: when nothing runs for a mounted bot, its status is not that of a training under way, and
`done` means that it serves the model of its definitions (unless training is disabled). `ServedWhenMounted`: then it has a state, and the model it
serves is loaded. What `crossings` excepts is said at each.

*handoffs.* `HandoffInv` (inductive): a thread is only cached with a handoff of its own, and a message is piped to the other side of its own
conversation, whatever happens to the handoff between look-up and reading. `RoutedAtRest`: when no request is under way, the user's messages
go to the agent, to nobody or to the bot as the table says, and the agent's to the user, unless the crossings were not `Harmless`.
`StatusForward`: pending, assigned, resolved.

*training_queue.* `WorkersInv` (types and `WorkersNotShared`): ready workers are distinct, inactive, and alive unless they crashed or
are about to be taken out; no worker is active for two sessions. `WorkersAccountedFor`: an idle worker can be reached by the queue
(`NoWorkerForgotten`), and a session refused as already started is being trained or its worker is gone (`BusyMeansTraining`). `OwnOutput`.
`NothingHangs`: when nothing is left to happen, no training on a living worker (`TrainingsSettle`) and no cancel
that kept its exit handler (`CancelsResolve`) still waits.

Each property of a passing run has a mutant: a plausible mistake in one definition
(a dropped guard, an off-by-one, a wrong end of the list, a forgotten reset), with which TLC finds
that property violated under the same configuration.

## 5 Bounds

- `memory_queue`: three jobs, two of one conversation, and one that hangs or not; two subscribers; two attempts.
  Two jobs are what order and exclusion are about, the third makes ticks of
  another conversation interleave. The theorems lift the bound.
- `event_engine`: incoming: one event, three middleware of which two have the same
  order, three registrations or removals. Outgoing: two events of one conversation, so that
  a late handler of the first meets the second; a fixed list. The two interesting cases are
  independent, and `MaxSent`/`MaxChanges` give each direction its own bound. Two attempts: a whole chain runs twice.
- `converse`: two requests, one reply, one instruction, two attempts. All sharing
  is between two requests; a third meets what the second left.
- `event_collector`: two ids, two versions, batches of two, three attempts: an older version
  in flight while a newer waits, batches with and without two versions of an id, and giving up.
- `session_state`: two sessions, so that a sweep has something left to do; two turns (events of both together), two expiries, one mishap (a deletion, a
  crash, a transaction or a read of Redis that fails). With Redis one of the sessions has events (`WithRedis`): rows of
  different sessions meet only in the sweep. The excuse of an element that keeps the context and that of a crash between the two halves of a deletion need
  three turns or two mishaps to matter; with these bounds and one session TLC finds that both are needed.
- `flow_editing`: two flows, one in a sub-folder (the watcher treats them differently); two operations of any kind by two
  editors, beside a load and the watcher, with both drivers: each race of the inventory is one of two operations and a load.
- `training_lifecycle`: three functions, two versions of the definitions, one restart and one throw. With a
  training, a cancel and a mount, or an unmount and a mount beside a training, each pair overlaps with a third.
- `handoffs`: two users, two agents of whom one is new, two handoffs, four requests (a life of a handoff is three, and a fourth crosses it), one message, one restart or eviction. Theorem `HandoffInvariance` lifts them.
- `dialog_engine`: three bots of four to six nodes, three events, two jumps. Together they have every kind
  of node and destination, a destination that does not exist, an error flow and none, a loop, a skill and a subflow, a timeout node,
  a timeout flow and none, and workflows with a child and an unrelated one.
- `training_queue`: two sessions, three starts (so that a worker is used twice and by
  another session), two cancels, one crash.

Bounds are guards (`MaxTurns`, `MaxJumps`, `MaxOps`, `MaxTasks`, ...) named in the
`CONSTANTS` of each module. Deadlock is not checked: each system may come to rest when its bounded
callers are done.

## 6 Fairness

| module | weakly fair | why |
|---|---|---|
| MemoryQueue | `Tick`; settling, for `Responsive` conversations | `setImmediate` callbacks run; a subscriber settles unless its conversation is the one assumed to hang. The drain timer is owed nothing. |
| EventEngine | `Start`, `Hook`, `TimerFires`, `Continue`, of each event | the queue serves (MemoryQueue shows it), hooks settle, timers fire, promises resume. **Handlers owe nothing.** |
| Converse | some `Settles(r)` | timers, the read of the configuration, `finally`; instructions end because actions have a time-out of their own (comment at `core/services/converse.ts:156`). Nothing is asked of middleware, hooks and queues. |
| EventCollector | `RunTask`, the outcome of a transaction | the interval fires, the database answers, well or not |
| SessionState | `Sweep`, `JanitorStep`, `FlushStep` | the janitor's interval fires, its queries and those of a transaction return (a transaction that fails is `Abort`). Events owe nothing. |
| DialogEngine | `ProcessEvent` | the promises of the decision and dialog engines settle |
| FlowEditing, TrainingLifecycle, Handoffs | none | their properties are of states at rest (`Quiet`, `AtRest`): what is true when every function that was called has returned. |
| TrainingQueue | none | its liveness is stated on quiet states (`Quiet`): when no message is on its way and no process runs, nobody may still be waiting. That needs no fairness and says more about where a call would hang. |

## 7 Proofs

What each proof assumes of the constants is the `ASSUME` of its module.

The theorems about a module `M` are in `MProofs`; those about `MemoryQueue` and `SessionState`, what carries a conversation
from one event to the next, are together in `ConversationProofs`, and those about `TrainingLifecycle` and `TrainingQueue`, the trainings of the
NLU module and the queue that runs them, in `TrainingProofs`; which is why the
specifications of the second ones are called `SessionSpec` and `QueueSpec`.

`ConversationProofs` proves of `MemoryQueue`, for any jobs, conversations, number of
subscribers and retry bounds satisfying `QueueAssumption` (finitely many
conversations; naturals; a conversation for each job):

| theorem | |
|---|---|
| `Invariance` | `Spec => []IInv` |
| `TypeCorrect` | `Spec => []TypeOK` |
| `MutualExclusion` | `Spec => []OneAtATime` |
| `NothingLost` | `Spec => []NoJobLost` |
| `ConversationOrder` | `Spec => []InOrder` |
| `BoundedRetries` | `Spec => []RetriesBounded` |
| `WakeupsSuffice` | `Spec => []NoLostWakeup` |

*The inductive invariant.* `InOrder` is not inductive: it says nothing about where
in the array a job is. What keeps it is that the array is sorted by arrival within a
conversation (`ArrayInOrder`) and that the job in process is older than those that wait
(`ServedIsOldest`), so that putting it back at the front keeps the array sorted; the latter
needs `OneAtATime` (only one job can come back) and `NoJobLost` (it is not in the array
already). New jobs are the youngest because the clock bounds all arrivals (`ArrivalsRanked`).
`RetriesBounded` needs that the `retries` carried by a wrapper equal the attempts made
(`RetriesCounted`). `IInv` is the conjunction; it is also checked by TLC. The proof has
one step for each action and, under it, one for each conjunct the action can disturb; lemmas
state what `RemoveAt`, prepending and filtering do to the array once.

*Wake-ups.* `NoLostWakeup` counts: `Cardinality(ReadyConvs) <= ticks`. An
`Enqueue` makes at most one conversation ready and schedules one tick; a `Tick` that
takes a job locks that conversation; a `Tick` that takes none proves there was none ready; a settled
job makes its conversation ready only if the array is not empty, and then `finally` schedules a tick. The
argument needs that the ready conversations form a finite set, hence `IsFiniteSet(Convs)`. The proof uses `IInv` at each step.

*Refinement.* The module also proves `Refinement`, `Spec => ImplementsFifo`. For each action one lemma says which step of
`ConversationFIFO` it is (`Tick` is `Serve` or nothing, `NextSubscriber` nothing, ...), on `IInv` in the state before and
after: `NoJobLost` says that `Status` moves for one job only, `ArrayInOrder` and `ServedIsOldest` that the job taken from the array is
the one `IsFirst` wants.

`EventEngineProofs` proves, for any events, conversations, middleware and orders, attempts and bounds:

| theorem | |
|---|---|
| `ChainInvariance` | `Spec => []ChainInv` |
| `CompleteChains` | `Spec => []NoneSkipped` |
| `PauseHolds` | `Spec => []PauseMutesTheBot` |
| `SentOnce` | `Spec => SwallowIsFinal` |

`OneHandlerAtATime` says nothing of which handler is at work; what keeps it is that a handler that is at work and was not given up is the one that
`run()` awaits, unanswered (`OnlyAwaited`), and that the queue serves one event of a conversation (`ServedOneByOne`). That no handler is skipped needs
that what was called is the beginning of the copied list (`SeenSoFar`), all of it when the loop was left without a swallow, and that
copies are sorted (`Ordered`), since registration inserts in order and removal shifts. A pause must be remembered over retries (`MutedStaysPaused`), and a
swallowed outgoing event is done (`SwallowedIsDone`). The proof regroups these by event (`EventOK`), so that an action has to be followed for
the one event it touches (`OneEventMoves`).

Of `SessionState`, `ConversationProofs` proves, for any sessions, numbers of events, expiries and mishaps, sizes of batches, with and without Redis:

| theorem | |
|---|---|
| `SessionInvHolds` | `SessionSpec => []SessionInv` |
| `RowsHold` | `SessionSpec => []RowsInv` |
| `TurnsKeptHolds` | `SessionSpec => []TurnsKept` |

`TurnsKept` looks at one place, Redis or the row; a turn is on its way through five. `SessionInv` follows it. For a session that
was not `raced` (`Whole`), what an event is at work on and what Redis has is all that was persisted (`EventHasAll`, `KeyHasAll`); what
the janitor is about to write back is what the row has (`JanitorHasRow`); and what the row will hold when everything is
written is all of it: the persisted turns are in the newest element of the batch, or, when it has none of that session, in the newest of the transaction, or in what the
transaction has updated, or in the row (`RowWillHaveTurns`). The context is followed in the same way through the newest element that changes it
(`RowWillHaveContext`). `Forms` says how the parts fit together whoever raced: a row that the transaction has locked exists, and with Redis no event writes a row. The proof has a lemma
for each action that says what it does to each part, frame lemmas for what it leaves alone, and one lemma for each pair of an
action and what it keeps; the lemmas on sequences say which element is newest when a batch grows (`persist`), is cut in two (`_runTask`) or loses its
first element (an update).

`FlowEditingProofs` proves `MutexInvariance`, `Spec => []MutexInv`, for any flows, editors, loaders and operations. That two editors are not between the mutex
and the file of one flow follows from what each knows: one that tested the mutex knows that it is free for it (`TestedIsFree`), one that
set it that it is its own and has not expired (`SetIsOwned`), each unless it was late, that is, another set the mutex in between or it ran out. `RequestsSound` says who takes a mutex at all.

`EmptyWhenCrossed`, `Spec => []EmptyOnlyIfCrossed`: a file that a load listed is still there, unless a change crossed the load (`ReadsSound`).
`CachesSettleHolds`, `Spec => []CachesSettle`, needs what is true when not all is at rest (`SettleInv`): any copy of a file that is not in `doubt` - the object, the
buffer, the value a read carries, what a load has gathered, the list - is what is stored, or an operation that has changed the file is about to
invalidate that copy (`CopiesFresh`, `GatheredFresh`, `ListFresh`). The order of `invalidateFile` and the watcher's notice enter here: a read may refill the object from
a buffer that is not invalidated yet, and only then is the buffer removed.

Of `TrainingLifecycle`, `TrainingProofs` proves `LockInvariance`, `Spec => []LockInv`, for any number of tasks and versions and any
bounds. `LockInv` is inductive: the types; every model that is loaded or stored is of a version that was defined
(`ModelsKnown`); a lock that nobody holds was left by a run that threw (`LockLeftOnlyByThrow`); a run under way holds the
lock unless it expired or a cancel deleted it (`RunsHoldTheLock`); and a cancel that has not yet killed its training took the lock of
that language (`CancelsTakeTheLock`). What it means: with no expiry, cancel or throw, a language is trained by one function at a time.

`StatusSettlesHolds` and `ServedWhenMountedHolds` are about states at rest, and need what every function under way will still do (`LifeInv`). Beside `LockInv`: what kind of function is
at which step (`TasksInv`); unless mounts overlapped, one function mounts or unmounts at a time, the bot has a state, and what it serves is loaded (`MountsInv`); a
status of a training under way will be written again, by a run that trains, or is about to find out whether it does, or else it is left from before a restart and the bot is not up yet (`Rewritten`); and while nothing
but the lock has disturbed it, `done` means the model of the definitions, and a run that is about to write `done` has loaded it (`DoneInv`).

Of `TrainingQueue`, `TrainingProofs` proves, for any sessions and any numbers of starts, cancels and crashes:

| theorem | |
|---|---|
| `QueueInvHolds` | `QueueSpec => []QueueInv` |
| `WorkersInvHolds` | `QueueSpec => []WorkersInv` |
| `WorkersAccountedForHolds` | `QueueSpec => []WorkersAccountedFor` |
| `OwnOutputHolds` | `QueueSpec => []OwnOutput` |
| `NothingHangsHolds` | `QueueSpec => []NothingHangs` |

each for callers that are not `Impatient`: they start a session only when no worker is being created for it and no cancel of it waits. That is not a
convenience: run `training_queue_twice` and finding 2 show what happens otherwise. `QueueInv` is an account of three processes. Of the web process: a call that waits for a
worker has no active one, one that trains has its own, and the ready workers are distinct and not active (`CallsKnown`, `WorkersApart`). Of the
messages: at most one worker is being made for a session, by a message or a process that has not reported yet, and a call waits for it
(`Creations`), so that a report of readiness finds exactly that call; whoever the queue or a message names has reported (`Introductions`); a worker
that was killed without a crash has been left by the queue or its cancel still waits (`Kills`), which is what the filter at the end of a
cancel is for. Of a worker on which no training failed: at most one of the start message, the job and the report is there, of the call that trains on it
(`OneTraining`), which gives `OwnOutput`; that is where a training that throws, and reports twice, breaks the account. And what a call
or a cancel waits for is on its way (`TrainingsHeard`, `CancelsHeard`), which on quiet states is `NothingHangs`. The proof first says in one lemma for each action which
of a dozen effects it has (`QueueStep`), and then has one lemma for each conjunct.

`HandoffsProofs` proves `HandoffInvariance`, `Spec => []HandoffInv`, for any users, agents and bounds. `NoCrossTalk` - a message is piped to
the other side of its own conversation - is not inductive: a message finds its handoff in one step and reads
its row in another. It needs that a thread is only cached with a handoff it belongs to (`CachedUnderItsThread`), which needs that the requests
that will write the cache know their handoff's threads (`RequestsKnow`), and that the user of a row never changes and its agent's thread, once
given, neither (the lemmas `UsersStay` and `ThreadsStay`); `ThreadsOwned` makes threads of different handoffs differ.

`StatusGoesForward`, `Spec => StatusForward`: a request validates the transition in one step and makes it in another, so that no two assignments of one
conversation are under way together, else the pair is in `crossings`, and what was validated still holds at the update (`StatusInv`). `RoutesAtRest`,
`Spec => []RoutedAtRest`: while the crossings are `Harmless`, the requests of one conversation that are under way exclude each other but for harmless pairs (`Apart`), a user has one active handoff
at most (`OneActive`), and a thread is cached as the table says, or a request is going to cache it or to expire it (`UserCached`,
`AgentCached`, `Goes`). The proof is long because each of the four requests has to be followed beside each other one. It assumes that names of agents are no numbers.

`ConverseProofs` proves `RepliesGivenOnce`, `Spec => []RepliesInv` when `Patient`, for any numbers of requests, replies, instructions and attempts. `EachReplyOnce`
counts answers and is not inductive. A client that waits has one request open (`OneOpen`), and what that request resolves with is the entry that is there
(`ResolvedWithEntry`), because only `finally` removes the entry, and it removes the request. A reply is sent with a number of its own (`Sent`), so that it is captured once,
in one entry (`CapturedOnce`). Then `GivenOnce`: what is in the entry of the user was given to nobody, and what is in an entry that is gone was given,
all of it, to one answer or deleted (`dropped`); this is what `Finally` does in one step, and no other step touches. Replies that come
late are no exception: they make an entry for the next request. Without `Patient` the first two fail.

`NotCutShort`, `Spec => ActionsNotCutShort` when `Patient`: one event of the user is processed at a time (`OneBusy`), and the listener of a request that has its timer is still there (`ActionsHeard`), so that
it heard of the action when it began.

`EventCollectorProofs` proves, for any ids, versions, batch sizes, retry bounds and both databases, `GivenUp` (`Spec => []BatchInv`), `LastKept`
(`Spec => []LastVersionKept`) and `RowsForward` (`Spec => RowsNeverGoBack`). `CollectInv` says that one transaction is under way, and `busy` then (`OneFlight`); that the
retries of an entry are the failures counted of its version (`EntriesCounted`), from which `GivenUpInTime` follows; and that an event of which nothing was put back has one entry in the batch
at most and one in the transaction, the latter older than the former and both newer than the row
(`InTurn`), so that what is written last is the newest. `LastVersionKept` is itself a conjunct: an entry of the last version is somewhere.

`DialogEngineProofs` proves, for any set of bots (`IsBot`: nodes are of flows that the bot has, and flows have names), any numbers of events and jumps:

| theorem | |
|---|---|
| `EngineInvHolds` | `Spec => []EngineInv` |
| `SessionSoundHolds` | `Spec => []SessionSound` |
| `OwnInstructionsHold` | `Spec => []OwnInstructions` |
| `NotReenteredHolds` | `Spec => NotReentered` |

`EntriesBounded` is inductive once it is known when the stack trace is empty (`VisitsInv`); `StoredContextRunnable` is about what is stored, and needs that the
node of the context exists wherever an instruction runs or a transition is taken (`StandsInv`). `OwnInstructions` needs that a queue made for a node
is what is run until the node is left (`FollowsInv`): that is where a jump by an action would break it, but for the `jumped` mark that makes the engine rebuild the
queue. `ReturnInv` says that the node returned to is marked by its jump point until it takes a transition. What a queue keeps of a node's instructions is a selection by a
recursive function (`SelectIn`); the lemma on it goes by the least counterexample, from the well-foundedness of `<`, since the
rule of induction cannot be used.

The proofs have one step for each action and lemmas for what record updates do to the types.

*Only model-checked:* liveness (`HungConversationsIsolated`, `EventsSettle`, `RequestsSettle`, `EventuallyFlushed`,
`StaleSessionsHandled`, `EventsEnd`), since TLAPS has no `ENABLED`. All other properties of the passing runs are proved.

## 8 Findings and observations

*Findings*, each shown by a run and detailed in `PROJECT.json`:

1. `event_engine_timeout`: after a handler's time-out the chain goes on, although
   the SDK's documentation says that processing stops.
2. `training_queue_twice`: `startTraining` does not refuse a session whose worker is
   still being created.

*Observations*, met while modelling and kept out of the properties by a named condition, or by the assumptions of a run:

- Converse: the clean-up of a request removes the listeners of all requests of that user; another one, if an instruction is
  under way, waits for ever. After a request that timed out, the next is answered with the replies to the message before it; for clients that
  do not wait, a reply may be in two answers. A message that does not validate makes `sendMessage` throw before its `finally`, outside
  production, and leaves its listener.
- Event collector: on Postgres, one failed transaction may put back an older version next to a newer one; the
  batches that contain both fail until it is given up, and other events in them lose
  attempts (`GivenUpInTime` counts these). On SQLite, or in the next batch, the older
  version overwrites the newer: hence `requeued` in two properties.
- Sessions: a turn persisted between `_resetContext`'s read and write is lost, and a context that was refreshed meanwhile is reset all the
  same (`raced`). A session deleted during its timeout flow ends the sweep for all sessions behind it; they
  are dealt with by the next sweep.
- Sessions in Redis: the reads and insertions of the batch's transaction take no part in it, so that an element that keeps the context, behind one
  of the same batch that changes it, writes the old context back. A batch that fails, or a crash, loses its elements but for
  the thirty seconds of the key. A deletion during an event, or with elements in the batch, is undone by the flush; a key that lapses before its
  batch is written brings an older state back.
- Dialog engine: an instruction that throws right behind a jump of an action leaves the
  old node's queue in the session (`Matches(stored)`); the decision engine's `error` flow is looked up
  under a name that no flow has; skill-call nodes calling each other recurse without the loop detection seeing it
  (no bot of the run has such a cycle); jump points of flows left for good accumulate. A timeout flow that waits leaves the context as it was
  before it, because the janitor writes back the row: the answer goes to the old node.
- Decision engine: `FORCE_PERSIST_STATE`, which the hook `05_extract_slots` of `modules/basic-skills` sets, may persist a context at
  a node that does not exist, after which every event of the session fails until its context expires (`stranded`). A suggestion that redirects to
  a flow that is missing throws after its answer was sent; the queue tries the event again, and the answer is sent again.
- Workflows: a state out of Redis lacks `workflow` (`state-manager.ts:72-77` returns before the getter is defined), so a change of workflow then leaves
  the previous one active (`bare`). Leaving a known workflow for an unrelated one records only the end of the old. A skill's flow run inside a workflow
  completes that workflow, since its name does not begin with the workflow's; a success node completes the workflow that was current before its flow was entered.
- Flow service: `renameFile` and `deleteFolder` invalidate nothing (`doubt`), the list of flows is not told of edits on the disk when the watcher looks at
  a sub-folder only (`listDoubt`); `loadAll` answers with no flow at all when one cannot be read, which happens when it is deleted between listing and
  reading; the mutex is tested and set by two queries, so that two editors may both get it.
- NLU: a run that outlives an unmount keeps the lock from the next mount, which leaves the status `done` of the run and no model loaded. A throw
  while models are listed or read leaves the lock, which is never extended, for its five minutes. An edit during a training is not announced. `canceled` may
  overwrite `done`. With `BP_NLU_DISABLE_TRAINING` the status becomes `done` without a model. `sdk/botpress.d.ts:2093-2096` says that a lock protects the
  training; `on-bot-mount.ts:171` deletes it before the training is cancelled.
- Training queue: a training that throws reports twice, and the second report settles the next
  training of that worker without output (`failed`, in `OwnOutput`). `cluster.once('exit')` reacts to whichever process
  exits first, so a cancel may hang (`robbed`). A worker that crashes or does not boot
  leaves its call pending. A session started again while its cancel waits loses its new entry, and an undefined
  worker gets into `readyWorkers` (excluded in `training_queue` by `Impatient = FALSE`).
- HITL Next: the thread of the agent stays cached when a handoff is resolved, so that the agent's messages still reach the user, against the comment "Only active
  handoffs are cached" (`modules/hitlnext/src/backend/middleware.ts:146`); tags cache a resolved handoff again; an entry lapses after one day, whereupon messages go to the
  bot; agents added after the start are not in the cache and their messages throw; two requests that overlap create two active handoffs.

## 9 What is not modelled

Within the modelled components: formatting, logging, metrics, and
`event.steps`; which suggestion is elected (confidence, repeat policy), a node's own `timeout` property, an error flow named by
`onErrorFlowTo`, the fields NDU's workflows carry, the debugger's error list (DialogEngine); the attributes of the user (SessionState); catch-all
`onReceive` instructions (they are instructions of a node, in the bot's data); listeners called by the janitor's
timeout flows (Converse); progress and log messages (TrainingQueue); the master's reboot of the web worker; revisions of the Ghost service and
the synchronisation of its two drivers; several web workers, and with them the broadcast of invalidations and Redis locks (a Pro feature whose code is not here);
presence of agents and comments (Handoffs).

Other components: those of the second table of section 2. Pure I/O, user interfaces, numerical code
and start-up scripts are out of scope; the others are planned below.

## 10 Plan

Done: the path of a message (queue, engine, collector, sessions with Redis, decision and dialog engines,
Converse), the training queue and the life of a bot's model, handoffs, the flow service on its caches, and the proofs of section 7.
In the order in which they are worth doing:

1. **Outbox** (Broadcast): send, then remove, with failures in between.
2. **BotService**: stages, revisions, mounting in several processes; **Cluster**: the reboot of the web worker.
3. **Sessions**: the attributes of the user; **Handoffs**: presence.

Proofs: whatever a new module checks, with its inductive invariant; the lemmas on sequences that several proof modules state
each for itself.

A new run will replace or absorb an existing one where that is implied by another, rather than add to their number.

## 11 Running the models

    tlc -config MemoryQueue.cfg MCMemoryQueue.tla
    tlc -config EventEngine.cfg MCEventEngine.tla
    tlc -config DialogEngine.cfg MCDialogEngine.tla
    tlc -config FlowEditing.cfg MCFlowEditing.tla
    tlc -config Handoffs.cfg MCHandoffs.tla
    tlc -config Converse.cfg Converse.tla               # and so on: X.cfg checks X.tla
    tlc -config TrainingQueueTwice.cfg TrainingQueue.tla # reports a counterexample
    tlapm ConversationProofs.tla                         # and the other *Proofs.tla

The community modules `SequencesExt` and `Functions` and the TLAPS library must be on the library path.
