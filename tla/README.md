# Agent State Ledger: TLA+ models and proofs

The Agent State Ledger is a FastAPI service between AI agents and the tools
they call. It keeps one session object per agent in memory, filters tool output
to a token budget, saves sessions as numbered snapshots in SQLite, and rolls a
session back to one of its snapshots, on request or when the agent drifts from
its declared intent. Everything runs in one process, on one asyncio event loop.

This directory models the service in TLA+, checks small instances with TLC and
proves the main results about the snapshot engine, the program on top of it, its durability,
the token budget, the tiers of disclosure, the sandbox and the rate limiter with TLAPS. Paths below are relative to `src/src/agent_state_ledger/` unless they start with `src/`.

## 1. Inventory

| Component | Code | State it keeps | Operations | Modelled |
|---|---|---|---|---|
| Session store | `router/session_store.py` | `_sessions` (id -> mutable object), one asyncio lock per session | create, get, update, restore, terminate, delete, list, budget | `SessionStore`, `StateRouter` |
| Snapshot store | `snapshot/store.py` | tables `snapshots`, `rollback_audit`, `session_metadata`; one shared connection | open, close, save, load, list, prune, purge, save audit record | `SnapshotStore`, `SnapshotEngine`; the connection in `Durability` |
| Snapshot engine | `snapshot/engine.py` | `_session_generations`, `_dirty_sessions`, `_session_locks`, last-checkpoint times, hash ring, maintenance task | start, stop, checkpoint, maybe_checkpoint, rollback, auto_rollback, flush, maintenance loop | `SnapshotEngine`; start, stop and crash in `Durability`; not the ring |
| State Router | `router/routes.py` | none of its own | create and delete session, tool call, manual rollback, JSON-RPC, reads | `StateRouter`; JSON-RPC in `TokenBudget` |
| Deviation score, loop detection | `router/routes.py:450-512` | `intent_deviation_score`, `tool_call_history` | per tool call | `TokenBudget`; as a choice in `StateRouter` |
| Data models | `models.py` | - | validation | as records |
| Progressive disclosure | `router/context_filter.py` | none (pure) | choose a tier, transform the payload | `ContextFilter`, `TokenBudget` |
| Middleware | `router/middleware.py` | request windows per agent | trace id, metrics, size limit, rate limit | `RateLimiter`; not the other layers |
| Sandbox executor | `sandbox/executor.py` | cached seccomp profile; containers live in Docker | run, pull, check | `Sandbox` (run) |
| Sandbox image | `src/sandbox/*.py` | none | one tool call per container | exit codes in `Sandbox` |
| Application | `router/main.py` | - | start-up and shutdown order | `Durability` |
| Monitor | `snapshot/monitor.py` | - | read-only dashboard | no |
| Configuration, logging | `config.py`, `logging_setup.py` | - | - | as constants; a log record is a suspension point |

### How the components interact

* A handler reads a session object from the store and **keeps the reference**
  while it awaits the engine. `restore_session` puts a *new* object into the
  dictionary, so that a rollback leaves other coroutines with a stale one.
* The session lock (`SessionStore.session_lock`) guards the tool call's charge
  and `terminate_session`. The engine lock (`_session_locks`) guards checkpoint
  and rollback. They are independent, FIFO and not re-entrant.
* The maintenance loop flushes dirty sessions through `checkpoint`, as any
  request does, and purges expired rows without a lock.
* All coroutines share one SQLite connection; its statements are executed one
  after the other by the connection's thread. The first statement that writes opens
  a transaction, any coroutine's commit commits the statements of all, and an error
  that makes SQLite roll back takes the uncommitted statements of all.
* The lifespan starts the engine before it takes requests and stops it after: the
  maintenance task is cancelled, what is dirty is flushed, the connection is closed.
* Every request passes the rate limiter first. The sandbox executor is called by
  nobody in the service; it talks to Docker through child processes.

### What is hard about it

A coroutine suspends at every SQL statement and at every log record, so that a
checkpoint has six places, and a rollback four, where other requests and the
maintenance loop run. What was read before such a place (the session object,
the encoded image, the list of generations, the counter) may be stale after it.
Any statement may fail; the code never rolls back, SQLite does when a statement or a
commit meets a full disk or an I/O error, and then the work of every coroutine since the
last commit is gone. Pruning, the retention purge,
the rollback of the counter and the reuse of generations all meet on the primary
key `(session_id, generation)`. A shutdown cancels coroutines between a
statement and its commit, a crash forgets what was not committed, and a restart
takes its counters from what is left. A container outlives the process that started
it, and a timeout may fire before it runs or after it has ended. `PROJECT.json` lists these hazards with their
lines and the properties that watch them.

### What makes each component correct

* **Session store**: no session exceeds its step budget; a terminated session
  stays so; memory holds what a rollback restored while it is being recorded.
* **Snapshot store**: a row is never overwritten; pruning keeps the newest rows
  and exactly as many as configured; the audit log only grows.
* **Snapshot engine**: one writer per session; generations are unique and without
  holes; the counter agrees with the rows whatever fails; what is dirty is eventually
  saved, unless it was marked during a save of its session (the code loses that mark,
  section 5); every call returns.
* **State Router**: what it does to the engine is within what the engine expects;
  a finished request leaves the session in the documented state.
* **Disclosure and deviation score**: the budget reported is the budget left; a
  result that does not fit goes out in a tier that does; a tier keeps its caps; the
  score stays near what the budgets explain, and drift ends a session before the
  step budget does.
* **Process life**: what returned survives a crash; the file is an append-only ledger
  without holes; both but for what an error of another call has rolled back; a stop that
  meets no error saves every dirty session whose next generation is free, and ends.
* **Rate limiter**: a bound on the requests in any 60 seconds; a client that waits as
  told is let in.
* **Sandbox**: no container outlives its call; what is reported is the tool's; every
  call ends; no container without its seccomp profile.

## 2. Modules

```
SessionStore --> SnapshotStore --> SnapshotEngine --> StateRouter --> DocumentedClaims --> MCStateRouter
                                        |                  |
                                        |                  +--> StateRouterProofs (theorems)
                                        |                  |
                                        +--> SnapshotEngineProofs (theorems)

ContextFilter ----------------------+
                                    +--> MCTokenBudget --> ContextFilterProofs (theorems)
TokenBudget --(Outputs, Cost)-------+
     |
     +--> TokenBudgetProofs (theorems)

Durability --> DurabilityProofs      Sandbox --> SandboxProofs
     |
     +--(INSTANCE, refinement)--> Ledger      RateLimiter --> RateLimiterProofs
                                    ^
SnapshotEngine --(INSTANCE)---------+
```

Each module of the first chain EXTENDS the one before it. `MCTokenBudget` EXTENDS
`ContextFilter` and `TokenBudget`, and gives the constants of the latter the prices
that the transformations of the former make of seven payload shapes.

**SessionStore.** `sess[s]` is the registered object (status, step count, and
whether the deviation score reaches the threshold: the only comparison the
program makes with it). `INITIALIZING` stands for "not registered";
`SUSPENDED` is never assigned by the code. `ref[c]` is the reference a coroutine
keeps: a session id while the object is the registered one, a frozen record once
a rollback has replaced it (nobody writes to such an object again: every charge
reads the registered one). So stale references are explicit.

**SnapshotStore.** The tables as sets and a sequence. One operator per statement.
`expired` marks the rows older than the retention cutoff; only `TimePasses`, the
clock, adds to it.

**SnapshotEngine.** One action per stretch between two suspension points. `op[c].pc`
names what coroutine `c` awaits:

| pc | awaits | code (`snapshot/engine.py`) |
|---|---|---|
| `ckpt_lock`, `rb_lock` | the engine lock | 216, 352 |
| `insert` | the INSERT of the snapshot | 224 (`store.py:283`) |
| `commit` | the metadata upsert and the commit | `store.py:303-315` |
| `list_old`, `delete_old` | the two statements of the prune | 247 (`store.py:439-450`) |
| `ckpt_log`, `ckpt_err` | the last log record, then return or raise | 252, 231 |
| `load` | the SELECT of the target row | 357 |
| `audit` | the INSERT of the audit record and its commit | 376 |
| `rb_log` | the last log record | 385 |
| `auto_list`, `auto_scan` | the statements that choose a target, no lock held | 416, 430 |

`lockq[s]` is an asyncio lock: its head holds it, the rest waits in order. A lock
that is free is taken without suspending, so `Checkpoint` and `Rollback` go on
to the first statement in the same step. `sweep` and `todo` are the maintenance loop.
`EngineSpec` lets arbitrary callers call any operation of the engine at any time and
do anything to the sessions; it is the specification the theorems are about.

**StateRouter.** The callers the program has. `req[t]` is the request a task serves,
`slock[s]` the holder of the session lock. The region of a tool call under the
session lock contains no await that suspends, so it is one step (`Charge`), and
the lock is observable only in the exhausted branch. `recent` is the interval clock of
`maybe_checkpoint`: the sessions whose last checkpoint (`Timestamp`) may still be younger
than `checkpoint_interval_seconds`. Only they are marked dirty; a session without an entry
is checkpointed, as in the code, where its last time is 0.0. Each handler of `routes.py`
is an arrival action and, where it awaits the engine, a continuation
(`Genesis`, `ToolResumes`, `Terminate`). Requests that change nothing (a 404, 403, 409
or a read) are not steps.

**DocumentedClaims.** What documents and comments say and the code does not do, one
definition per claim, with the quotation.

**MCStateRouter** adds the symmetry set; **SnapshotEngineProofs** the theorems
about the engine for arbitrary callers; **StateRouterProofs**, on top of it, those about the
program.

**ContextFilter.** The five transformations of `router/context_filter.py` as
operators and recursive functions, and the token estimate (`char_approx`, the
default). A payload is kept up to what these tell apart: the *lengths* of its
strings, whether a string matches the base64 pattern, and the nesting. A list of
200 equal elements is one run `[k |-> 200, v |-> ...]`, so that a large payload
stays small. The JSON encoding is modelled by its length. What is left out: bytes
and objects that are not JSON (the endpoints take JSON only), escapes in strings, the
whitespace and tiktoken counters, the metrics record.

**TokenBudget.** One session and its calls, one after the other. `session` has the
counters of `AgentSession` (tokens, steps, score, history), `saved` those of its newest
snapshot below the threshold, which is what `auto_rollback` restores, `reply` the last
`FilteredToolCallOutput`. `ToolCall` is the whole handler: filter, charge, history,
loop penalty, score, then rollback or a checkpoint that may or may not be due.
`JsonRpc` is the endpoint that filters with the same budget and stores nothing.
Outputs, prices, budgets, window, threshold and scale are constants, so that the
theorems hold for every payload and every transformation.

**Durability.** The same engine seen from the file. `table` is what the connection
sees, `disk` what the last commit left: statements change the one, `CommitAll` (whoever
calls it) copies the one to the other, a crash the other to the one. A database error
(`Fault`) undoes its own statement, or puts `table` back to `disk` and so takes what every
other session has written since the last commit, as SQLite does on FULL, IOERR and NOMEM. The
calls of those sessions see nothing of it: their commits succeed and commit nothing. It
may hit every statement, every commit, the purge, and a statement that runs on after its
coroutine was cancelled (`SaveFails`, `PruneFails`, `RollbackFails`, `PurgeFails`, `CancelledFails`). `phase` is the
process: `Start` (`start`, `_restore_generation_state`), `Stop` and `Cancelled` (the server
and `stop` cancel coroutines; the statement they wait for is executed all the same,
its effects in memory are not), `FinalFlush`, `FlushNext`, `Close`, `Crash`. `op` has one slot
per session: `MutualExclusion` of `SnapshotEngineProofs` says that one is enough. A
session is its version number; `told` collects what returned to callers, `owed`
what a stop set out to save, `lost` what an error took from calls that saw none. All three
are history: no guard reads them.

**Ledger.** What the file promises: rows with new, higher keys appear, the oldest go,
the newest of a session stays, records stay. `Durability` implements it for each session `s`
with `rows <- RowsOf(s, disk.rows), log <- disk.log`: a commit is one transaction of the ledger
of every session that had a statement in it. A session that an error took a row from keeps
the weaker `Keeps`: a row that goes leaves a newer one, and no record goes. `SnapshotEngine`, where every statement
takes effect at once, implements it with `rows <- snapshots` and the audit log as a set of
numbered records (`KeepsLedger`).

**Sandbox.** One record of progress per call of `run()`: `pc` is what it awaits, `cli` the
`docker run` process (working, attached to its container, exited, reaped by asyncio,
killed), `box` the container, which belongs to the daemon and outlives the child. The
entrypoint inside is its exit code for each kind of payload (`ExitCode`). `ProfileFails`
and `Call` are `ensure_seccomp_profile`. What Docker does is external, as far as `run`
can tell: `docker run --rm` creates, then starts, a container; its exit follows that
of the container; `docker kill` ends a running one and does nothing to others.

**RateLimiter.** `windows` is `_windows`, `now` is `time.monotonic()` in ticks; a request
is one step, since `dispatch` reads and writes without an await between. `admitted`
and `retryAt` are history: the times of the requests passed on, and what the last 429
promised.

### Where the model allows more than the code

* After an engine call returns, the handler goes on in a step of its own; in the
  code it goes on at once. The same holds for the maintenance loop. This only adds
  interleavings.
* Whether the score reaches the threshold is free in every tool call; the first
  score of a session is below it (the threshold is positive).
* The interval of `maybe_checkpoint` may elapse at any moment after a checkpoint: for a
  session in `recent` both branches are possible. A session never checkpointed has only one.
* In `Durability` a tool call may mark its session at any time, without that clock.
* A database error may hit any write, up to `MaxFaults` in all.
* In `TokenBudget` a checkpoint may follow any call.

### Where it allows less

* In `StateRouter` and `SnapshotEngine` an error undoes no more than its own statement, and
  a row already inserted stays. That SQLite may roll the shared transaction back, with the
  rows of other sessions, is in `Durability` only. So the theorems of `SnapshotEngineProofs`
  and `StateRouterProofs` that speak of any number of database errors are about errors of the
  first kind. For a session alone the second kind adds little: its INSERT undone with the
  failed commit is the same as a failed INSERT.
* Read statements, and the purge of `SnapshotEngine`, do not fail; a failing read leaves the
  same lock releases behind and writes nothing, a failing purge is logged and tried again.
  (In `Durability` both fail, since a failing read may roll back, too.)
* No cancellation, shutdown or crash in `StateRouter`; `Durability` has them.
* `TimePasses` happens only while no engine operation is in flight: retention is
  counted in days, an operation takes milliseconds.
* The maintenance loop's branch for a session that no longer exists has no step:
  `delete_session` has no caller, so that a dirty session is always registered.
* The hash ring is written and never read; it is left out.
* `TokenBudget` has no concurrent calls (`StateRouter` has), and its snapshots neither
  fail nor expire: `saved` begins with the genesis snapshot. The score is in units of
  `1/Scale`, each share rounded down, where the code computes in floating point. The
  call that finds the step budget spent does not return (section 5) and has no step.
* The elements of an input list are alike, and keys have one character.
* `Durability`: nothing expires, so that its purge only commits. Coroutines that wait
  for an engine lock hold nothing and are left out, as are reads that no write depends
  on. The process may end at any moment, the machine does not: in
  WAL mode with `synchronous=NORMAL` a power loss may take the last commits. Start is one
  step: it writes nothing that a crash in the middle of it could leave half done.
* `Sandbox`: the log's awaits change nothing and are left out; the directory of the
  profile is not removed by others.
* `RateLimiter`: time is discrete, and does not pass within a request.

## 3. Runs

Passing runs, the first three on `MCStateRouter`, `Budget` on `MCTokenBudget`, the others
on the module they are named after:

| Run | Instance | Properties | What it shows |
|---|---|---|---|
| `Rollbacks` | 1 session, 2 tasks, all requests, depth 2, ageing | `OneWriterPerSession`, `RollbackTakesEffect`, `SnapshotsImmutable`, `CheckpointSurvivesPrune`, `EngineSpec` | rollbacks of both kinds against tool calls, deletes, the flush and the purge; the router implements the engine's specification |
| `Faults` | 1 session, 2 tasks, depth 1, one database error, fair | `TypeOK`, `ContiguousGenerations`, `CounterMatchesRows`, `RetentionBound`, `AuditMatchesCounter`, `LocksMatchOperations`, `KeepsLedger`, `EngineCallsReturn` | what a failing statement leaves behind: in the tables, in the counter and in the queues of the locks; all requests, drift among them |
| `Lifecycle` | 2 sessions, 2 tasks, 2 steps, calls beyond them, depth 1, fair | `InsertIsFresh`, `DirtyGetsSaved` | without rollbacks generations are never reused, and what a dirty session has changed is saved, while requests hang too |
| `Budget` | 7 payload shapes, 3 requested levels, 512 tokens, 4 steps, window 1 | `ReportedBudgetHolds`, `DowngradeFits`, `ScoreTracksBudgets`, `RollbackComesFirst`, `DeliveredWithinCaps` | every sequence of calls of one session, with real prices |
| `Durability` | 2 sessions, 1 rollback, depth 1, one database error of either kind, any number of crashes and restarts, fair | `DiskIsGapless`, `AcknowledgedIsDurable`, `StopSavesDirty`, `ImplementsLedger`, `StopEnds` | what survives a crash, a shutdown, another session's commit or its error |
| `Sandbox` | 2 calls, 3 kinds of payload, one failing docker command, fair | `NoOrphans`, `ReportsTheTool`, `ProfileFirst`, `EveryRunEnds` | timeouts at every point of a container's life |
| `RateLimiter` | 2 agents, 2 requests per window of 4 ticks, 8 ticks | `BurstBound`, `RefusedForCause`, `RetryAfterWorks` | the fixed window around its edges |

Runs that TLC refutes, one documented claim each (section 5): `ReusedGeneration`,
`ExhaustionHangs`, `LostDirtyMark`, `StaleSnapshot`, `UnreportedTimeout`.

Some properties carry their exceptions in their statement. `NoOrphans` leaves out a
call that was cancelled (nothing but a timeout makes `run` kill anything), one for which
docker failed, and one whose `docker kill` came before its container ran (its exit status is
ignored): in each of these the container does stay. `StopSavesDirty` is about stops
that meet no error and sessions whose next generation is free (finding
`ReusedGeneration`); a session whose save was cancelled before it was marked dirty is
not dirty, and is lost. `AcknowledgedIsDurable` leaves out what the error of another call
rolled back between the statement and its own commit, `DiskIsGapless` and `ImplementsLedger` the
sessions that such an error, or a cancelled INSERT that fails, took a row from while the counter went
on (`lost`, `Holed`); section 5 says what becomes of those. `DirtyGetsSaved` is about marks that are
set while no save of the session has encoded it already (`Encoded`); the others may get
lost (finding `LostDirtyMark`). `BurstBound` is the bound that a fixed window has, nearly twice
the one its name suggests.

### Bounds and why they are enough

* **Two tasks and the maintenance loop** make three coroutines on one session: one
  in the critical section, two waiting in order, which is every situation of a
  FIFO lock; or one rolling back, one with a stale reference, and the flush.
* **One session** where only the lock and the rows of a session matter (sessions
  share nothing but the fault bound, the audit log and the loop); two where the
  loop must come round to both.
* `GenCap` (1 or 2) stops *requests* at a generation; operations in progress and
  the flush go on to `GenCap + 2` or more. With `Depth` 1 or 2 this prunes several times.
* `Targets = {0, 1}` includes stored, pruned and not yet existing generations.
* `StepCap > MaxSteps` lets clients send a call the budget refuses: `Faults`, `Rollbacks` and
  `ExhaustionHangs` have 2 and 1, `Lifecycle` 3 and 2. There the refused call hangs with the session
  lock, later ones queue behind it, and the flush goes on. In the other runs both are
  2 and no call is refused.
* `LostDirtyMark` has one task: its trace takes a session checkpointed once, two tool calls within
  the interval and the maintenance loop.
* In `Durability` one version above the first, one generation above genesis and depth 1
  make every commit of one session meet every unfinished statement of the other, a
  prune, a rollback to a stored and to a missing generation, and restarts with and
  without rows; one error hits every statement and may take what the other session has
  written. The inductive invariant was also checked with two errors. The proofs cover any number of each.
* In `Sandbox` two calls share the profile and the failure; the third kind of payload
  stands for all that exit with 2 (the others with 1). Calls end, hence no deadlock check.
* In `RateLimiter` eight ticks hold a window, its edge (a window ends strictly after its
  four ticks) and most of the next; two requests per window make a
  burst across an edge longer than what one window admits. Sessions and time are
  independent of the limit; the proofs cover any limit, window and clock.
* `AuditCap = 1` bounds the *start* of rollbacks; two that start before the first
  record is written both complete.
* `MaxFaults = 1`: one error at every possible place. The proofs cover any number.
* `Budget`: the seven payloads make every transformation truncate something and leave
  something alone (a long text, an empty and a short list, 60 rows, a dict with a
  list, a base64 blob, 200 long texts); their prices under the five tiers lie on both
  sides of the 512 tokens. `MaxSteps = 4` and `Threshold` one half are the edge of
  `RollbackComesFirst`; the window is 1 where the code has 20, so that a loop fits into
  two calls. The theorems cover any window, number of steps and price.
* Deadlock is checked: JSON-RPC calls, creating sessions, the loop and the purge never stop being possible.
* Symmetry of the tasks is used in runs without liveness only.

### Fairness

`FairSpec` asks weak fairness of `Handler(t)` for each task and of `Engine`. The
event loop resumes every coroutine whose await is over, in FIFO order; SQLite
statements and log writes end; `asyncio.sleep` ends. Nothing is asked of clients
(`Arrival`) nor of the clock. Weak fairness of a whole handler suffices because
each coroutine is at one place at a time, and an asyncio lock serves its waiters in
order, so nobody is overtaken for ever.

In `Durability` statements end (`OpStep(s)`) and a shutdown that has begun goes on
(`Shutdown`); nobody is made to start, stop or crash the process. In `Sandbox` the event
loop, its timers and `docker kill` go on (`Run(c)`); nothing is asked of containers, which
may run for ever, nor of the `docker run` process. That `docker kill` exits is an
assumption about Docker: `kill_proc.wait()` has no timeout of its own.

## 4. Proofs

`SnapshotEngineProofs` proves, for every set of sessions and tasks, every depth,
budget and set of targets, and any number of database errors that undo their own statement
(section 2), about `EngineSpec`:

| Theorem | States | Assumes |
|---|---|---|
| `TypeCorrect` | `TypeOK` | - |
| `MutualExclusion` | `OneWriterPerSession` | - |
| `Immutability` | `SnapshotsImmutable` | - |
| `AuditTellsTheTruth` | `AuditMatchesCounter` | - |
| `RetentionIsBounded` | `RetentionBound` | - |
| `LocksAreHandedOn` | `LocksMatchOperations` | - |
| `NoHoles` | `ContiguousGenerations` | no row expires |
| `CounterStaysOnRows` | `CounterMatchesRows` | no row expires |
| `NewestSurvivesPrune` | `CheckpointSurvivesPrune` | no row expires |
| `NewestSurvivesExpiry` | `CheckpointSurvivesPrune` until the first database error, rows may expire | - |
| `LedgerKept` | `KeepsLedger`: the refinement of `Ledger` | no row expires |

`StateRouterProofs` proves about `Spec` of `StateRouter`, for every number of tasks:

| Theorem | States | Assumes |
|---|---|---|
| `RouterImplementsEngine` | `EngineSpec` | - |
| `ProgramInheritsEngine` | `TypeOK`, `OneWriterPerSession`, `LocksMatchOperations`, `RetentionBound`, `SnapshotsImmutable`, `AuditMatchesCounter`, and `CheckpointSurvivesPrune` until the first database error | - |
| `ProgramKeepsLedger` | `KeepsLedger`, `ContiguousGenerations`, `CounterMatchesRows`, `CheckpointSurvivesPrune` | no row expires |
| `RollbackHasEffect` | `RollbackTakesEffect` | - |
| `FreshGenerations` | `InsertIsFresh` | no rollbacks, no database errors |

(With rollbacks `InsertIsFresh` is false: run `ReusedGeneration`.)

`TokenBudgetProofs` proves about `BudgetSpec`, for every set of outputs and prices,
every budget, window, scale and threshold (`BudgetAssumption` says only that they
are in the ranges the configuration validates):

| Theorem | States |
|---|---|
| `ReportedBudgetIsRight` | `ReportedBudgetHolds` |
| `DowngradesFit` | `DowngradeFits` |
| `ScoreIsExplained` | `ScoreTracksBudgets` |
| `RollbackPrecedesExhaustion` | `RollbackComesFirst` |

`ContextFilterProofs` proves about the transformations, for *every* payload that nests no deeper than
`Payload` says, and about what the calls of `BudgetSpec` deliver of the seven payloads:

| Theorem | States |
|---|---|
| `StandardCaps` | STANDARD caps every string and every list at every depth, its own trailers included |
| `MinimalIsFlat` | a MINIMAL summary holds no nested data |
| `CapsHold` | `DeliveredWithinCaps` |

`DurabilityProofs` (any sessions, rollbacks, depth, errors, crashes), `SandboxProofs` (any
calls and failures) and `RateLimiterProofs` (any limit, window and clock):

| Theorem | States |
|---|---|
| `DurabilityProofs!Gapless` | `DiskIsGapless`: up to sessions that an error took a row from |
| `DurabilityProofs!Acknowledged` | `AcknowledgedIsDurable`: up to what another call's error rolled back |
| `DurabilityProofs!LedgerImplemented` | `ImplementsLedger`: the refinement of `Ledger`, of `Keeps` for sessions that an error took a row from |
| `DurabilityProofs!StopSaves` | `StopSavesDirty`: stops without an error, sessions whose counter is on top |
| `SandboxProofs!OrphanFree` | `NoOrphans` |
| `SandboxProofs!ReportsAreTrue` | `ReportsTheTool` |
| `SandboxProofs!ProfileIsFirst` | `ProfileFirst` |
| `RateLimiterProofs!Bursts` | `BurstBound` |
| `RateLimiterProofs!RefusalsAreDeserved` | `RefusedForCause` |
| `RateLimiterProofs!RetryIsEnough` | `RetryAfterWorks` |

Each of these three modules also proves its `TypeOK` (`TypeCorrect`).

The assumptions on the constants are those named in the modules. Expiry is
excluded in `NoHoles`, `CounterStaysOnRows`, `NewestSurvivesPrune` and `LedgerKept` because a purge may remove rows from the middle of a
session's history: there the generations are an interval no more. `NewestSurvivesExpiry` proves, and `Rollbacks`
checks, what remains true.

**Types and locks.** `TypeOK` is not inductive: a checkpoint that is resumed must know
that its `sid` is a session and that the reference it dereferences is not `Nil`.
`TypeInv` adds `OpOK` (what each field is worth at each pc) and `HolderIsHead`:
every coroutine in the critical section of `s` is the head of `lockq[s]`.
Mutual exclusion follows, for a queue has one head. `Granted` gives the head the
lock, `Release` removes it, `Append` leaves it alone, so each step keeps it.

**The queues.** `LocksMatch` says the same in both directions: the queue of `s` holds the
coroutines that wait for its lock or are past it, each once. It is inductive together with
`TypeInv`. A step that changes the place of its coroutine only within the critical section
leaves the set alone; `Checkpoint`, `Rollback` and `AutoScan` add the coroutine to both sides;
the steps that call `Release`, the error paths among them, remove the head, which is the
coroutine itself, from both. A path that raised with the lock held would break it in that step.

**Rows.** `RowsInv` says of each operation in progress what its locals know of the
rows (`OpRows`) and of each session at rest that its generations are an interval on
which the counter lies (`SessionRows`). The statement of an interval alone is not
inductive: `Insert` needs that `gen - 1` is the top or that `gen` is present; the prune
needs that `set` is the bottom of the interval (`ExcessIsBottom`) and does not
contain the row just written; a failed commit leaves a row above the counter. Each
action that writes rows belongs to the one coroutine in the critical section of one
session; lemma `Frame` carries all other coroutines and sessions across the step, so
that each action has to be considered only for its own.

**Expiry.** With gaps in the history the row just written need not be the newest one: after a
rollback the counter lies below stored rows, and once the row it would conflict with has
expired the next INSERT succeeds under them. `SafeInv` counts: fewer than `Depth` rows lie above the
counter, so the prune, which keeps the `Depth` highest, keeps the new row. A rollback aims at
one of at most `Depth` rows (`SizeInv`) and leaves fewer than `Depth` above it, a save raises
the counter, and the purge only removes. The purge cannot take the new row itself,
for rows expire while every coroutine is idle (`TimePasses`). A prune that fails leaves more than `Depth`
rows to roll back to; this is why the theorem ends with the first error.

**The ledger.** Only `Insert`, `DeleteOld` and the audit record touch what `Kept` sees. A row that
goes in is new, and then `RowsInv` says that `gen - 1` is the top of the interval, so it is newer
than every row of its session (`InsertOnTop`); when a rollback has left `gen` present, the INSERT
conflicts and the ledger stutters. What a prune removes is the bottom of the interval, below the
row just written.

**Immutability.** `KeysUnique` (no two rows with one key) is inductive because
`InsertSnapshot` demands a fresh key, as the primary key does.

**Budget and score.** `BudgetInv` demands of `saved` what it demands of `session`,
because a rollback makes the one the other. The score bound is an induction over
calls: if `4 * score <= 5 * Spent + Scale \div 5` before a call, then with a penalty of at
most `Scale \div 5` a fifth of the flagged score is at most `Spent \div 4 + Scale \div 20`, and
`Spent` does not decrease (`SpentMonotonic`): lemma `NextScore`. The same lemma gives
`RollbackComesFirst`: all steps together weigh one half (`AllSteps`), so the call that
would be the last reaches a threshold of at most one half, and is rolled back to a
snapshot with steps left. `DowngradeFits` rests on `DiscloseFits`: a nonempty set of
tiers has a least element.

**Durability.** The invariant `Inv` has two layers, because an error that rolls the shared
transaction back breaks one of them and not the other. `Shared` and `Task` hold whatever
happens: every row of `disk` is in `table` or superseded there, no record of `disk` is missing, and
of each operation in progress the row or record it has written is in the table or in `lost`,
and what it may delete is not the newest. This is what `Acknowledged` and the weak step `Keeps` of
`LedgerImplemented` rest on. `Holed(s) \/ Sound(s)` is the second layer, for the sessions that
no error took a row from: in both `table` and `disk` the generations are an interval; what `disk` has
and `table` has not lies below what `table` has (an uncommitted prune), what `table` has and `disk`
has not lies above (uncommitted inserts): `Continues`, which alone makes any commit a step of `Ledger`,
whoever issues it. `OpInv` says of the counter that it lies on or just below the rows. When an error puts `table`
back to `disk`, the rows that others lose go to `lost` and their sessions leave the second layer;
a session whose own INSERT is undone gets its counter back and stays (`SaveUndone`); one whose
uncommitted prune is undone has its old rows again (`ComeBack`).
`Start` needs that the counter it computes, MAX(generation), lies on the interval (`RestoredIsCounter`).

**Sandbox.** `CallInv` says which states of child and container go with each place of
`run`; `CodeInv` says where an exit code comes from. `NoOrphans` needs that, unless the
call is spoiled, a child that has exited leaves no container behind, and that after
`docker kill` no child is still at work on one.

**Rate limiter.** `AgentInv` says that the last `count` admitted requests are those of the
window, and that the request `MaxRpm` places before the window's first lies more than a
window before it: the only fact about past windows that a new request needs.
`RetryReaches` is the arithmetic of `int(x) + 1`. `RefusedForCause` is the first half of `AgentInv`,
read at the request that is refused.

**Transformations.** The library's induction theorems cannot be used here, and need not be: a payload
nests to a fixed depth, so that the recursive function is built level by level. One application
of its body (`Unfold`) to *any* function is right on payloads without elements, a second one on those one deep,
and the fourth is a fixpoint (`NextLevel`, `FixpointExists`). Hence `ApplyStandard` satisfies its equation
(`StandardUnfolds`), which a CHOOSE does not by itself. From then on `Delivered`, what STANDARD makes of
payloads and the texts it adds, is closed under taking elements and each member obeys the caps
(`DeliveredIsCapped`). `CountOfTwo` evaluates the community modules' fold on the two runs of a cut
list; `DigitsBound` bounds the trailer.

**Retention and audit.** A prune deletes all but the `Depth` highest generations it listed;
what remains has a lowest element with fewer than `Depth` above it (`KeptBound`). Only
the holder of a session's lock adds rows, one at a time, so `SizeInv` bounds the rows of a
session that nobody is saving, and what the operation in progress will leave; an
error may leave one row more, and adds one to `faults`. `FromIsCounter` says that the
generation a rollback read when it started is still the counter when it writes its record.

**Callers.** `RouterInv` ties each task's request to its place in the engine: a handler
with a continuation still holds its session object and is idle or inside
`auto_rollback`. With it every arrival and continuation is an `EngineCall` of `EngineSpec`, and
each engine step of a task is the engine's own. `EffectInv` says that from the restore on the
session is neither ACTIVE nor free, so that no handler changes it: the handlers check the
status, and nothing else protects the session there. `FreshInv` puts the counter on or
above every row, and strictly above them before an INSERT.

**The final flush.** `PendingAt` says how far the flush is with each session it owes: still in
`todo` with its next generation free, about to insert, between INSERT and return, or done
with the row in `table` and `disk`. An error clears `owed`.

Checked by TLC only: the liveness properties `DirtyGetsSaved`, `EngineCallsReturn`, `StopEnds` and
`EveryRunEnds`, since liveness under fairness is outside the prover's reach. What `Count`, `JsonLength` and the
token prices compute for lists of any number of runs needs induction over data, which is outside it too: that is
why `Within` speaks of a count that is at most the cap or one more, and why `TokenBudgetProofs` takes prices as
constants. Its seven payloads and the real prices are TLC's part.

## 5. Where the code and its documentation disagree

| Run | The documentation | The code |
|---|---|---|
| `ReusedGeneration` | `snapshot/store.py:275-278`: a key conflict "should never happen" | a rollback lowers the counter below stored rows; the next checkpoint conflicts, and every later one |
| `ExhaustionHangs` | `models.py:291`: the session is terminated at `max_steps` | the tool call takes the session lock twice and hangs, with every later one |
| `LostDirtyMark` | `engine.py:101-104`: the dirty set has every session changed since its last checkpoint | a change of an already checkpointed session during the INSERT of a flush or DELETE loses its mark |
| `StaleSnapshot` | `engine.py:206-207`: checkpoint takes the live session | after `auto_rollback` the handler saves the object the rollback replaced |
| `UnreportedTimeout` | `sandbox/executor.py:36-37`: a timeout raises `SandboxTimeoutError` | when `docker run` ends and is reaped before `proc.kill()`, that call raises `ProcessLookupError` outside the try block |

Seen while modelling, without a run of their own: `snapshot/store.py:36-37` says that "All write
operations use explicit transactions (`BEGIN IMMEDIATE`) to ensure durability and to prevent
partial writes on process crash", but `store.py:264-271` and the code use the implicit transaction
of the one connection, which all coroutines share and which nobody rolls back or retries. One
error at which SQLite rolls it back (of an INSERT, a commit, a prune, the purge, a read) erases the
uncommitted row or audit record of another session; that session's commit then succeeds
on nothing, and `checkpoint` or `rollback` returns a generation or a record that is not in the file.
`lost` collects exactly these: `AcknowledgedIsDurable` and `DiskIsGapless` without it are violated
in the model by a single error. The counter of such a session has passed the erased row, so that the next
save leaves a hole, which a rollback and a later save may fill under newer rows.

Further: `routes.py:527-529` calls a rollback
atomic with its record, but an audit INSERT that fails (`engine.py:376`) leaves the session
restored and unrecorded (`AuditFails` in `SnapshotEngine`); `engine.py:45-47` says that a failed
checkpoint does not raise, but it does (237), and a DELETE whose checkpoint fails
leaves the session ACTIVE; a rollback of a COMPLETED session makes it
ROLLED_BACK (`session_store.py:216`; the diagram of `src/README.md:147-153` has no
such arrow); `auto_rollback` lists generations without the lock and may miss a safe
snapshot whose INSERT is in progress; the deviation of an audit record is read
after the session was replaced, so that `deviation_score_at_rollback` is that of the
snapshot; the prune takes generation 0 as any other, where `routes.py:189-191` promises
that rollback to genesis is always possible; and a checkpoint may return a generation that its
own prune has deleted. With depth 1 that takes two failed prunes (rows 0, 1, 2), a rollback to 0 and
the expiry of rows 0 and 1: generation 1 is then inserted under row 2, and the prune keeps row 2.

Of middleware: Starlette makes the layer added *last* the outermost, so the rate limiter
(`main.py:187`) wraps all others and GZip is the innermost, contrary to `middleware.py:6`
("outermost-first": trace first) and `main.py:170`: a 429 or 413 has no trace id and is not counted
in the metrics, and oversized requests are charged to the window. The limiter's
docstring (225-226) says sliding window, the code has a fixed one (`BurstBound`).
`PayloadSizeLimitMiddleware` says that it buffers a body without Content-Length, and does
not look at it. `_windows` never shrinks.

Of the sandbox: `src/README.md:306` promises that no zombie remains, but the exit status
of `docker kill` is ignored, one that comes too early kills nothing, and a cancelled call
kills nothing (the exceptions of `NoOrphans`); `OSError`s of `create_subprocess_exec` other
than `FileNotFoundError` pass through undocumented; `entrypoint.py:149` counts an argument
mismatch as exit code 2, but it is a `TypeError` and gives 1.

Of disclosure and budget: `context_filter.py:9-11` promises the highest-fidelity tier
that fits, the loop at 343-355 stops at the lowest; a raw result that fits may
exceed the budget after the requested transformation (four one-digit numbers cost 3
tokens verbatim and 5 CONDENSED, for the trailer is longer than what it replaces),
which is why `DowngradeFits` is about results that do not fit; `routes.py:650` says that
the JSON-RPC endpoint reuses all validation and logic, but it checks neither the status
nor the allowed tools, and charges nothing, so that the budget it reports is not the
one the next call finds (`ReportedBudgetHolds` is about tool calls). At thresholds of at
most one half (the default is 0.35) the hang of `ExhaustionHangs` takes concurrent calls;
at higher ones sequential calls suffice.

## 6. Mutants

Each property of a passing run has a mutant in `PROJECT.json`: an operator of the
model, changed as a plausible bug would change the code (INSERT OR REPLACE, a prune
that sorts the wrong way, a lock released too early or never), which makes TLC find
the property violated. The operators are next to what they replace, marked "Mutant of".

## 7. Not modelled

* **Monitor** (`snapshot/monitor.py`): reads the file and prints tables.
* **Trace, metrics, GZip and size layers** of the middleware: headers and counters; no
  state that a later request reads.
* **`pull_image` and `check_docker_available`**: one command each, nothing kept.
* **The tools in the sandbox image**: one call per process, no state; only the exit code
  of each kind of failure matters to the executor.
* **Configuration and logging**: settings are constants (their ranges are the
  assumptions); a log record is a suspension point.
* **`session_metadata` and the hash ring**: written, and read by nobody but the monitor.
* **Encoding of a snapshot** (JSON, zlib, hex): the row holds the session it was made
  from; a round trip through pydantic is the framework's.
