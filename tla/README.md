# AstraForge execution backend: TLA+ verification project

AstraForge is a FastAPI backend that trades Binance USD-M Futures **Demo**
accounts: it scans markets, turns candidates into signals and decisions, checks
risk, and lets one background worker open and protect positions.  The part that
is hard to get right is not the trading rules but the path from a durable
*execution command* to a protected position on an exchange that answers late,
twice or not at all, while processes crash, leases are lost and other threads
look at the same state.  This project models that path, what leads up to it
(scanner, signals, risk) and what watches over it (reconciliation, order audit,
replay guard).

All paths below are relative to the repository root.

## 1. Inventory

| Component | State it keeps | Operations | Hard behaviour | What makes it correct |
|---|---|---|---|---|
| Execution command queue (`app/persistence/execution_command_repository.py`) | `execution_commands` rows, `execution_command_transitions` history (PostgreSQL) | `create`, `transition`, `claim_next` (expire, re-claim stale, claim) | `SKIP LOCKED` claims of several instances; a stale-claim branch that bypasses `_apply_transition` | history is a legal path ending in the row; claims exclusive until stale; terminal is terminal |
| Execution command service (`app/services/execution_command.py`) | none | `enqueue`, `revalidate`, claim/transition wrappers | checks made long before use | no command for an unapproved or expired decision |
| Execution worker (`app/services/execution_worker.py`) | last result | `process_one`, run every 5 s by `main.execution_worker_loop` | a dozen database and exchange calls with a failure path each | one entry per signal; a confirmed command has a protected position; every command settles |
| Demo execution service (`app/services/execution.py`) | `_trades` in memory | `activate`: query, submit, protect, emergency close | lost answers, partial fills, compensation that can fail too | no unprotected position goes unnoticed |
| Durable adapter (`app/persistence/service_adapters.py`) | OPEN/CLOSE intents, orders, fills, trades | intent before the call, result after it | crash or failed write between the two | nothing on the exchange that the database does not know of |
| Leader lease (`app/services/execution_leader_safety.py`) | advisory lock of one database session | acquire, `require_valid`, validation loop, release | loss in the middle of a cycle; one connection used by two threads | one submitting instance |
| Recovery gate and startup (`app/services/recovery.py`) | gate state in memory | `recover`, `fail`, `mark_ready` | several loops write the gate | automation runs only after a clean comparison |
| Continuous reconciliation (`app/services/global_reconciliation.py` and the order, position, lifecycle and restart services) | last reports | `reconcile` in a thread of its own | reads interleave with an activation | drift shuts the gate |
| Account snapshot (`app/services/account_snapshot.py`) | one cached snapshot, condition variable | `get`, `force_refresh`, `invalidate` | poll outside the lock; joiners, failed polls, invalidation during a poll | single flight; forced answers are new; bounded staleness; no lost wake-up |
| Manual close (`durable_trade_management.py`, `manual_close_durability.py`, `trade_management.py`) | CLOSE intents | close, recover | crash between intent, order and final write | one close per trade, resumable |
| Protective lifecycle (`protective_lifecycle.py`) | durable lifecycle events | observe SL/TP fills, cancel the sibling | partial fills, both orders filling | each event applied once |
| Order audit (`order_audit.py`, `order_audit_runtime.py`) | canonical rows of `exchange_orders`, `fills` | `reconcile`, from the loop and from two routes; `records` | overlapping audits; fills, orders and trade read at different moments; older rows written by the close route | records true, readable, only forward |
| Replay guard (`app/core/security.py`, `repositories.py`) | `mutation_replay_keys`, or entries in memory | `authorize_mutation`, `claim` | duplicates, concurrently and across restarts; clocks that differ | a mutation runs once per key and window; bounded registry |
| Scanner scheduler (`scanner_runtime.py`) | state, task, next times, advisory lock | `start`, `stop`, `run_now`, the loop | stop and start around a run that is being cancelled; lost session | ON has a loop; scans recur; one scheduling instance |
| Scanner candidates (`scanner*.py`) | `_candidates`, terminal keys and history, provenance, runs | `full_scan`, `active_refresh` | a refresh changes candidates one await at a time; skipped, failed and cancelled runs | what ended stays ended |
| Signals and decisions (`signal_decision.py`, `decision_signals.py`, `signals.py`) | records per decision, in memory and `signals` | `decide`, synchronise on every read, recover | candidates are forgotten by a restart, records are not; runs of all statuses | ACTIVE means current |
| Risk (`risk.py`) | none | assess the ACTIVE signals in order | approvals made against different pictures of the account | limits never exceeded |
| Exchange rules (`exchange_rules.py`) | none | tick and step normalisation | decimal edge cases | normalised prices stay on the safe side |
| Universe, shared market snapshots, indicators, journal, notifications, routes, schemas | caches, projections | reads and inserts | per-resource locks | not the subject of this project |

How they interact: the scheduler loop *scans* and *refreshes* candidates; every
reader of signals first *synchronises* them with the candidates; a client's
activation asks risk for an approval and *enqueues* a command; the worker
*claims* them, asks the command service to *revalidate* (which calls
`force_refresh` of the account snapshot), proves the lease, writes SUBMITTING,
and calls the durable adapter, which writes an OPEN intent, calls the demo
execution service, and writes the trade.  The reconciliation loop and the lease
validation loop run beside it and close the gate; the worker reads the gate at
the start of a cycle only.  Before each proof of the loop the order audit runs
over every trade in memory.  Every mutation of a client passes the replay guard.

## 2. Modules

| Module | Models | Composes |
|---|---|---|
| `CommandStore` | the queue: one action per repository transaction | |
| `CommandStoreProofs` | theorems about the queue | `CommandStore`, TLAPS |
| `ExecutionWorker` | worker, demo execution service, durable adapter, lease, gate, reconciliation, exchange | EXTENDS `CommandStore` |
| `ExecutionWorkerProofs` | theorems about the worker, and that it implements the queue | `ExecutionWorker`, `CommandStoreProofs` |
| `TradeExit` | manual close, protective lifecycle, reconciliation loop, memory, trade row, exchange | |
| `TradeExitProofs` | theorems about the end of a trade | `TradeExit`, TLAPS |
| `OrderLedger` | what the order audit promises of its records | |
| `OrderAudit` | overlapping audits of one trade, the close route's writes, the exchange | implements `OrderLedger` (INSTANCE) |
| `OrderAuditProofs` | theorems about the audit, and that it implements `OrderLedger` | `OrderAudit`, TLAPS |
| `ReplayGuard` | `authorize_mutation` and the claim of a key, in memory and in the database | |
| `ReplayGuardProofs` | theorems about the guard | `ReplayGuard`, TLAPS |
| `ScannerScheduler` | when the scanner runs: start, stop, the loop, the advisory lock of several instances | |
| `ScannerSchedulerProofs` | theorems about the scheduler | `ScannerScheduler`, TLAPS |
| `CandidateStore` | what scanner runs do to the candidates of one process | |
| `SignalPipeline` | decision, signal, risk, command, entry, startup recovery | EXTENDS `CandidateStore` |
| `SignalPipelineProofs` | theorems about the candidates and the pipeline | `SignalPipeline`, TLAPS |
| `AccountSnapshot` | the snapshot cache and its threads | |
| `AccountSnapshotProofs` | theorems about the cache | `AccountSnapshot`, TLAPS |
| `MC*` | constants for TLC | the module they name |

Each definition commented *Mutated form of X* is a plausible bug in the code X
models.  No specification uses one; it stands beside X to show that the property
it belongs to depends on what X does.

### CommandStore

`row` is the `execution_commands` table (`state`, `created_at`, `expires_at`,
`claimed_at`), `history` the `execution_command_transitions` table.  Each action
is one transaction.  `Create` inserts once by identity; `Transition` is
`_apply_transition`, including that the current state is accepted silently and
that no owner is checked; `ClaimTransaction` is all of `claim_next`: expire what
is due, select the oldest claimable row that is not locked, record a stale claim
as RECOVERY_REQUIRED, claim.  FAILED has edges in the table and no caller.  The
payload is left out: the repository never decides on it.

### ExecutionWorker

`pc[p]` names the next database transaction or exchange call of instance `p`;
everything else interleaves between two of them.

| Steps | Code |
|---|---|
| `claim` … `submit` | `process_one` up to SUBMITTING |
| `prepare`, `persist`, `protect` | `PersistentExecutionService.activate`: intent, final transaction, intent PROTECTED |
| `check` … `close` | `DemoExecutionService.activate`: `_existing_or_new_entry`, `place_protective_order`, `_cancel_best_effort`, `_emergency_close` |
| `validate` … `complete` | `_validate_trade` and the four transitions of `process_one` |
| `block`, `recover` | `_safe_failure_transition` |

The exchange is external and modelled from the calls the code makes: per signal,
the entry found by its client id (not found, filled, partly filled, expired
without a fill), the position in units of the approved quantity, and the state of
the two algo orders.  A call can be executed with its answer lost, refused, lost
on the way, or land later.  A timeout or network error becomes a client error
that the caller handles; a protocol error of the pooled connection is caught
nowhere and ends the activation, because `_request` translates only
`TimeoutException`, `NetworkError` and `HTTPStatusError`.

Environment actions: `Crash` and `Start`, `LoseLease` (the session dies, or
shutdown closes the coordinator while the worker's thread goes on),
`ValidateLeader`, `Reconcile`, `ReconcileUnavailable`, `Enqueue`, `Tick`, `Land`.

Assumptions, each visible in a guard or a comment of the module:

* One tick is the worker's 5-second sleep and also the default `recvWindow`, so
  a timed-out request has landed or been dropped before the next tick (`Tick`
  needs `inflight = 0`).  `recvWindow` can be configured up to 60 s; that setting
  is outside the model.
* Startup recovery runs a full scanner pass, so it outlasts a request sent before
  the crash (`Start` needs `inflight = 0`).
* Startup reconciliation and a reconciliation cycle are one comparison
  (`InSync`); `TradeExit` has the cycle step by step.
* Trades do not end in this module: a triggered stop or take profit and a manual
  close belong to `TradeExit`, so `saved` stays TRUE.
* All instances share one `worker_id`; a claim is told from the next by
  `claimed_at`, as in the code.

### AccountSnapshot

`pc[t]` is the position of a thread in `get()`: waiting on the condition, woken,
reading balances, reading positions, publishing.  The account is abstracted to
the number of changes made to it; a snapshot holds the number at which balances
and positions were read (two calls) and the `captured_at` it claims, which is the
time the poll *began*.  `snapshot_id` is a hash of the content, so equality of ids
is equality of snapshots.  `PlaceOrder` followed by `Invalidate` is the order path
of `SnapshotAwarePrivateClient`; an order whose answer is lost raises before
`invalidate()`.

### TradeExit

One open, protected trade and everything that may end it.

| State | Code |
|---|---|
| `position`, `algo`, `close` | the exchange: position, stop and take profit, the order of the close client id |
| `intent`, `orderRow`, `row`, `events` | CLOSE row of `execution_intents`, row of the close order, `trades` row, PROTECTIVE_LIFECYCLE rows |
| `memory` | `_trades` of each instance |
| `request` | a call of `close_trade`: next step, its record of the trade, the payload it read |
| `rpc`, `scan`, `gate`, `looping` | `run_forever` of the leader: next step, what the cycle has read, `automation_ready`, whether the loop lives |

`Prepare` … `Persist` are the transactions and exchange calls of `close_trade` in
the order of the code, with both error exits (`GiveUp` before, `FinalizationFails`
and `Mark` after the exchange answered).  `Begin` … `ReconcilePositions` are one
cycle: positions, cleanup of an earlier exit, stop, take profit, fills, the
sibling's cancellation, `_apply`, `store_trade`, the report, and with an open gate
the order, position and ownership proofs.  With the gate shut only the protective
part runs, and an exception that escapes it ends the loop (`Abort`).

What is abstracted:

* Quantities are units of the executed quantity; prices, costs and times are left
  out, and the verification of costs succeeds or fails (`Unverified` at `apply`).
* A reduce-only market order takes what is left of the position and is refused
  when nothing is left.
* A comparison of orders or of positions is one step.  The entry order stays as it
  was verified, and identities always match.
* The order audit of the cycle is left out.  It can only shut the gate more often.
* Startup recovery and the first cycle after it are one comparison.
* There is one trade.  A close served by an instance that is not the leader leaves
  the leader's memory as it was, so the leader's next full cycle shuts its gate;
  later trades on the same symbol are outside the model.

### OrderAudit and OrderLedger

`OrderLedger` is the promise of BE-14: a record appears once, its quantity never
goes back, nothing changes after a terminal status.  `OrderAudit` has one trade
and several audits of it, each with the trade its instance has in memory.
`Begin` reads the fills, `Look` one order at a time, and `Persist` writes one
record per transaction with the row locked; a call or a check that fails ends the
audit (`Unverified`, `Publish`).  Beside them the protective orders fill in parts
and are dropped, a manual close is placed, matched, recorded in the older form
and completed, `protective.reconcile()` writes the exit to the trade (`Observe`),
and an instance restarts.  Those writers are step by step in `TradeExit`; here
are only their effects on what the audit reads.  Fills of an order are numbered,
so a set of fill ids is a quantity.  The entry is left out: it is FILLED before
there is a trade.

### ReplayGuard

`rows` is `mutation_replay_keys` as committed; a claim is the sequence prune, get,
count, insert, recycle, commit, each one statement of a READ COMMITTED
transaction (`View` is what its statements see, `Write` waits for rows that
another transaction changed).  Without repositories `ClaimInMemory` is the whole
claim, under the lock.  Each instance has its own clock.  `MaxStall` bounds how
long a transaction lasts; `GuardAssumption` asks that it and the clock difference
stay below the TTL, since a claim that stalls longer meets a row that was
inserted and has expired meanwhile, and `_claim_durable` then answers ACCEPTED
without having claimed the key (`Judge`).  `accepted` is what the guard has
answered ACCEPTED, in order, each time with the clock that was then furthest ahead
(`Latest`); what a process without repositories accepted before it crashed is
`Forgotten`, by the process as by the property.

### ScannerScheduler

Each action is what one task does between two awaits.  `stop()` cancels the loop
without waiting, so the run it was in is `dying` until its next await, and its
`finally` block (`Rescheduled`) sees whatever state a later `start()` has set.
`lock` and `conn` are the advisory lock and the connection that proves it.  A lost
connection may have lost its session and the lock (`LoseSession`), or only fail:
`_discard_lost_connection` closes it without unlocking, and its session keeps the
lock in the pool (`StrandSession`, `kept`) until it ends, so a later `start()` may
be refused by its own pool or take the lock twice and give it back once.  The times
of the next runs are unset, in the future, or due.

### CandidateStore

The memory of one scanner process: candidates with their lifecycle, the terminal
keys, the cooldown history, the provenance of the last refresh, and the last
recorded run.  Time is counted in five-minute candles and the data of a moment is
named by that moment.  A full scan applies everything at its end (`EndFull`); a
refresh changes one candidate per step (`RefreshOne`), and the wrapper that
`StrategySeparatedScannerService` puts around it (`Normalized`) runs in the step
that ends it, whatever it returned, and never for a cancelled one.  What the
arithmetic on candles decides (usable data, trend, volatility, a match, the band
of the score) is free: `Evaluation` and `Outcome` are every result it can have.

### SignalPipeline

The store of `CandidateStore`, and on top of it the signals (`Synced` is
`_synchronize` with the save that follows it), the assessment of the ACTIVE
signals in any order, each against the room that those before it left
(`FitInOrder`, `Assessments`), commands, positions and the gate.  Every
reader synchronises.  A restart forgets the candidates and keeps signals, commands
and positions; the recovery scan follows.

An approval is looked at three times: by `Enqueue`, by `Revalidate` and by `Assess`.
The worker's cycle is three steps, and `work` is the command it has in hand:

| Action | Code |
|---|---|
| `Revalidate`, `Block` | claim and `revalidate`: signal, clock, assessment; or BLOCKED |
| `Assess`, `Refuse` | lease, SUBMITTING, OPEN intent, then `activate` asks risk for the assessment of this moment, without a look at the clock |
| `Enter` | leverage, exchange rules, query, `place_market_order` and its fill |
| `GiveUp` | a lost lease, a failed call or a broken rule between two of them: the command can be claimed again |

Time, scans, readers, clients, closing positions and restarts come between any two
of them.  What the exchange and the database do to the calls in between is the
subject of `ExecutionWorker`.  Here one worker runs, the entry fills in the call that
sends it, and the account picture is current; `ExposureBounded` rests on these three:
positions only disappear between `Assess` and `Enter`.
`mark_risk_blocked` has no caller and the limit of 1,000 signal records cannot be
reached within the bounds; neither is modelled.

## 3. Runs

| Run | Config | Result | Question |
|---|---|---|---|
| `command_store` | `MCCommandStore` | passes | Is the queue correct whatever its callers do? |
| `worker_safety` | `MCWorkerSafety` | passes | One instance, two commands that share a signal and its order identities, two faults and a crash anywhere: one entry, recorded first, and protected over its position when confirmed? |
| `worker_liveness` | `MCWorkerLiveness` | passes | Without crashes: does every command settle, is a naked position flagged? |
| `account_snapshot` | `MCAccountSnapshot` | passes | Single flight, forced answers, bounded staleness and no lost wake-up with three threads. |
| `trade_exit` | `MCTradeExit` | passes | Two closers, protective fills in parts, the loop, a fault and a crash: is the end of a trade unique, true and final? |
| `trade_exit_liveness` | `MCTradeExitLiveness` | passes | Is every end recorded or noticed? |
| `order_audit` | `MCOrderAudit` | passes | Are audit records true, readable and monotone when audits overlap? |
| `replay_guard` | `MCReplayGuard` | passes | Is a key accepted once per window, statement by statement, refused only for a reason, and the number of live keys bounded? |
| `scanner_scheduler` | `MCScannerScheduler` | passes | Does an enabled scanner keep scanning, on one instance only, whatever happens to the session with the lock? |
| `candidate_store` | `MCCandidateStore` | passes | Can a finished candidate come back? |
| `signal_pipeline` | `MCSignalPipeline` | passes | Are limits kept, signals current and entries proved in time from scan to position, across restarts? |
| `worker_failover` | `MCWorkerFailover` | **violated** | Is the entry unique across a fail-over? |

`worker_safety` also checks `StoreCalls` as a property: the worker implements the
queue's own specification, i.e. it touches the queue only through its operations,
so all that is proved of the queue holds of the whole system.  (`StoreSpec` is
`StoreCalls` with the bound `MaxRecords`, for the run of the queue alone.)
`order_audit` checks `ImplementsLedger` in the same way.  The types of the other
modules (`TypeOK`) are a part of the invariants that section 5 proves.

### Bounds

* In `command_store`, two commands, `ClaimTimeout = 2`, lifetimes up to 3 and a
  clock up to 4: a claim can go stale before, at and after the expiry of its
  command.  `worker_safety` has the same order of events with one unit less of
  each.  The clock saturates at its bound, and a command is created only if it
  expires within it, so nothing depends on the end of time.
* `MaxRecords = 9` in `command_store`: a full walk to COMPLETED has seven records,
  so a recovery before it or a second command's records fit beside it.  In the
  worker runs it is out of reach.
* `MaxFaults = 2` with one crash reaches the compound failures (a lost answer and
  a failed query; a failed close after a failed stop).  Each fault is one lost
  lease, failed call or failed write.
* `worker_liveness` has faults and no crash (`MaxCrashes = 0`): a crash after
  ENTRY_CONFIRMED strands the command (section 4), so `CommandsSettle` is false with
  one.  What crashes may leave behind is the subject of `worker_safety`:
  `EntryIsRecorded`, `OneEntryPerSignal` and `CompletedIsProtected`, which covers the
  stranded states.
* `Quantity = 2` lets a stop fill in part, the take profit fill the rest, or the
  manual close take it.  Two instances are the fewest that can both submit;
  one of them is the leader.  One fault and one crash, each anywhere.
  `trade_exit_liveness` has one instance, since its state graph with two is out of
  reach of the liveness check.
* Three threads are the fewest with a poller, a joiner and a thread that orders.
  With `Freshness = 0` and a clock of one step a snapshot is fresh or not.  The
  two commands of one signal are interchangeable in `worker_safety`; no run that
  checks liveness uses symmetry.
* `order_audit`: `Quantity = 3` has two different partial fills, so evidence can
  be stale twice; two audits are the fewest that overlap.
* `replay_guard`: room for two keys and four keys, so that another claim can prune a
  row without taking its place, and there are enough keys to exceed the bound; a TTL
  of three units, a transaction of up to one unit and one clock that is ahead: a
  claim can fall before, at and after the end of a window and race with another one.
  A claim begins while fewer than three were accepted, so four can be.  The keys
  with one fingerprint are interchangeable.
* `scanner_scheduler` has no bounds but two instances.
* `candidate_store`: two symbols, a setup life of two candles against a cooldown
  of one and room for one terminal candidate, so that pruning and the end of the
  cooldown both come before the setup would match no more.
* `signal_pipeline`: two symbols whose positions do not fit into the margin
  together although each does and both slots are free; three runs are the recovery
  scan and two more, or a restart and one more; setups outlive the entry candle by
  one unit.  A refresh that prunes a candidate whose signal was read since needs more
  than these; `CompletedRunLeavesCurrent` allows for it, and its theorem covers it.

### Fairness

`ExecutionWorker` assumes weak fairness of `Tick`, `Land`, `Start`, `ProcessOne`,
`ValidateLeader` and `Reconcile`: the event loop runs its loops, every exchange
request has a client timeout, the platform restarts a dead process, and each
loop repeats until the process ends.  Nothing is assumed of enqueues, crashes,
lost leases or failing reconciliation requests.  `AccountSnapshot` assumes that a
thread with work to do gets on, by success or by failure (`Work(t) \/ Fail(t)`):
every poll has an HTTP timeout.  `TradeExit` assumes that a close request that was
begun gets on, that a client whose trade is not closed asks again, that the loop
repeats while it runs, and that the exchange matches a market order it accepted.
Nothing is assumed of protective fills, of faults or of crashes.
`ScannerScheduler` assumes that the event loop runs ready tasks, that a run ends
(its requests time out, and a cancelled one reaches its next await) and that time
passes; nothing is assumed of starts, stops, manual runs, crashes or lost
sessions.

## 4. Findings

**Fail-over can double an entry** (`worker_failover`).  The lease is proved before
SUBMITTING and never again; an instance that loses it there and stalls past
`claim_timeout_seconds` submits the entry its successor submits too.
`PROJECT.json` quotes the line it contradicts.

The following behaviours are reachable in the models and have no run of their
own.

Execution:

* A retry of an entry that was closed in an emergency finds the FILLED order of
  the first attempt and stores an open trade without a position
  (`execution.py:581`), and its command is completed over it.  `CompletedIsProtected`
  promises the position only of a signal that was submitted once.
* An entry can be sent after its setup or its entry candle ended.  The expiry is last
  compared with the clock in `revalidate` (`execution_command.py:170`, `:339`); the
  lease, SUBMITTING, the intent, the second assessment and four exchange calls follow
  before `place_market_order` (`execution.py:583`).  In `SignalPipeline` the steps
  `Revalidate`, `Tick`, `Assess`, `Enter` show it.  `docs/phase5-risk-execution-worker.md:65`
  says that the worker re-proves the expiry "immediately before submission".  What
  holds, and is checked and proved, is `EntryProvedWithinSetup`: the claim that sends
  the order was proved in time.
* A crash after ENTRY_CONFIRMED strands the command: the stale-claim branch covers
  CLAIMED and SUBMITTING only (`execution_command_repository.py:254`).
* A command whose entry was executed and whose answer was lost, with the query
  after it failing too, is blocked by its own position when it is retried, because
  revalidation comes before the query for the entry (`execution_command.py:200`).
* A stop or take profit that fills around a restart makes startup recovery fail,
  and `lifespan` then does not start the loop that would have recorded the exit
  (`main.py:222`).

Account snapshot:

* `force_refresh` can return state read before the call: it joins a poll already
  under way (`account_snapshot.py:209`).
* A poll that began before an order can publish its picture after the order
  invalidated the cache; `AnswerShowsOldChanges` bounds how long it is served.

Order audit and replay guard:

* In a cycle the audit runs before `protective.reconcile()`
  (`global_reconciliation.py:105`), so a stop or take profit that filled since the
  last cycle is FINISHED before the trade records an exit.  The audit reports it
  and shuts the gate; the exit itself is recorded right after.
* A claim whose transaction lasts longer than the TTL is answered ACCEPTED for a
  key that another request holds or held (`security.py:141`).  Without
  repositories a key is accepted once per process.
* With repositories the window of a key ends by the clock that is furthest ahead:
  an instance may find its row pruned by another whose clock is ahead, or whose
  claim began later, and accept the key while by its own time the window is open
  (`repositories.py:344`).

Scanner, signals and recovery:

* A DEGRADED refresh can invalidate a candidate while its signal stays ACTIVE,
  because superseding asks for a COMPLETED run (`signals.py:353`,
  `decision_signals.py:108`); until the signal expires it can still be entered.
  SKIPPED runs hide a COMPLETED one in the same way.
* Recovery asks for QUALIFIED candidates (`recovery.py:465`), which the wired
  scanner never leaves behind after a full scan, so an ACTIVE signal at startup
  keeps automation locked.
* A refresh that is refused at the volatility gate has already replaced the
  provenance of its symbol, and the wrapper writes it over the candidate's: the
  old facts then carry a new version, and a READY decision is renewed.
* A refresh cancelled by `stop()` leaves a candidate QUALIFIED.  One that has ended
  a candidate and pruned it leaves the candidate's signal ACTIVE until the next
  COMPLETED run is recorded, if the signal was read after the last one.
* A validation that fails on a session that lives on leaves the lock with the pool
  (`scanner_runtime.py:236`): until that session ends, another instance's `start()`
  is refused, and so may be the instance's own.
* A run that `stop()` cancelled can postpone the first scan after a quick
  `start()` by one interval; after the lock is lost, a refresh that was due beside
  a full scan still begins.

## 5. Proofs

Every theorem below holds for every value of the constants that satisfies the named
assumption of its module: any number of instances, threads, commands, keys or
symbols, any quantity, any timeouts, faults and bounds.

### What is proved

| Module | Theorem | States |
|---|---|---|
| `CommandStoreProofs` | `StoreTypeCorrect`, `AuditTrailCorrect`, `CompletedWalked` | `StoreSpec => []StoreTypeOK`, `[]AuditTrailIsLegalPath`, `[]CompletedWalkedEveryStage` |
| | `TrailGrows`, `ClaimExclusive` | `StoreSpec => TrailOnlyGrows`, `ClaimIsExclusive` |
| `ExecutionWorkerProofs` | `WorkerTypeCorrect`, `EntriesAreRecorded` | `Spec => []TypeOK`, `[]EntryIsRecorded` |
| | `WorkerCallsTheStore` | `Spec => StoreCalls`: the worker implements the queue |
| | `WorkerTrailCorrect`, `WorkerTrailGrows`, `WorkerClaimsExclusively` | the properties of the queue, of the whole system |
| | `SignalIsEnteredOnce`, `CompletedTradeIsProtected` | for one instance: `[]OneEntryPerSignal`, `[]CompletedIsProtected` |
| `AccountSnapshotProofs` | `SnapshotTypeCorrect`, `PollIsSingleFlight`, `ForcedIsNew`, `StalenessIsBounded` | `Spec => []TypeOK`, `[]SingleFlight`, `[]ForcedAnswerIsNew`, `[]AnswerShowsOldChanges` |
| `TradeExitProofs` | `ExitInvariant`, `PositionIsNotReversed`, `DurableCloseIsExplained` | `Spec => []TypeOK`, `[]NotReversed`, `[]ClosedIsExplained` |
| | `CloseHasOneOutcome`, `EventsAndRowAgree`, `ClosedTradeStaysClosed` | `[]OneOutcome`, `[]EventsMatchTrade`, `ClosedStaysClosed` |
| `OrderAuditProofs` | `AuditRecordsAreTrue`, `AuditRecordsAreReadable`, `TruthStaysRecordable` | `Spec => []AuditedIsTrue`, `[]RecordsAreReadable`, `[]TruthIsAccepted` |
| | `AuditImplementsLedger` | `Spec => ImplementsLedger`: the audit implements `OrderLedger` |
| `ReplayGuardProofs` | `KeyAcceptedOncePerWindow`, `RefusalsAreJustified`, `RegistryIsBounded` | `Spec => []AcceptedOncePerWindow`, `RefusalIsJustified`, `[]LiveKeysBounded` |
| `ScannerSchedulerProofs` | `OneSchedulerIsValidated`, `EnabledScannerHasScheduler`, `LostSchedulerRunsOnceMore` | one validated scheduler, `[]EnabledHasScheduler`, `[]AtMostOneRunAfterLoss` |
| `SignalPipelineProofs` | `EndedNeverReturns`, `PipelineNeverRevives` | `[]EndedStaysEnded`, of the store and of the pipeline |
| | `ExposureIsBounded`, `CompletedRunsLeaveCurrent`, `EntriesAreProvedWithinSetup` | `Spec => []ExposureBounded`, `[]CompletedRunLeavesCurrent`, `EntryProvedWithinSetup` |

Each module also has its inductive invariant as a theorem (`WorkerInvariant`,
`AloneInvariant`, `ExitInvariant`, `AuditInvariant`, `GuardInvariant`,
`SchedulerInvariant`, `PipelineInvariant`), checked by TLC before it was proved.
`EndedNeverReturns` is about `CandidateStore` alone; its module is the pipeline's,
which extends that store.

### The arguments

**Queue and worker.**  Types are inductive.  Every call of the repository inserts,
moves or re-claims a row (`Extends`), and each of these extends a legal path
(`PathAppend`, `ExtendsKeepsPath`); COMPLETED is entered from PROTECTED only, and so
on back to one claim.  The lemmas are about `StoreCall`, one call by anybody, so
once every step of the worker is shown to be such a call or a stutter
(`WorkerCalls`), the same lemmas prove the queue's properties of the whole system.
`EntryIsRecorded` is not inductive: a submission is recorded because the worker that
makes it has passed SUBMITTING and the intent (`WorkIsRecorded`), and nobody takes a
record back (`SubmittedStays`, from the trail being append-only).

**One entry, with one instance** (`Alone`). The hypothesis is needed:
`worker_failover` refutes `OneEntryPerSignal` for two instances. With one, its
crashes and restarts included, the invariant adds that while the worker may submit
nothing is under way and the exchange does not have the entry (`EntryIsQueried`),
that each step of the activation has earned what it acts on (`StepIsEarned`), and
that a stored trade is protected (`TradeIsProtected`). The position is a part of its
own (`PositionIsKept`): an emergency close is the last call of an attempt, so as
long as the signal was submitted once, nobody has closed the position a trade stands
for, and a second record of SUBMITTING is never taken back (`SubmittedTwiceStays`).
`Start` and `Tick` wait for requests in flight; section 2 says why the code does.

**Account snapshot.**  A waiter is answered only from a cache that holds a snapshot;
`refreshing` and the polling thread change together; if the cache holds anything but
what a waiting call observed, a poll has been published since (`WaiterSawTheCache`).
For the staleness: a poll reads both halves after the `captured_at` it claims
(`PollsShowOldChanges`), so the cache and every answer show all changes before it.

**End of a trade.**  Fills are final and add up to the entry quantity (`FillsAddUp`),
so at most one order can have filled all of it.  Every record of the trade anywhere
under way (memory, row, intent, request, scan) that says CLOSED names that order
(`RecordsAreSound`, `RequestsAreSound`, `ScanIsSound`), so however late a writer
overwrites the row, it writes the same story.  The first outcome of an intent stays
(`OutcomeIsFinal`).

**Order audit.**  Orders only grow and a terminal one is final (`OrdersMatch`), so
evidence that was exact when it was verified never becomes false (`EvidenceIsSound`,
`CloseIsProved`), and neither does a record written from it (`RecordsAreSound`); an
audit has read what its step says (`AuditProgresses`).  `AuditImplementsLedger` maps
each step to one of `OrderLedger` or a stutter.

**Replay guard.**  Two claims under way at the same moment began less than a window
apart (`ClaimsAreSound`, from `MaxStall + 1 < TTL`), so a row that one of them
commits is live for the other (`OthersAreLive`), and behind its first statement a
transaction meets no expired row.  What it has locked is over by its own clock
(`LockedIsOver`) and locked by nobody else (`LocksAreExclusive`), so a row that
disappears has a window that is over (`RowsHoldWindows`).  For the size: a claim that
has counted either adds one row or takes away one that is live for a slower clock
(`RowsFit`), and every claim that adds is one instance's.

**Scheduler.**  A live session holds the lock (`LiveSessionHoldsLock`); a late run is
the refresh behind a full scan, so a loop that still has it before it has had none
(`LateRunIsTheRefresh`).

**Candidates and pipeline.**  What ended has a tombstone (`EndedHasTombstone`) and is
not among what a refresh has still to do (`TodoIsLive`), so neither kind of run
brings it back, pruned or not.  The expiry of an ACTIVE signal never lies beyond its
setup or its entry candle (`ActiveExpires`).  A signal whose decision no candidate
has any more was last changed before the last recorded run, unless the candidate was
pruned (`UnseenAreOld`).  An assessed command in hand still has room for its position
(`HandLeavesRoom`): nothing enters one behind its back, so closing a position only
leaves more, and `ExposureBounded` is inductive beside the others.  A command in hand
was proved before its setup and its entry candle ended (`ProvedInTime`, from
`ActiveExpires` at the revalidation), and that does not change while time goes on.

### Assumptions

| Assumption | Asks |
|---|---|
| `BoundsAssumption`, `WorkerAssumption`, `SnapshotAssumption`, `ExitAssumption`, `AuditAssumption` | numbers are natural, the timeout, the lifetime and the quantity positive; each command has a signal; the leader is an instance; the values that stand for *none* are none |
| `SchedulerAssumption` | `None` is no instance |
| `StoreAssumption`, `PipelineAssumption` | finitely many symbols and setups, limits and margins are natural numbers |
| `GuardAssumption` | finitely many instances; a transaction and the difference of two clocks together are shorter than the TTL (`MaxStall + 1 < TTL`: seconds against minutes in the code) |
| `Alone` | one instance; only `AloneInvariant`, `SignalIsEnteredOnce` and `CompletedTradeIsProtected` |

### What the proofs corrected

* `AcceptedOncePerWindow` used to say that two acceptances are a TTL apart by the
  clocks of their own instances.  That is false once the registry has room for two
  keys: with clocks that differ, another instance prunes the row first.  The property
  now says what the code keeps, and `replay_guard` has room for two.
* `CompletedRunLeavesCurrent` is false of a candidate that a refresh has ended and
  pruned while its signal was read again; the bounds of the run never reach that.
* The assessment of risk was a fold, and what a fold computes is proved by induction
  over data, which the prover does not have; it is now a statement about the order in
  which signals fit (`FitInOrder`): each approved one into what those before it left.

### What stays with TLC

All liveness (`CommandsSettle`, `NakedPositionIsFlagged`, `EveryCallReturns`,
`CloseIsRecorded`, `WatchedExitIsRecorded`, `ExitIsNoticed`, `ScansRecur`): fairness
and `ENABLED` are outside the prover's reach.  Every safety property of a passing run
has its theorem.  `OneEntryPerSignal` and `CompletedIsProtected` with two or more
instances have none: the first is refuted by `worker_failover`.

## 6. What is not modelled, and the plan

Out of scope, each for the reason given:

* candle arithmetic, indicators, setup formulas, scores and the universe filter:
  decimal formulas over market data, without state; their results are free choices
  of `CandidateStore`;
* `exchange_rules.py` and the comparison of the take profit in `_validate_trade`:
  exact decimal rounding;
* the caches of public market data: a failure there is unusable data of a moment;
* journal, performance and notifications: projections that the trading path never
  reads;
* request parsing, schemas, OpenAPI and settings;
* threads of one process that tear a dictionary update apart (`_synchronize` has
  no lock): every synchronisation is one step.

Not composed: the order audit within the cycle of `TradeExit`, and the worker's
steps within `SignalPipeline`; each is the product of two state spaces that are
already near the limit of a complete search.

What is left:

1. What holds of the entry with two or more instances: a theorem that bounds the
   entries of a signal by the number of lost leases, instead of the hypothesis of a
   single instance.
2. `ReplayGuard` as an implementation of an abstract guard (an atomic claim), by a
   refinement mapping at the commit of the transaction.
3. The hazards without a property (`execution_command.py:200`, `recovery.py:465`).
