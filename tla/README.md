# Scoop: structured cooperation of distributed sagas, in TLA+

Scoop runs sagas ("distributed coroutines") on PostgreSQL. A message is handled
by every saga subscribed to its topic; each handling is a *run* that executes the
saga's steps one transaction at a time, launches further messages, and is resumed
for its next step only when everything its last step launched is over. When
something fails, the tree of runs is compensated in reverse. Nothing is kept in
memory but timers: the state is the append-only table `message_event`, and the
protocol is a set of SQL statements over it, executed by workers that compete for
row locks. This project models that protocol and what drives it, checks it with
TLC, and proves its main safety properties with TLAPS.

## The system

| part | state | operations | what makes it correct |
|---|---|---|---|
| **Event loop, executing a run** (`EventLoop.ts`, `continuation/*`) | `SUSPENDED`, `COMMITTED`, `ROLLING_BACK`, `ROLLED_BACK`, `ROLLBACK_FAILED` rows of the run; the transaction on it | pick, build the continuation, one step (`invoke`, `handleChildFailures`, `rollback`), suspend / commit / fail | a step runs only when its children are over; one worker per run; no forward step after the rollback began |
| **Rollback continuation** (`RollbackPathContinuation.ts`) | derived from the run's log at every resumption | which compensation is next | each step once, newest first, children first |
| **Readiness query** (`PendingCoroutineRunSql.ts`, strategies) | reads all rows | which runs may be resumed; what they are told of their children | no ready run forgotten, none resumed early, each told of its own children only |
| **Starting continuations** (`MessageEventRepository.ts`) | `EMITTED`, `SEEN`, `ROLLBACK_EMITTED`, `settled_at` | reconcile (start runs, start rollbacks, clear stale stamps), requests from outside | a child starts only under a suspended parent, once per handler |
| **Tick loop and gate** (`tickPeriodically`, `ReconcileGate.ts`) | per worker: permit, timer, two latches, two quiet counts, two sweep times; backoff | scheduled and notified ticks, close | ticks of a worker never overlap; a notification is never lost; idle workers go quiet; losing all notifications costs time only |
| **Queue and notifier** (`PostgresMessageQueue.ts`, `PostgresTopicNotifier.ts`) | registered workers, callbacks per topic, shutdown flags, the pool | subscribe, close, pause, count connections | close waits for the tick in flight; the pool is never used up by those who wait for it |
| **Settled flag** (`SettledFlag.ts`, V6) | `settled_at` of a SEEN row | set and cleared with the events; repaired by a maintenance job | a run with work to do is never invisible |
| **Context, deadlines** (`context/*`, `eventloop/deadline/*`) | JSON beside each row | merging along the tree | the earliest deadline wins |
| **Builder patterns** (`Sleep.ts`, `TryFinally.ts`) | context elements | sleep, schedule, repeat, finally | finally exactly once, the run count exact |
| **Return values** | `return_value` | set once, read | one value per run |

Components interact through the table and its row locks only: a worker's reconcile
statement locks the SEEN row of an *emitter* to start its children; a worker's
drain locks the SEEN row of the *run* it resumes; clients insert requests without
locking anything. Triggers send NOTIFY on new messages and rollback requests.

The hard parts are what happens between statements: snapshots taken before a lock
is obtained, `SKIP LOCKED` that turns waiting into retrying, the two-transaction
failure path, requests that arrive at any time, and crashes between any two
commits. `PROJECT.json` lists these hazards at their lines, each with the
properties that would catch it or the reason none does yet.

## Modules

| module | models | state and actions |
|---|---|---|
| `CooperationTree` | cooperation lineages: runs, scopes, emitters | constants only: `Run` is `<<message, handler>>`, since `unique_seen_handler_msg` admits one SEEN per handler and message |
| `MessageEvents` | the table and the queries over it | `ticks[r]` the SUSPENDED rows of a run with what each window emitted and undid, `marks[r]` its one-time rows, `lastEvent[r]` the type of its newest row, `seen`, `emitted`, `requested` (the scope behind a ROLLBACK_EMITTED), `settled`, `cancelled`, `expired`, and `asking`, the rollback requests that clients have inserted and not committed. `Ready`, `StartEligible`, `RollbackEligible` are the queries. |
| `EventLoop` | workers and clients | per worker: `pc`, the run it picked, the continuation it built, the snapshot of its reconcile statement. `ReconcileBegin/Lock/Commit` are the statement's snapshot, its lock attempts and its commit; `Select`, `Claim` / `LosePick` the unlocked pick, the locked re-check and the continuation; `Suspend`, `UndoChildren`, `Finish`, `Fail`, `Abort`, `Crash` the outcomes of a step; `Launch`, `Cancel`, `Expire` the environment; `AskRollback` is a client's `INSERT ... WHERE NOT EXISTS` on its snapshot, `RequestRollback` / `WithdrawRollback` the commit or the end of its transaction without one |
| `StructuredCooperation` | what the library promises, without rows, locks or transactions | `Launch`, `Start`, `Enter`, `Leave`, `Commit`, ... over the status of each run |
| `EventLoop_proofs`, `EventLoopTree_proofs`, `EventLoopRollback_proofs`, `EventLoopPromise_proofs` | theorems about `EventLoop`: a run and its own log; what its outcome says of the runs below it; what the end of its rollback says of its tree; when runs start, and the refinement to `StructuredCooperation` | each extends the one before |
| `MCEventLoop` | the trees on which `EventLoop` is checked | Chain, Retry, Deep, Pair |
| `EventRows` | the rows of one run as the database keeps them, beneath what `EventLoop` takes for granted | `rows` with their `created_at`, the flag `settled`, who holds the SEEN row; a step's transaction with its uncommitted rows (`Dispatch`, `Emit`, `Suspend` / `Finish` / `Fail`, `Abort`, `Crash`), clients' rows (`RequestRollback`, `Cancel`), reconcile's rollback half (`ReconcileBegin/Commit`), `repairSettledFlags` (`RepairBegin` ... `RepairEnd`) |
| `EventRows_proofs` | theorems about `EventRows` | |
| `MCEventRows` | two workers on one run | |
| `CooperationContext` | `CooperationContextMap`: a context is a serialized and a deserialized map | operators only: `PlusElement`, `PlusMap`, `Minus`, `Get`, `Written` (what `fold` writes to a row) |
| `ScopeContext` | the event loop with the context column, and `tryFinallyStep` on top of it | `emittedWith`, `own`, `requestedWith`, `trigger` are the contexts of the EMITTED row, of the row a run resumes from, of ROLLBACK_EMITTED and of reconcile's ROLLING_BACK; `scope[w]` is `scope.context` of the step being executed; `blockRuns` counts the runs of finally blocks whose effects were committed. Every action is one of `EventLoop` with its contexts. |
| `ScopeContext_proofs` | theorems about `ScopeContext`, and lemmas about `CooperationContext` | extends `EventLoopTree_proofs`, whose invariants it uses |
| `TryFinally_proofs` | theorems about `tryFinallyStep` | extends `ScopeContext_proofs` and `EventLoopRollback_proofs`: a block runs on the way forward or in the compensation of its try step, and it takes the contexts and the log together to tell which |
| `MCScopeContext` | hierarchies with kinds of steps and additions to contexts | TryInChild, TryInBoth, Timeouts |
| `ReconcileGate` | the gate of one worker | a record; one operator per method |
| `TickLoop` | timers, notifications, ticks, the pool's connections, close | per worker: gate, permit, timer, the tick of each source; a tick moves from the begin of a transaction (`opening`, `draining`) into it (`reconciling`, `fetching`, `resuming`), and a step that throws from `failing`, the begin of the separate transaction, to `marking`. A run is reduced to how far it got (EventLoop has the detail) |
| `TickLoop_proofs` | theorems about `TickLoop` | |
| `MCTickLoop` | workers on their ticks | |

`EventLoop` implements `StructuredCooperation` under the mapping at its end
(`Promise`): a run counts as rolling back from the moment its rollback is
requested, and as busy while a drain transaction is on it. The run `Failures`
checks it as the property `KeepsPromise`, and `LoopKeepsPromise` proves it.

### What the models abstract

* Time stamps. `created_at` is used by the code to tell which emissions fall into
  which window between two SUSPENDED rows. `EventLoop` keeps for each SUSPENDED row
  the set of messages of its window; that the windows over `created_at` are these
  sets is what `EventRows` shows of one run and `EventRows_proofs` proves.
* The flag `settled_at`. `EventLoop` has its regular writers; `EventRows` has all of
  them, on their own snapshots, and in exchange leaves open what a step does and
  waits for. Its pick and locked re-check are one step (`EventLoop` has both).
* Step names are positions in the saga; the synthetic rollback steps are
  `<<"undoChildren", i>>`, `<<"undoSelf", i>>` for the tick `i` that they undo,
  and the sentinel. The code finds its place in the list of sub-steps by their names
  (saga's step, iteration, handler's iteration), which need not be distinct:
  `Namesakes` are the ticks that share them, and `Found` is the sub-step the code finds.
* Payloads and exceptions. An exception is only present or absent. A deadline may
  pass at any time (`Expire`); in `ScopeContext` it is also a number, for the merge.
  What a key holds is the same whether it is JSON or an object.
* What a saga does is a parameter: how many steps, which message it launches in
  which mode, where it may throw, whether it may loop (`NextStep`).
* READ COMMITTED and `FOR UPDATE SKIP LOCKED`: a statement sees what was committed
  when it began; a lock attempt sees the locks of its moment; rows show at commit.
  A client's request is stamped when it is inserted and shows later, behind what the
  run has written meanwhile (`asking`, with the SUSPENDED rows of that moment); a second
  one for the same message waits in the unique index (`Asked`). A cancellation checks
  nothing, so only its place in the log is left open (`Cancel`).
* Connections. A transaction takes one from the pool when it begins and waits for it
  without a limit, as postgres.js does; LISTEN has a connection of its own. Other
  users of the pool give theirs back without the help of a tick and are left out.
* The event loop's ticks are not in `EventLoop` (a worker may reconcile or drain
  at any time), and what a run does is not in `TickLoop`.

## Runs

All runs use one to three workers and finish within a few minutes.

| run | tree and bounds | asks |
|---|---|---|
| `Failures` | Retry: a parent of 2 steps, a child, a repair; any step throws; a client rolls back the root, which is completed when it asks; two workers for the parent; 2 ticks before a run only continues, 1 repair that returns, 1 crash or infrastructure failure; under fairness | `TypeOK`, `CompensatedOnceInReverse`, `NoForwardStepAfterRollback`, `StartsUnderSuspendedParent`, `KeepsPromise`, `EverythingEnds` |
| `Hierarchy` | Deep: parent, child, grandchild; the parent loops, may throw and repair, the child may throw; rollback of the root and of the child's scope, asked for at any time and overtaken by whatever starts before the client commits (the child's only once it is completed), cancellation of the parent's scope, the parent's deadline for its way back | the parent waits for the subtree in both directions and does not abandon it when it gives up; outcome of the root = outcome of the tree |
| `Contexts` | Retry with try/finally in the child; the client's deadline is 2, the parent launches ship with deadline 1, 3 or none; any step but a finally step throws; rollback of the completed root, cancellation of the child's scope, the parent's deadline for its way forward, 1 crash | `FinallyRunsOnceUnlessGivenUp`, `EarliestDeadlineWins` |
| `EventRows` | two workers and the repair; a clock that answers 0 or 1 at any time; 2 SUSPENDED rows, 1 emission per tick, 1 client's row; under fairness | `TypeOK`, `WindowIsTick`, `OnlyFinishedIsHidden`, `RollbackGoesOn` |
| `Ticks` | two workers, two runs of one step, notifications delayed and lost, two failures, three connections, one worker hears notifications and is closed, no sweep, ticks are paused (`TroublesApart`) | `OneTickAtATime`, `ReadyRunHasAWorker`, `PoolSuffices`, `ClosedMeansStopped` |
| `Sweeps` | one worker, two runs of two steps, two passes that find the row locked, one half that throws, under fairness | `TypeOK`, `SignalKept`, `EveryMessageIsHandled`, `GatesGoQuiet` |

Why the bounds are enough: each hazard needs a parent that has a tick to move past
(2 steps), a child to overtake, and for what is told of children a second run of
the same handler; a rollback that collides needs one request inside the tree and
one above it; a grandchild tells "its children" from "everything below".
Two workers of the same handler are what row locks are about; a third serves the
other handlers. One crash or infrastructure failure can strike between any two
commits. Deadlines are told apart by their order only: one earlier and one later
than the client's. In `EventRows`, a clock of two instants stands still and goes
back, one emission makes a window that can be missed, and two ticks make windows
that can be confused. In `Sweeps`, two failed passes are exactly QUIET_TICKS - 1: with three,
`SignalKept` is false, and the message waits for the safety net. In `Ticks`, two runs
and two failures let the steps of both workers fail at the same time: with two connections
the run violates `PoolSuffices` as `PoolDrained` does, with three it does not. For this
to be feasible only the worker that is closed hears notifications (`Hearing`), no worker
lives to see a safety-net sweep (`Sweeping`, which `Sweeps` is about), and runs are
symmetric; by `TroublesApart`, a worker closes while at most one half of a tick failed,
and the queue is paused while nothing is wrong, which loses no state: all a pause does is
to keep timers from firing. The four properties are safety properties, and proved for
all bounds.
A run gives up by the same code whether a cancellation or a deadline makes it
(`giveUpIfNecessaryQuery`): `Hierarchy` and `Contexts` have one of either, each of
another run or in another direction.
`MaxTicks` and `MaxRecover` only stop loops that a saga may run for ever.

Clients. Of `rollback` the code says that it "requests rollback of an already-completed
saga" (Capabilities.ts:109). `EagerScopes` are the scopes for which clients do not wait for that.
There are none in `Failures`, whose properties do not hold otherwise (`LateRequest`), and none
in `Contexts`, to keep it small (`FinallyOnce` and `EarliestWins` are proved without this). In
`Hierarchy` the root is one: its properties hold also where requests are overtaken.

`CHECK_DEADLOCK FALSE` is used where the system may really stop: when all runs of
the tree are over and no client asks for anything. The tick loop never stops, and
`Ticks` and `Sweeps` check deadlock.

### Where code and documentation disagree

Six runs expect a violation; each shows one disagreement (`findings` has the
quotes and lines).

* `ForeignFailure`: the select that gathers failures of children does not restrict
  "failed to roll back" to the children of the picked run. Two runs of a handler
  side by side: the second is given the first one's failure when it is about to undo its
  children; the loop calls `handleChildFailures` instead, counts the sub-step as done, and the run
  ends in ROLLED_BACK over a child that stays COMMITTED.
* `LateRequest`: a request from outside asks whether the tree is quiet on the snapshot of
  its statement, and shows when the client commits. Meanwhile the root's run is started,
  executes its first step and launches its child; reconcile then inserts ROLLING_BACK,
  the child cannot start any more, and the run waits for its start for ever. The same gap
  lets a run that executes a forward step record it after ROLLING_BACK, a handler start under a
  parent that has turned around, and a run that the promise says cannot be requested be requested:
  `NoForwardStepAfterRollback`, `StartsUnderSuspendedParent` and `KeepsPromise` hold only for
  clients whose requests are not overtaken (see Theorems); on the tree of this run TLC
  violates the last two, and the first with a second worker for the parent.
* `RolledBackTwice`: rolling back a child's scope and then the whole tree makes the
  parent's request collide with the child's on a unique index, at every retry.
* `CancelledEarly`: a run cancelled before its message was picked up waits, on its
  rollback path, for the rollback of a run that never was.
* `PoolDrained`: a step that fails holds the connection of its transaction while it
  asks the pool for a second one, to write ROLLING_BACK. With the connections that
  `requiredConnectionCount` asks for, one per worker, workers whose steps fail
  together wait for each other for good. One more is enough (`PoolIsEnough`).
* `FinallySkipped`: the list of finally blocks that ran is handed to every child with
  the rest of the context, and blocks are named by their position: a child with its
  try/finally where its parent has one never runs its block, and commits.

Read in the code, and not a run of their own:

* Failures of children that were dealt with by `handleChildFailures` are gathered again,
  because `child_rolling_backs` considers the children of all steps
  (PendingCoroutineRunSql.ts:171): the handler is called once more although nothing new failed,
  until it throws. V4__add_loop_columns.sql:18-21 says that it is called again "if any of those
  child handlers fail", those that it launched. `CommittedMeansTreeCommitted` holds because of it:
  a parent never commits over a child that failed, handled or not.
* `trigger` does not ask `isShuttingDown` (EventLoop.ts:330), only the timer does: a
  notification starts a tick after `pauseTicks` or `close` of the queue
  (`TickLoop` has it so).
* A deadline that is added in a composite `CooperationContextMap` does not win
  against one that is only serialized: `plus` combines the two in the deserialized
  half, and `fold` writes the serialized one (`Composites` in `MCScopeContext` with
  `EarliestDeadlineWins`). The library's own calls add elements.
* SEEN and reconcile's ROLLING_BACK take the column default of `created_at`, the clock
  alone, although MessageEventRepository.ts:19-33 says that every row with a lineage is pushed
  past the last one. No window depends on these rows (`WindowIsTick`).
* ROLLBACK_FAILED is written while its own tick holds the SEEN row, so the flag is
  skipped and stays NULL until a repair: a failed rollback remains visible, and
  does no harm, since the log says that it is over.
* A finally block that throws in its own step, or whose step is cancelled, or meets a
  deadline, when it has run, is undone with its step, while ROLLING_BACK keeps the mark:
  the rollback does not run the block again. `FinallyRunsOnceUnlessGivenUp` excludes
  these cases by its definition and by `ThrowingKinds`.
* A tick after `handleChildFailures` was called keeps the handler's iteration
  (CooperationContinuation.ts:243-245 counts it, HappyPathContinuation.ts:84 carries it on),
  although it executes `invoke`. So it has no compensation of its own, and a try step that is
  executed so never runs its finally block when the rollback begins before the finally
  step (`SubStepAfter`). It takes a saga that recovered from a failure that is not
  gathered again (first item), that is, from another run's (`ForeignFailure`).
* If such a saga then loops, two sub-steps have one name (RollbackPathContinuation.ts:222): the
  search at :162 finds the newer one for either, and the rollback repeats what comes
  after it, or fails for good on the second ROLLBACK_EMITTED of one message. On the
  hierarchy of `ForeignFailure` with `Looping <- ParentLoops`, `CompensatedOnceInReverse` is false
  without its hypothesis `DistinctNames`. `ReverseOrderWithoutLoops` shows that it takes a loop.
* Even where parent and child have their try/finally at different positions, a rollback from
  above can make the child's block run a second time: the trigger brings the parent's list of
  marks, which takes the place of the child's own (`FinallyRunsOnceUnlessGivenUp` is violated on
  such a hierarchy, hence `TryAlone`).
* A saga that loops back over a try/finally runs the block the first time only: the
  mark is never taken away.
* A periodic saga hands its whole context to the next run (Sleep.ts:146), finally
  marks included.

The passing runs keep clear of these (one run of a handler at a time below a
failing rollback, requests at the root or no repair after success, requests for completed
sagas where overtaken ones do harm), and say so by their constants.

## Fairness

`EventLoop`: a transaction that began ends (WF of `Conclude`); each worker comes
around to reconcile and to select again and again (SF of `ReconcileBegin` and
`Select`): a tick does one and then the other, so a worker that is idle again and
again cannot forever do the one only. A client's transaction ends, one way or the other (WF of
`RequestRollback \/ WithdrawRollback`). Nothing else is assumed of clients, of deadlines,
or of user steps beyond that they return. Crashes are bounded.

`EventRows`: some worker dispatches the run, and some worker runs its reconcile half,
if they can again and again (SF), and a step or a reconcile that is begun again and
again does not crash each time (SF of the ways it ends); the transaction of a failed
step ends (WF). The repair ends once it began, and nothing makes it begin:
`RollbackGoesOn` does not count on it. The fairness is of the workers together,
because `SKIP LOCKED` promises nothing to any one of them.

`TickLoop`: timers fire, queries return (WF of `ScheduledLoop` and of each tick in
progress), children end and clocks reach wake-up times and sweeps (WF of `Wake`,
`BackoffOver`, `ReconcileSweepDue`, `DrainSweepDue`). Delivery of notifications is
*not* fair: `EveryMessageIsHandled` says that the sweeps alone are enough.

## Theorems

Proved for every tree, every assignment of handlers and workers and every bound,
from the named assumptions on the constants (`TreeAssumption`, `StepAssumption`,
`EventLoopAssumption`, `TickLoopAssumption`, `EventRowsAssumption`).

* `TypeCorrect`: `Spec => []TypeOK`. To be inductive it needs `Ranged`: the sub-step a
  worker is about to execute, and every sub-step in the log, undoes a tick of a user
  step that the run has.
* `ParentWaits`: `Spec => []ChildrenFinishedBeforeParentMoves`. The argument is about
  locks, and it is the reason for the double-checked pick. `Locking` - no two
  transactions hold one run's SEEN row, and a locked rollback was requested - keeps
  what was read at the claim the newest there is until the step ends: another
  worker needs the same row to write the run's log or to start one of its
  children. `Windows` - a tick launches messages or requests rollbacks, never
  both - makes the readiness condition that applied at the claim the one that
  covers the started children. `WaitingInv` is the conjunction of these with
  `TypeOK`, `Ranged` and the property.
* `ReverseOrder`: `Spec => []CompensatedOnceInReverse`. `CompensationInv` adds to
  types and locks that rows of synthetic steps exist only in runs that roll back
  (`UndosMeanRollingBack`) and that a worker's plan is the sub-step after the
  newest row (`PlansFollow`); the latter survives other workers because of
  `Locking`. That a next older tick exists whenever there is an older one is a
  well-foundedness argument (`NewestExists`). The property excepts runs of which two
  sub-steps share a name (`DistinctNames`).
* `ReverseOrderWithoutLoops`: the same without that exception, for runs of sagas that never
  go back to a step (`Looping`). `NamesInv` says that their user steps follow the saga, each
  further along it than the one before or a repetition by a handler that counts one
  more (`SagaOrder`), and that a continuation goes on so (`PlansFurther`).
* `OneTick`: `Spec => []OneTickAtATime` of `TickLoop`. The invariant is the property
  with the types of the gate and of the ticks: the permit is taken exactly while one
  of the two sources has a tick in progress, so the guard of the other keeps it out.
* `PoolIsEnough`: for finitely many workers and more connections than workers,
  `Spec => []PoolSuffices`. Ticks in a transaction are no more than workers, by
  `OneTick`'s invariant and an injection; if the pool is used up, some connection is
  the second one of its tick, and that tick does not wait.
* `TickLoopTyped`: `Spec => []TypeOK` of `TickLoop`. That the steps left of a run never pass
  zero needs `Resuming` - a run is resumed by one tick - and `ResumedIsReady`: it stays
  ready while it is, which is what the second query of `Fetch` is for.
* `ClosedIsStopped`: `Spec => []ClosedMeansStopped`. `Stopping` says that the timer of a
  worker that is being closed is never set again, and that a closed worker does not
  hold the permit; with `OneTick`'s invariant no tick is left.
* `SignalIsKept`: for MaxSkips < QUIET_TICKS, `Spec => []SignalKept`. `Signalled` counts: a
  message that was heard and is not started has left the mark, or a quiet tail
  that together with the skipped passes makes QUIET_TICKS, since a pass that leaves it
  behind has found its row locked; a pass that began before the
  message leaves the mark. The bound is sharp, as said under Runs.
* `RowsTyped`, `WindowsAreTicks`, `HiddenIsFinished`: the invariants of `EventRows`. The
  second adds `RowsInOrder`: among committed and uncommitted rows, those of a tick lie
  between the SUSPENDED row before it and its own. Only the holder of the SEEN row
  writes such rows, and each is stamped past all it sees - which includes the last
  SUSPENDED row, but not the rows of clients that commit meanwhile, nor need it. The third
  adds to the property the repair that is about to set the flag: what made it select the
  run is a row that nothing deletes.

* `CommitsTheTree`: `Spec => []CommittedMeansTreeCommitted`. `RunnerInv` adds to
  `CompensationInv` who owns a tick (`TicksOwned`) and in which direction a continuation
  runs (`RunnersFit`). `WaitedFor` then says that a forward step that is not doomed found
  all handlers of *every* tick ended and, unless it handles a failure, committed. It
  survives other workers, since a handler that has committed starts no rollback unless
  it is requested, and its parent's request would need the parent's lock.
* `ParentWaitsForRollbacks`: `Spec => []ChildrenUndoneBeforeParentMoves`. `UndoneInv` adds that
  what is taken up next is the latest tick or one a later user step has waited for (`UndoneInLine`), and
  that nothing below a tick that is undone runs forward (`UndoneNotForward`).
* `NeverForwardAgain`: `Spec /\ []RequestsInTime => NoForwardStepAfterRollback`. `RequestsInTime` says
  that no client's request is on its way, between its check and its commit, to a handler that has
  started and is not over. A request then reaches a run that executes forward only through the
  row lock of that run. It is a hypothesis on behaviours because the code does nothing to
  ensure it (`LateRequest`), and it is ensured by clients that keep to the documentation:
* `CompletedInTime`: where clients roll back whole hierarchies (`WholeHierarchies`) that are completed
  when they ask (`EagerScopes = {}`), `Spec => []RequestsInTime`. What a client found terminated stays so, and no
  other handler of the message can be there (`Completed`). `CompletedNeverForwardAgain`,
  `CompletedStartsUnderItsParent` and `CompletedKeepsPromise` are the theorems below without the hypothesis,
  for such clients, which are those of the run `Failures`.
* `NothingLeftBehind`: `NoChildLeftBehind`, in behaviours in which no run recovers on its way
  back. `LeftInv` says that without a recovery a run leaves a tick of its way forward
  once its handlers have ended (`EarlierAtRest`), and turns around at a tick whose handlers
  it asks to roll back first (`FirstUndos`). The hypothesis is needed: a run that gives up
  while a reconcile pass holds a snapshot taken before, whose rollback then meets a
  child's failed rollback, calls `handleChildFailures`, and so skips the undoing of
  children whose second handler the stale pass is about to start.
* `NothingLeftBehindUnlessGivenUp`: the same for `NeverGivesUp` - clients cancel nothing and no
  run has a deadline for its way forward - whatever is recovered from: every step has
  then waited for the handlers of all steps before (`PatientInv`).
* `UnhandledRollbackIsWhole`: a run in ROLLED_BACK whose `handleChildFailures` was not called
  on the way back has undone every step and seen every handler of everything it
  launched roll back. `WholeInv` follows the compensations through the log.
* `RolledBackWithItsTree`: `RolledBackMeansTreeRolledBack`, in behaviours in which the failed
  rollbacks a run is told of are its own children's (`FailuresAreOwn`), which is what the
  query does not see to (run `ForeignFailure`). `RolledBackWithItsTreeAlone` is the same without a
  hypothesis on behaviours, where each coroutine has one run.
* `StartsUnderItsParent`: `Spec /\ []RequestsInTime => StartsUnderSuspendedParent`, for `NeverGivesUp`
  and `WholeHierarchies` (clients roll back roots only). A reconcile pass chooses what to
  start from a snapshot and then locks the emitter; that the emitter is still suspended
  where it was follows because to leave it would have to wait for the very handler that
  is about to start (`PatientInv`), and a rollback from above reaches it only
  when all it launched has started (`RequestedStarted`), which is where it needs that requests are in
  time: a late one has ROLLING_BACK inserted without a lock. With a deadline or a
  cancellation it is false: a run that gives up turns around before.
* `LoopKeepsPromise`: `Spec /\ []RequestsInTime /\ []FailuresAreOwn => KeepsPromise`, for `NoGivingUp`
  and `WholeHierarchies`. Per kind of step one
  lemma says which action of `StructuredCooperation` it is (`CommitStarts`, `ClaimEnters`,
  `SuspendLeaves`, `UndoChildrenUndoes`, `RequestTurns`, `FailTurns`, `FinishEnds`,
  `LaunchLaunches`, `AbortLeaves`) or that it is none (`SilentSteps`). `RestInv` is what they
  need: only handlers of what a run launched or took back last are not at rest
  (`RestlessBelowLatest`), and none while a step of the run executes
  (`QuietBelowExecuting`). The abstract `Enter` asks exactly this of the tree, where the
  code asks it of rows. Who gives up enters rollback above children that run,
  which the promise does not allow; a client that rolls back a single run takes it from
  under a parent that executes; a request that is overtaken reaches a run that has started, which
  the promise's `Undo` rules out. `FailuresAreOwn` is there as for `RolledBackWithItsTree`: a run
  that takes over another's failure may end its rollback above children it did not undo.
* `ReadyIsWatched`: `Spec => []ReadyRunHasAWorker` of `TickLoop`. `WatchInv` says of each due run
  that no tick holds which worker watches it: one with the mark of a drain to
  come, or in a drain that goes on, because the one that it lost the row to ends its
  own drain later, having resumed something (`Carrying`).
* `ContextsFollowTheLoop`: `ContextSpec => Spec`; contexts decide nothing, and every theorem about
  `EventLoop` holds with them.
* `ContextsTyped`: `ContextSpec => []ContextTypeOK`. That a finally block's mark names a try step
  needs the event loop's invariants: which of the saga's steps a synthetic rollback
  step stands for (`Ranged`), and which of a continuation's methods is called
  (`RunnersMode`).
* `EarliestWins`: `ContextSpec => []EarliestDeadlineWins` if handlers add deadlines as elements
  (`ElementsOnly`; under Runs it says what happens otherwise). `DeadlineInv` follows the
  client's deadline through every row it is copied to: a continuation has its
  deadlines in the serialized half of its scope, which is what `Written` writes
  (`ScopesBounded`), and a trigger's row is either empty, when a client asked, or its
  parent's (`TriggersBounded`), so that merging it puts nothing off.
* `FinallyOnce`: `ContextSpec /\ []FailuresAreOwn => []FinallyRunsOnceUnlessGivenUp`, for
  `TryAlone` - no saga with a try/finally runs below another one - and finally blocks that do
  not throw. `TryInv` says that no list of marks comes from above (`UnmarkedInv`), so that
  a continuation has the marks of its run's newest row (`ScopesRemember`), and that what
  was run is what is marked (`Counted`): a block is marked in the transaction that runs it,
  and whoever finds the mark leaves it alone. So it is never run twice. That it is run at
  all needs the log: while a block is still to be run, its try step is the latest step of a
  run on its way forward, or is yet to be compensated (`OpenTicks`, `OpenPlans`), and a
  run does not end on such a log (`EndedClosed`). A try step has its compensation since it
  is never one that handled a failure (`HandlingInv`). Without any one of the three
  hypotheses TLC violates the property: see under Runs for marks from above and for blocks
  that throw; and a run that takes over another's failure (`ForeignFailure`) handles it before its
  try step, which then has no compensation. `FinallyOnceAlone` is the same without the
  hypothesis on behaviours, where each coroutine has one run.

The theorems about contexts rest on `KeyAssumption` and `ScopeContextAssumption` beside those
of the event loop.

Only model-checked: all liveness (`EverythingEnds`, `RollbackGoesOn`, `EveryMessageIsHandled`,
`GatesGoQuiet`), since TLAPS proves nothing from fairness or ENABLED here. The other
properties of the passing runs are proved, the refinement included, each under the
hypotheses given with it. No module of the project declares a RECURSIVE operator.

## Not modelled

* Return values: one INSERT guarded by a unique index and two SELECTs that the event
  loop never reads.
* Periodic sagas, which launch the next root message from within a step, and the
  arithmetic of sleeping: a sleeping run is one that becomes ready by itself.
* Subscribing and unsubscribing while messages are under way: who listens to a topic
  is a constant of the tree, as the code assumes ("who is listening" is called a
  placeholder in HandlerRegistry.ts). `ignoreHierarchiesOlderThan` is a filter on the data.
* The trace of a deadline, the nesting of failures, JSON and exception conversion.
* UUIDs, logging, setup, migrations as such, maintenance and test scripts.

## Plan

Done: the table and its queries, the event loop and its promise; the gate and the
tick loop with its connections; the rows of a run with their time stamps and their
flag; contexts, deadlines and try/finally on top of the event loop; the refinement to
the promise, and the safety properties that the passing runs check, proved. Next:
periodic sagas on top of the promise.
