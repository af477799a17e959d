# Verification of Jingle

Jingle is a desktop launcher with an AI agent workbench (Electron, TypeScript). This directory
holds TLA+ models of the parts that run the agent: who may work on a conversation thread, how a
run ends, what is written about it, and what a crash leaves behind. TLC checks them on small
instances, TLAPS proves their main properties for every value of the constants.

All of the code runs on one JavaScript event loop. What is hard is not parallel execution but
what happens *between two awaits*: a decision is taken, something is awaited, and another
function has changed the state when the first one goes on. So the modules have one step per
piece of code between two awaits, and everything awaited (a port, a database, a model stream)
answers at any later time, with a result or an error.

## 1. Inventory

| Component | State | Operations | Interacts with |
| --- | --- | --- | --- |
| **Runtime thread** (`packages/langchain-agent-harness/src/runtime-thread-*.ts`, `runtime-execution-context.ts`) | registry thread -> current operation; per run: execution barrier, abort controller, terminal referee with its memoised commit | `startInvoke`, `startResume`, `compact`; on a handle `execute`, `abort`, `fail` | the host's lifecycle ports (begin, complete, fail, abort, cancel, settle), the model stream, the stream observer |
| **Thread lifecycle gate** (`src/main/agent/thread-lifecycle-gate.ts`) | per thread: promise chain, lease, deletion, recovery mark; shutdown flag | `claimRun`/`complete`, `withIdleMutation`, `withDeletion`, `requireRecovery`, `shutdown` | agent service (runs), thread service (deletion, model change), application exit |
| **Run persistence and recovery** (`src/main/agent/persistence.ts`, `src/main/db/hitl.ts`, `lifecycle.ts`, `run-failure-terminal.ts`) | SQLite: Run, run events, HitlRequest, Checkpoint, Thread | begin, sync with the checkpoint, complete, abort, fail, decide and resume, recover at start-up | the gate's lease, the checkpoint saver, start-up |
| **Checkpoint saver registry** (`checkpointer-manager.ts`) | thread -> entry (creation promise, saver, close operation); the close-all operation | `get`, `close`, `closeAll` | runs, deletions, shutdown; the projection flushes |
| **Checkpoint store and compaction** (`checkpointer/prisma-saver.ts`, `checkpoint-compaction-store.ts`, `compaction-controller.ts`, `db/message-state.ts`, `db/threads.ts`) | checkpoints that name versions of the messages, a log of message changes, pending writes, compaction receipts; a serial write queue | `put`, `putWrites`, `compact`, `cloneThread`, `cloneUntilMessage`; *not modelled:* `deleteThread`, retention, blobs | graph library, runtime thread, thread service |
| **Follow-ups and steering** (`run-steering.ts`, `agent/service.ts` `steerActiveRun`, `controller.ts`, `agent-thread-runner.ts`) | a queue per thread; per run a buffer of pending follow-ups and an accepting flag; the status each page shows | steer, send, queue, drain, give back; `accept`, `close`, `drainForModelCall` | model middleware, message rows, the gate's recovery mark, several windows |
| **Runtime client** (`packages/agent-client`, `renderer/src/lib/agent-control.ts`, the snapshot reducer, the replay buffer of `agent-thread-runner.ts`) | applied revision per thread, pending batches, resync marker; the events kept for a replay | `ensureThreadRuntime`, `loadThreadData`, `cleanupThreadRuntime`, replay | the main process, over IPC |
| **Computer use** (`packages/computer-use-core`, `main/db/computer-use-action-ledger.ts`) | attempts in memory and in SQLite; resource epochs, lanes, sessions, quarantines, the switch | `observe`, `execute`, `setEnabled`, `closeSession`, `closeRun`, start-up recovery | native helper, the run |
| **Projections** (`main/projection`, `main/content-cards`, `db/assistant-content-projection-jobs.ts`) | jobs with a generation, retry times; in-memory queues | mark dirty, claim, complete, fail, block, recover, flush | run events, readers, shutdown |
| Agent service (`agent/service.ts`, `controller.ts`) | active runs by thread | `invoke`, `resume`, `cancel` | all of the above |
| Extension runtime (`src/extension-runtime`, `main/services/extension-runtime`, `packages/extension-utils`) | worker sessions, cache leases in files, promise cache | start, stop, activate, revoke, release | extensions |
| Human approval, tool permissions | state of the graph | interrupt, decide, replay | graph library, HitlRequest |
| Message projection, traces, shell, windows, settings, renderer, shared schemas, model providers, installable extensions | derived rows, user interface and data definitions | - | - |

Bold parts have modules.

How the modelled parts interact: the agent service claims the thread at the **gate**, records
the run (**persistence**), starts it on the **runtime thread** and executes it; the graph asks
the **saver registry** for its saver and writes checkpoints; when the run ends the referee
commits through the service's ports, which write the outcome (**persistence** again), and the
service completes its lease. Deletion and shutdown enter through the gate, and close the savers.
The saver keeps its checkpoints in the **checkpoint store**, which a compaction and a clone read
and rewrite. While a run goes on, **follow-ups** are steered into it or wait for its end, its
events reach the windows through the **runtime client**, and its tools may drive the desktop
through **computer use**; what it has written is turned into parts by the **projections**.

What makes each part correct, and hard:

- *Runtime thread.* One stream per thread; one durable outcome per run, the one its callers are
  told; no work after the end has begun; a thread always given back. Hard because `execute`,
  several `abort`/`fail` calls, an external signal and failing ports interleave, and because a
  resume runs under the id of the run before it, by which the registry releases.
- *Gate.* Runs, deletions and mutations exclude each other; a marked thread admits nothing; a
  shutdown leaves nothing behind and returns. Hard because a claim decides before *and* after
  its wait, a deletion holds the chain while it waits for a run that is outside of it, and a
  second deletion joins the first.
- *Persistence.* A run pauses exactly when it can be resumed; an outcome is final; a decision is
  used once; a crash loses none of it. Hard because of crashes between any two transactions and
  of checkpoints written after the run was stopped.
- *Saver registry.* One saver per thread, never handed out while it is being closed, none
  forgotten open, flushes only after all are closed. Hard because closes wait for creations,
  gets for closes, and each of them may fail.

- *Checkpoint store.* A checkpoint reads for ever what it was put with; an operation compacts
  once. Hard because checkpoints share versions and one log of changes, puts arrive after their
  run was stopped, and a compaction summarises outside the transaction that commits it.
- *Follow-ups.* A message is heard by the run it was meant for, or kept where its user can see
  it. Hard because saving, accepting, showing and the end of the run are separate awaits, of
  several windows.
- *Runtime client.* A window shows what its revision says, and catches up after a gap. Hard
  because snapshots, replays and live batches arrive in any order, also after a reopening.
- *Computer use.* An action is sent at most once, onto what its caller has seen, and never after
  a stop; the record says whether. Hard because of duplicates, crashes between record and
  action, and helpers that cannot be killed.
- *Projections.* Nothing that was asked for is forgotten, a completed job is current, a shutdown
  ends. Hard because timers, recoveries, flushes and executions share their state.

`PROJECT.json` lists the hazards at their lines.

## 2. Modules

    RuntimeThread ---refines---> ThreadLease         RunPersistence ---refines---> RunLedger
      |- MCRuntimeThread                               |- MCRunPersistence
      |- Runtime_proofs                                |- RunPersistence_proofs
    ThreadGate                                       CheckpointerManager
      |- MCThreadGate                                  |- MCCheckpointerManager
      |- GateAndFollowUps_proofs                       |- SaversAndQueues_proofs
    ActionLedger ---refines---> ActionTransaction    ResourceScheduler
      |- MCActionLedger                                |- MCResourceScheduler
      |- ActionLedger_proofs                           |- ResourceScheduler_proofs
    ContentProjection ---INSTANCE---> ProjectionQueue
      |- MCContentProjection                           |- MCProjectionQueue
      |- ContentProjection_proofs                      |- SaversAndQueues_proofs
    CheckpointStore                                  RuntimeClient        FollowUps
      |- MCCheckpointStore                             |- MCRuntimeClient   |- MCFollowUps
      |- CheckpointStore_proofs                        |- Runtime_proofs    |- GateAndFollowUps_proofs

`MC*` give the constants values, `*_proofs` hold the theorems. `SaversAndQueues_proofs` is about
both `CheckpointerManager` and `ProjectionQueue`, what the end of the program waits for, and
`GateAndFollowUps_proofs` about `ThreadGate` and `FollowUps`, what a thread lets in and what its
users add meanwhile, and `Runtime_proofs` about `RuntimeThread` and `RuntimeClient`, the two ends of
a run (so the specifications of the gate and of the client are called `GateSpec` and `ClientSpec`,
and what belongs to them likewise). Definitions introduced as mutants,
faulty variants or definitions with a bug are wrong forms of the definition after them:
`PROJECT.json` names, for each property of a run, a variant under which that property fails.

### RuntimeThread, ThreadLease

`active` is the registry (`runtime-thread-context.ts`); `phase` follows an operation from its
reservation over the host's `begin` to its release; `exec` is where `execute` stands (opening
the stream, streaming, delivering a chunk to the observer, committing); `winner`, `author`,
`commit`, `intent`, `durable` and `result` are the referee of `runtime-thread-terminal.ts`:
the intent that has won and by whose submission, the memoised commit and what it has persisted;
`call` holds the `abort` and `fail` calls in flight. Properties that belong together are conjoined
for the runs, here and in the other modules: `OneOwner` is `TypeOK`, `RegistryOwnership`,
`OneStreamPerThread` and `NoWorkWhileEnding`, `AnswersStand` is `OwnedAnswerIsDurable` and
`OutcomeAgreement`. Actions come in the order of the code:
admission (`Reserve` ... `ReleaseUnadmitted`), execution (`Execute*`, `StreamOpens`,
`ChunkArrives`, ..., `ExecutionReturns`), control (`CallControl`, `CallCommits`, `CallReturns`)
and the commit (`Persist`, `PersistFails`, `PersistDowngrades`, `FailCompletion`, `Settle`,
`CloseCommit`). Messages, models and the graph are left out: a stream is opened, delivers
chunks, and ends, throws or is cut off.

`ThreadLease` is what this promises the host: operations hold a thread one at a time, are
refused only when it is held, and record at most one terminal fact, while they hold it.

### ThreadGate

`transitions[t]` is the promise chain of a thread as a queue whose head is being served.
`stage` is where a request stands; `runs` and `deletions` are the two maps of the class,
`recovery` its set, `awaits` the promise a stopping deletion or a second one waits for, and
`closing`/`drain` the progress of `shutdown` and the promises it has collected. What a lease, a
mutation or a deletion does while it is held is outside, and takes any time.

### RunPersistence, RunLedger

Each database transaction is one step; the tables (`runs`, `events`, `requests`, `checkpoint`,
`threads`) survive `Crash`, the memory of the process does not. `BeginRun` ... `FailTerminally`
are the writes of an invocation, `ClaimResume` ... `AbandonResume` those of a decision, `GiveUp`
is a run whose outcome could not be written (its thread is marked for recovery), `PutProgress`
and `PutInterrupt` are checkpoint writes and the projection of their interrupts into requests,
and `Restart` is `initializeDatabase` with its recovery of interrupted work. The thread's lease
(`driver`) is taken for granted here: it is what `ThreadGate` guarantees.

`RunLedger` is what the records of one run promise a reader: active, paused while an approval is
open, over once and for all. Crashes do not show in it.

### CheckpointerManager

An entry is named by the `get` that made it. `creation`, `saver` and `closeOp` are the promise,
the saver and the close operation of an entry; promises that others may still hold after they
have failed (`failures`, `alls`) are kept by number, so that a waiting call sees the outcome of
the operation it waits for and not of a later one.

### ActionLedger, ActionTransaction

`row` is the attempt in SQLite, `local` the one the ledger remembers and `source` where that one
comes from, `reserving` the reservation duplicates may join, `call` a request of the coordinator
at one of its awaits (`action-ledger.ts`, `coordinator.ts`), `acted` what was done to the desktop.
The record moves from reserved over dispatched to settled; the database may fail at every step,
calls are aborted, a run releases its attempts, and `Restart` is the start-up recovery, which
tells an attempt that was never sent from one that may have been. `ActionTransaction` is the
promise about one transaction: recorded before it acts, acted at most once, one final result. A
restart settles all open records in one step, so the ledger implements one such transaction for
each of its own, and not a system that moves one at a time.

### ResourceScheduler

`scheduler.ts`, `session-manager.ts` and the service around them. `desk` counts the changes made
to each window, `epoch` is what the scheduler believes of it; `lane` and `hands` are the two
queues a write goes through, `call` a request at one of its awaits, `active`, `granted` and
`closing` the sessions, `toggle` the overlapping calls of `setEnabled`, `service` the closing. A
helper that could not be killed stays behind and may still act; `quarantines` are for that. The
ledger is only something that is waited for. Simplified: closing the scheduler clears its
quarantines, which are one variable, and a survey sets one before the next work starts.

### RuntimeClient

The main process has the `log` of the events of a thread, of which those above `base` are kept
for a replay, and the `channel` to the window. The window (`runtime-manager.ts` and the reducers)
has its `view` with the revision it has applied, `pending` batches, the marker `resyncing`, and
the `tasks` of the lives of the thread: a resync of an earlier life may still be under way after
the thread was closed and opened again. `troubles` bounds what goes wrong: a failed request, a
closing, another window that takes the thread over. `lost` is a history variable for windows that
came too late to be told.

### FollowUps

`queue` is the queue of a thread, `run` the operation on it with its `buffer`, `job` a call of a
view or a drain at one of its awaits, `saved` the message rows, `told` for each message the
operations it has reached, how, and for which run it was meant, `mark` what the pages show, `projections` the tasks that will change that.
Steering saves the message, looks at the run again and puts it into the buffer; a run closes its
buffer in the step in which it found nothing pending; a message that was saved but not accepted
makes the gate require recovery. A window sends the next message of an idle thread and gives it
back when it is refused.

### ProjectionQueue, ContentProjection

`ProjectionQueue` is `projection-queue.ts`: `dirty` and `scheduled` jobs, the `timer`, the
`drain`, a requested flush and those that wait for one. `ContentProjection` instantiates it and
adds the durable jobs (`job`, with status, generation, attempts and deadline), their executions,
the persistence tasks of commits, reads and retries, the retry timers, the recovery step by step,
shutdown and crash. Simplified: a recovery's batches of a hundred are one batch, inserting the
missing jobs and unblocking the changed ones are single transactions, and a run has one assistant
message and at most one outstanding mark, read and timer task.

### CheckpointStore

`rows`, `versions`, `log`, `writes`, `messages` and `ledger` are the tables, per thread. A version
has the id of the checkpoint that brought it in, and the next checkpoint may keep it. `writer`
holds the puts of a run still to come and those of one that is over (`"late"`), `call` a
compaction at its awaits, `fork` a clone between its check and its copy. `made` remembers the
messages a checkpoint was made with.

## 3. Runs

| Run | Instance | What it shows | States |
| --- | --- | --- | --- |
| `thread` | a resume under two concurrent callers, and a compaction, fair | `OneOwner`, `ReturnMeansQuiescent`, `AnswersStand`, `CallsReturn`, and the lease with its liveness | 48 k |
| `gate` | one thread, five requests of all kinds, a shutdown, a recovery mark, fair | `OneAtATime`, `RecoveryAdmitsNothing`, `NobodyWaitsForEver` | 36 k |
| `persistence` | two runs of a thread and three approvals, crash and restart at any point, without end | `RecordsAgree`, `ApprovalIffResumable`, `RunningIsOwned`, `OutcomeIsFinal`, the refinement of `RunLedger`, no deadlock | 34 k |
| `saver_registry` | two gets and a close of a thread, a `closeAll`, everything failing, fair | `OneSaver`, `HandedOutOpen`, `FailuresPass` | 13 k |
| `action_ledger` | two requests for one transaction, all failures, restarts, fair | `ActedAsRecorded`, `AnswersAreRecorded`, `CallsReturn`, the refinement of `ActionTransaction` | 28 k |
| `scheduler` | three situations: two calls take turns, one call while it is switched twice, two windows; fair | `OnePairOfHands`, `ActsOnWhatWasSeen`, `NothingSentAfterTheStop`, `SwitchedAsLastAsked`, `CallsReturn` | 118 k |
| `runtime_client` | five events, one trouble, fair | `InStep`, `RunningByEvents`, `CatchesUp` | 195 k |
| `runtime_client_late` | the same, without the trouble | a finding, see below | - |
| `follow_ups` | three situations: a steer over two operations, two windows that drain, a steer and a drain of the same message; fair | `SteersAreTaken`, `QueuedIsKept`, `SteersEnd` | 135 k |
| `projection_queue` | three keys, two flushers, two jobs at a time, fair | `QueueSound`, `AskedIsDone`, no deadlock | 125 k |
| `content_projection` | five situations: a stop, two runs and a stop, content that blocks, four refusals, a refusal with two failures that are not retried and a stop; fair | `ProjectorSound`, `WorkIsDriven`, `WorkEnds` | 179 k |
| `checkpoint_store` | four situations: a clone, late puts, a compaction asked for twice, one asked for differently | `StoreSound`, `ReadsWhatWasPut`, `CompactsOnce`, `NothingOvertaken` | 995 k |

*Situations.* The larger modules start from one of a few records that say what may happen
(`Starts`, `Budgets`): the run is the union of instances that each meet one hard case, instead of
the product of all bounds. The records are in the `MC` modules, each with a line on what it is
for; what a situation does not allow does not happen in it, and every action fires in some one.

*Larger instances* are kept beside the runs, in configurations that take more time or memory;
they hold as well: `ThreadGateTwo` (two threads), `ActionLedgerThree` (a third call with the same id for something else, 435 k),
`ActionLedgerTwo` (two transactions of one run, which a restart settles together, 34 k) and
`ResourceSchedulerWindows` (two runs, two windows and a closing, 460 k).

*Why the bounds are enough to meet the hard cases.* In the thread module operations only meet
through the registry entry of their thread, so two operations suffice for every handover; callers
only meet in one referee, and two of them, the execution and the signal are already four
competitors. In the gate the queue holds every pair of kinds adjacent. In the tables a run that
asks twice covers a replayed interrupt after a decision, and the second run what a thread does
after the first. In the registry two gets share an entry or make two after one another, which is
as far as they interact. An attempt has one owner, and its duplicates all behave alike. In the
scheduler a call left behind, the one that took its place and one that waits are all there can
be at one resource. In the client one gap and what is read while it is closed are two tasks, and
a trouble adds a life. A projection job can be marked again while it runs, and interrupted;
three refusals
reach a late failure that is itself refused, and a fourth a retry timer that is taken; two failures that are not retried strand a job at its claim, at
the writing of its failure and at a request, before a restart takes it up. For the store three checkpoints are
one before, one that shares its version, and one after; late puts have a fourth.

*Deadlock* is checked for `persistence` and `projection_queue`, which never have to stop. The
other instances run out of calls.

*Symmetry* is used in `ActionLedgerThree` only, which checks safety.

### Fairness

- `RuntimeThread`: ports answer, the observer returns, a call that has started goes on, and the
  host executes or ends every handle it gets (`agent/service.ts` does, in `dispatchRun` and its
  `catch`): weak fairness. A stream ends (`StreamEnds`): strong fairness, because each chunk
  disables it for a moment. Nobody is obliged to abort.
- `ThreadGate`: promises settle, and mutations and deletions end. A run has to end **only once it
  has been aborted**; it may otherwise run for ever, which is why a mutation is not promised a
  turn of its own behind it: it is answered (refused) instead of waiting.
- `CheckpointerManager`: creating, closing and flushing end one way or the other.
- `RunPersistence` has no liveness property: a user may never decide. `CheckpointStore` has
  none: its transactions answer, and nothing waits for another.
- `ActionLedger`, `ResourceScheduler`: database and helper answer, or fail, and a call that has
  been given its turn goes on; nobody is obliged to abort, close or switch. Disposing of a
  session ends one way or the other.
- `RuntimeClient`: requests are answered, batches in the channel arrive, tasks go on. The run need
  not go on; a window that never hears of a gap is `lost`, and the finding below is about it.
- `FollowUps`: model calls, tools, saving and projecting end, and windows look at an idle thread.
  A run need not end in an answer: it may stop, be suspended or fail.
- `ProjectionQueue`, `ContentProjection`: the timer fires, jobs end, the clock reaches deadlines,
  transactions are answered. Nothing has to be committed, refused or stopped.

## 4. Findings

Where the code does something else than a document, a comment or a test of the repository says.
`PROJECT.json` quotes the lines; each configuration named here lets TLC show the behaviour.

- *A window may wait for ever for a replay* (`runtime_client_late`, `RuntimeClientLate.cfg`). A
  resync that begins when the run is over asks for events that have been dropped; the answer
  brings nothing, and the marker stays.
- *Two resyncs of one thread* (`RuntimeClientTwice.cfg`). A resync that ends clears the marker of
  the thread, also when the thread was closed and opened again with a resync of its own.
- *A checkpoint sync failure ends an interrupted run* (`RunPersistenceSync.cfg`), although
  `docs/runtime-invariants.md:139` says that it should not erase the interruption: its open
  approval is cancelled (`agent/persistence.ts:530`).
- *A duplicate cancels its queued twin* (`ActionLedgerTwins.cfg`), when the database answers the
  two in an unlucky order, against a test of the package.
- *A steered message does not survive an approval* (`FollowUpsApproval.cfg`). The buffer of the
  operation that stops is closed with the message in it.
- *A retry of a mark is cleared by an older execution* (`ContentProjectionMark.cfg`), so that a
  completed job stays stale until somebody reads the message.
- *A job with nothing that comes to it* (`ContentProjectionStranded.cfg`). Marks, reads and failures
  of a run share one retry timer, and a refused request that finds it taken is dropped. The request
  that holds it may be the failure of an older generation, which comes to nothing. A
  failure of a request that is not one of the database (`Refused`: its kind is "terminal", at
  `projection-queue.ts:236`, `325` and `374`) strands its job as well: no timer is set, and the job is
  left to a reader of the message or the next recovery, which the code reports (`recoverable: false`)
  and promises no retry for. `WorkIsDriven` says that there is no third way: a step that ends none
  of these requests leaves something that will come to the job, and so does one that sets the retry;
  `WorkIsSettled` excepts a job that is stranded, until another recovery has begun.
- *Attempts are used up without failures* (`ContentProjectionBudget.cfg`). Every claim counts,
  also of projections that were completed or superseded.
- *A failed job without a timer* (`ContentProjectionRetry.cfg`). Its deadline passes between the
  two queries of a recovery.
- *A thread is cloned while it runs* (`CheckpointStoreFork.cfg`). The status is read several
  awaits before the tables are copied.

## 5. Proofs

Each theorem is for any finite or infinite set of threads, operations, callers, requests and
runs, from the `ASSUME`s on the constants (functions have the right sets, markers like `NoOp`
are not elements of them) and nothing else. The argument is always the same: an inductive
invariant with `Init => IInv` and `IInv /\ [Next]_vars => IInv'`, one lemma per action or per
conjunct, and the properties as its consequences.

- **RuntimeThread** (`TypeCorrect`, `Inductive`, `OwnershipHolds`, `OneStream`, `WorkBeforeEnd`,
  `OwnerHolds`, `ReturnIsQuiescent`, `AnswersInductive`, `AnswersAreKept`, `LeaseIsKept`). `RegistryOwnership` is not inductive: a release needs to know that what
  it is about to free is still its own. `HolderInv` and `EntryInv` tie `phase` to the registry
  entry, `HandleInv` and `WorkInv` tie `exec` to both and to the commit (a commit that has begun
  leaves no open stream), `SignalInv` says what an abort signal implies, and `DoneInv` that a
  finished commit has released and disposed. The answers have an invariant of their own on top of
  it, `AnswerInv`: an outcome is submitted before it can win (`OutcomeInv`), a commit persists the
  one that won, or a failure in place of a completion (`CommitInv`), what is durable is what the
  commit says (`RecordInv`), and one caller is the author of what has won (`AuthorInv`). The
  refinement of `ThreadLease` rests on both: a step that is none of the lease's own changes
  nothing of the lease.
- **ThreadGate** (`GateInductive`, `Exclusion`, `QuiescentAtExit`, `AtMostOne`, `RecoveryIsFinal`). `LeaseInv`
  ties a lease to the map `runs`, `TurnInv` says that only the head of a chain works, that it
  works on an idle thread and that each request is chained once, and `DrainInv` that shutdown
  has collected everything that may still hold or get a lease.
- **RunPersistence** (`Inductive`, `ApprovalsAreResumable`, `RunningIsAlwaysOwned`,
  `OutcomesAreFinal`, `LedgerIsKept`, `StoriesInductive`, `RecordsAlwaysAgree`). `Records` relates the status of a run, its events, its
  approvals and its checkpoint (each interrupted run has a pending approval, a pending approval
  belongs to an open run, at most one is open, ...), `Leases` the driver, the decision it is
  about to commit, and the recovery marks. `LedgerIsKept` is the refinement: each step of the
  tables is a step of the ledger of one run and leaves the ledgers of the others alone.
  `RecordsAgree`, that the tables tell one story, needs `StoryInv`: the events of a run so far
  (`Story`), with as many resumptions as granted requests (`Counted`), the status of the thread,
  and that what is driven is open. A step is silent about a run or tells what may follow; a
  resumption adds one event and one granted request, to two sets that are finite, so the count
  needs no induction over the events.
- **ProjectionQueue** (`QueueTypeCorrect`, `NothingIsForgotten`, `FlushStaysAhead`,
  `OneDrainAtATime`, `QueueIsSound`, `FlushIsComplete`). `QueueInv` is the types, the three parts
  of `QueueSound`, which need one another, and that what a flush is owed is still outstanding;
  the last is what makes its return complete.
- **ContentProjection** (`CompletedStaysCurrent`, `ProjectorInductive`, `ProjectorIsSound`,
  `WorkStaysDriven`). `ProjectionInv` has four parts: `DataOK` gives
  the types, `Behind` says that stored parts and marks are never ahead of the content,
  `UnmarkedWhileCompleting` that an execution about to complete a running job has projected what
  the job was last marked with (a mark takes the job out of "running"), and that what is completed is
  current. `ProjectorInv` adds what the
  parts know of one another: the types of the memory (`MemoryOK`), that an execution is what the
  queue says is busy and that a drain that waits has taken nothing (`QueueOK`), that the recovery
  flushes where it says so and has passed no job before it dispatches (`RecoveryOK`), that an
  execution holds the generation it claimed for as long as its job runs (`JobsHeld`), and what each
  phase of a shutdown has already ended (`Quieting`). `WorkIsDriven` follows step by step: `Driven` is
  split into the requests of a run, its execution, a recovery to come and what is ahead of a waiting
  job, and a step either leaves each of them (`DriveStays`), drives the job anew, ends it, or ends a
  request of its run that comes back by no timer (`DriveOfRefused`).
- **CheckpointStore** (`CheckpointsRead`, `CompactionOvertakesNothing`, `CompactionIsOnce`,
  `TablesInductive`, `OrderInductive`, `StoreIsSound`).
  `StoreInv` says of the source thread that a stored checkpoint, and the one that brought its version in, read as they
  were made (`Kept`), that some version names the end of the log (`EndIsNamed`), so that the next
  change is compared with it, and that what writers and calls hold is what was made
  (`WritersAgree`, `CallsAgree`). `CompactInv` says that the checkpoint of a receipt is the only one
  of its operation and that nobody has it still to put (a stopped run may put late): what is handed
  over has an id that was handed over before or is new, and a summary gets a new one. `StoreSound`
  is about the clone as well. `TablesInv` is what holds of both threads whatever happens: some
  version names the end of the log or a place behind it (`Reached`; a late put may leave a clone
  with versions that do), a parent is older than its child, what is shown is what the log says.
  `OrderInv` is what holds of them in calm, while runs and compactions are kept apart and no puts are
  left behind: later checkpoints name later versions and no earlier place, the last one the end of
  the log (`Ordered`), and what a run has in hand follows all of it (`Follows`). So the first changes
  of the log, as far as the chosen checkpoint names them, are all its ancestors need
  (`CloneUntilInOrder`). `Ancestry` and `Until` follow the parents: as an older checkpoint is
  never the child of a later one, they are what `Reach` says, and need no induction.
- **CheckpointerManager** (`Inductive`, `OneSaverPerThread`, `FlushedWhenQuiet`,
  `SaverIsAlone`, `HandedOutIsOpen`). The invariant says which combinations of creation, saver and close
  operation an entry can be in, what a waiting `get` may still drop, and that during shutdown
  `closeAll` waits for the close operation of each entry that is left.

- **ActionLedger** (`ClaimsInductive`, `ActionsAreRecorded`, `ResultsAreRecorded`,
  `TransactionsAreKept`). Only the call that made the reservation claims the attempt, it is sent
  once after it is recorded as sent, and whoever settles it names the version it has seen.
  `LInv` says so of each transaction (`TxnOK`: row, memory, reservation and desktop) and of each
  call (`CallOK`: where it may be, what it has been told, what it knows of the row, what it has
  done to the desktop, what it keeps), and that the claims on a transaction exclude each other
  (`Sole`). `MemoryOK` is about the memory of a process that has just started.
- **ResourceScheduler** (`SchedulerInductive`, `HandsAreOnePair`, `ActionsMeetWhatWasSeen`,
  `NothingIsSentAfterTheStop`, `SwitchIsAsLastAsked`). A call that works is first in the lane of
  its window, and in that of the hands when it acts (`PlaceOK`); a process that may change the
  desktop is that of the call with the hands, or was left behind and is in quarantine (`HandsOK`).
  So nobody gets the hands beside one that was left behind: the quarantine is there before the
  lane is free, and is looked at when a turn comes. `LooksOK` is why comparing epochs is enough:
  an observation no older than the epoch of its window shows what is there, and no process is at work
  on that window; a dispatch raises the epoch before its process starts. `SessionsOK` says that
  whoever asks the ledger for a dispatch does so under a session that is still open, unless its
  signal is aborted, which is looked at once more after the answer; and that while sessions are
  disposed of for the switch, it is off and no others are open. Most steps only bring calls to their
  end or one call forward, and `RestStep` and `GoStep` say once what those keep.
- **FollowUps** (`MessagesInductive`, `SteersAreNotLost`, `QueuedAreNotLost`). None of the
  properties is inductive alone. `RunInv` says that an operation that has committed to a
  successful end, or has it, has closed an empty buffer; `BufferInv` that a buffer holds only what
  was meant for its own operation; `JobInv` and `ProjectionInv` tie a call to what it waits for (an
  operation that starts with its message, the one task that ends its wait), and that a call past
  its save has saved. `MarkInv` is `ShownAsHeard` while tasks are still to come: what is heard is
  shown, or a task is queued that will show it, and no other task takes it back. `PlaceInv` is why a
  message prompts once: it is in the queue once, in the hands of one window, or with the agent, and
  in no two of them. A message may be steered while it is still queued, so the calls that steer
  are no such place.
- **RuntimeClient** (`ClientInductive`, `ViewsAreInStep`, `RunsAreSeenByEvents`). `ViewOK` says
  that a view shows no less than its revision stands for and a run only if the events do.
  It is kept when events are applied because the last event of a range that is about the run is the
  last one of the whole log (`PhaseGoesOn`; `MaxIs` is why a bounded set of naturals has a last
  one), and when a snapshot is, because one that is applied takes no message and no run back.
  `TasksOK` says that no snapshot under way is newer than the log, `WaitInv` that batches are put
  aside only during a resync, and that as long as the marker is up some resync is still to end,
  though not always the one that set it. The rest is types, and that a thread is opened once more
  often than it is closed at most (`LifeInv`).

*Only model-checked:* the liveness properties (fairness and `ENABLED` are out of the prover's
reach, so that of `ThreadLease` is too, as is `CallsReturn` of the scheduler). Every invariant a
passing run checks is proved.

## 6. What is not modelled

Within the modelled parts: contents of messages and models, the text of errors, logging, traces
and search. The host's ports in `RuntimeThread` answer freely and are not tied to
`RunPersistence`; the lease in `RunPersistence` is assumed and not taken from `ThreadGate`, and
`Pause` is guarded by a pending request, which stands for the graph: it is interrupted by nothing
else, and the code writes the interruption it is told of without looking (`persistence.ts:543`). A
saver's close that fails is followed no further: the only saver in use has a close that cannot
fail. The projection of the tables into traces is taken not to throw. Request ids are made of the
run and the tool call; a tool call that interrupts a second time replays a decided request
(`runtime-checkpointer.ts:150`), which needs a tool that asks twice.

- *ResourceScheduler:* the expiry of authorizations, eviction of observations, the native
  protocol, the settings queue of `runtime.ts`, and a second `close()` after a failed one.
- *RuntimeClient:* the contents of snapshots and of messages.
- *FollowUps:* a drain whose configured mode is to steer, cancelling while an approval is awaited,
  the answers of the controller's other channels. A message can be steered twice, or steered and
  drained, before it has left the queue (`controller.ts:461`): only that it prompts at most one
  run is claimed. An item given back after recovery is required is lost.
- *ContentProjection:* several assistant messages of a run, partial blocks, the building of the
  parts. A crash between a commit and its mark leaves a completed job stale until it is read.
- *ProjectionQueue:* its two other users, the message search and the traces (the only ones that
  use `markDirty`).
- *CheckpointStore:* blobs, namespaces, retention, `deleteThread`, the check for pending approvals
  before a compaction, a put without messages, the search index and the approvals of clones.
  `ShownIsLatest` and `CopyReadsWhatWasPut` are claimed only when the runtime thread keeps runs
  and compactions apart and no puts were left behind: a late put that shares a version moves it.

The parts without modules are listed with their reasons in `PROJECT.json`. The user interface,
shell integration, schemas and third-party interfaces have no protocol of their own.

## 7. Plan

In this order:

1. **AgentService**: the composition of the gate, the runtime thread and the tables, in which
   the lease and the ports are no longer assumed.
2. **Extension runtime**: sessions (`runtime-manager.ts`), the cache's lease coordinator and its
   backend in files.
3. The approval middleware and its replay.
