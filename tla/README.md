# Downpeed: specification of the download engine

TLA+ modules of the engine in `src/backend`, their TLC configurations, and
proofs checked by TLAPS. Paths below are relative to the repository; "manager.go"
and "scheduler.go" are those of `src/backend/internal/download`.

## The system

Downpeed is a desktop download manager: a Go engine that keeps tasks and moves
bytes, and a Flutter application that shows them. The engine runs in the
application's process (`cmd/downpeedlib`, a C library over `enginehost`) or as
`cmd/downpeedd`, and is spoken to over a loopback HTTP API with server-sent events.

| Component | State | Operations | Interacts with |
|---|---|---|---|
| Download manager and scheduler (`manager.go`, `scheduler.go`) | tasks, requests, runs, FIFO queue, schedule timer and its generation, limits, closed | create, pause, resume, retry, cancel, delete, close; ends of transfers, retry waiters, timer, settings | starts transfers, saves records, publishes events |
| Task records, files, recovery (`persistence.go`, `repository/bolt_task_store.go`) | stored record, checkpoint, work file `.name.downpeed`, final file | save, delete, restore and reconcile | manager, transfer |
| HTTP transfer (`protocol/http/downloader.go`, `segmented_downloader.go`, `checkpoint.go`) | segments, offsets, validator | download with one or four connections, publish by hard link | reports progress to the manager |
| Bandwidth limiter (`bandwidth_limiter.go`) | tokens, rate, change channel | WaitN, SetBytesPerSecond | shared by all connections |
| Task events (`manager.go` Subscribe/publish, `httpapi/tasks.go`, `task_service.dart`) | subscriber channels of 32 events, the client's list | publish, drop when full, snapshot, forward, merge, reload | manager to client |
| Engine host and application (`enginehost/host.go`, `app/app.go`) | stopped, starting, running, stopping; done channels; errors | Start, Stop | runs and closes everything above |
| Settings (`settings.go`, `httpapi/settings.go`, `protocol/http/proxy.go`) | stored and current settings, the proxy's transport and password | PUT: merge, validate, save, apply; load and migrate | manager, proxy, store |
| Destination selection (`filename.go`) | none | a path for a new task | tasks and files |
| BitTorrent transfer (`protocol/bt`) | a third-party client per task | prepare, download, clean up | manager |
| Resolver, proxy, HTTP API, diagnostics, configuration, release tools | none that outlives a call, or settings only | requests | |
| Flutter services (`app/lib/services`) | task list, engine process, command queue | reload, merge, start, stop | HTTP API, C library |
| Flutter pages and native runners | user interface | | |

What is hard in it:

- *Two locks.* `operationMu` admits one service operation at a time and is held
  while Pause, Cancel and Close wait for a transfer goroutine; `mu` guards the
  state of one handler. Ends of transfers, retry waiters, the schedule timer and
  new settings take `mu` alone and run between the two halves of an operation.
- *Goroutines that are overtaken*: a retry waiter whose task was paused, a
  transfer whose task was canceled, a timer callback that was replaced.
- *Shutdown*: states are settled before the root context is canceled, and the
  store is closed only when no goroutine is left.
- *Several handlers that all have to refill the slots*, with a limit that changes.
- *Failed saves*, some of which are rolled back.
- *Files and records that change separately*, with a crash in between, and
  paths that an older record may share with a newer task.

Correctness per component (the properties to have): manager: the ones checked
below; records and files: a published file is never lost or overwritten, no
task touches the files of another, a restart ends in a state from which the user
can go on; transfer: only a complete file is published, a checkpoint never claims
bytes that were not written; limiter: the average rate holds and every waiter goes on; events:
a client that has received everything shows the engine's tasks; host: a start and
a stop return, and never two engines run at once; settings: what runs is what was
saved, and an answered change survives a restart.

## Modules

| Module | What it is |
|---|---|
| `QueueOps` | the queue operators: `KeepOnly` (what `removeFromQueueLocked` and the fill loop leave of the queue) and the notions the properties use |
| `TaskManager` | the control core of the download manager |
| `TaskLifecycle` | the abstract specification: the states of tasks as a client of the task service sees them |
| `QueueLemmas` | proved facts about the queue operators |
| `TaskManagerProofs` | the inductive invariant and the theorems about `TaskManager` |
| `EngineHost`, `EngineHostProofs` | starting and stopping the embedded engine, and the theorems about it |
| `SegmentedTransfer`, `SegmentedTransferProofs` | one segmented download with its record, its files, crashes and restarts, and the theorems about it |
| `DownloadContract` | the abstract specification: what a user may rely on for the file of one download |
| `TaskFiles`, `TaskFilesProofs` | several tasks that want the same names, their records, work files and final files, deletion, foreign files, crashes and restarts, and the theorems about them |
| `BandwidthLimiter`, `BandwidthLimiterProofs` | the token bucket that all connections share, and the theorems about it |
| `RateContract` | the abstract specification: what the speed limit promises |
| `Settings`, `SettingsProofs` | an update of the settings step by step, loading, crash, and the theorems about them |
| `TaskEvents`, `TaskEventsProofs` | publication of task changes, the event stream, and the client's list, and the theorems about it |
| `MC*` | instances for TLC |

### TaskManager and the code

An action is one critical section of `mu`, with every call the section makes.
Operations that hold `operationMu` across several sections are split there:

| Code | Actions |
|---|---|
| Create, CreateBT, Resume, resumeBTLocked, Retry, Delete | `Create`, `CreateBT`, `Resume`, `ResumeBT`, `Retry`, `Delete`, and `ResumeUnsaved`, `ResumeBTUnsaved` for a save that fails after the state was changed |
| Pause, Cancel | `Pause` / `Cancel` (the section that settles the task), `SignalRun` (`run.cancel`), `OperationEnd` (`<-run.done`) |
| Close | `CloseBegin`, `StopRuns` (`m.stop`), `CloseEnd` (all `run.done`, `retryWG.Wait`) |
| run, runBT | `RunReturn` (Download returns), then one of `RunDiscarded`, `RunSettled`, `RunRetried` |
| waitForRetry | `RetryWakes`, `RetryAbandoned` |
| wakeScheduledTasks, ApplySchedulerSettings | `TimerFires`, `ApplySchedulerSettings` |
| fillAvailableSlotsLocked, refreshScheduleTimerLocked | `Fill`, `RefreshTimer`, part of each action that calls them |

State: `st`, `retryCount`, `nextRetry`, `retryable` and `sched` are fields of
`Task`; `queue`, `run`, `timer`, `closed`, `limit` and `maxRetries` those of
`Manager`; `waiters` is the set of live waitForRetry goroutines; `op`, `opTask`
and `signaled` say where the operation that holds `operationMu` stands.

Choices of the abstraction:

- `nextRetry` is a *stamp* that names a deadline: waitForRetry compares deadlines
  for equality only. The least stamp that no live waiter of the task holds
  stands for a new deadline, so two outstanding waiters of a task never share one. A waiter may
  wake at any time: the delay's length is left out.
- The clock `now` advances between actions, and inside one where the code
  reads it twice: `refreshScheduleTimerLocked` reads it after
  `fillAvailableSlotsLocked` did (`RefreshTimer`). The two reads of the fill loop
  itself differ only in timestamps.
- The timer's generation is not a number: a callback of a replaced timer returns
  at once, so the state holds the newest timer only.
- A transfer ends with `ok`, `temporary` (what `isRetryableTransferError`
  accepts; `Task.Error.Retryable` is the same for the errors of a transfer), `fatal`
  or `canceled`; it may be `canceled` only after its context was. A canceled
  transfer may still succeed or fail by itself. A canceled transfer that
  succeeds has published its file; what that means for the files is TaskFiles'.
- Paths, files, progress and checkpoints are left out. Checks of the disk that
  reject an operation leave the modelled state as it is, which the stuttering step covers. Saving is
  ignored by most handlers (`_ = persistTaskLocked`); where it is not, the failed
  save of Create, CreateBT and Retry restores everything, and the other two are actions.
- A value of `Tasks` is a record slot: absent, then created, free again when
  deleted. The code's task identifiers are fresh; a task that is deleted leaves
  waiters behind, and those waiters never match a later use of the slot because
  their stamps differ.
- One engine session, which starts without tasks. What a restart restores is TaskFiles'.

### TaskLifecycle

`Moves` is the table of transitions a client may see; a step may move several
tasks at once (one that ends, those that take its slot), and closing turns active
tasks into paused ones and freezes every state. `TaskManager` implements it with
`state <- st`: checked by the run `lifecycle` and proved (`ImplementsLifecycle`).

### EngineHost and the code

`src/backend/internal/enginehost/host.go`; an action is one critical section of `mu`
or one receive. Any number of threads call Start and Stop.

| Code | Actions |
|---|---|
| Start | `StartRejected` (configuration), `StartRunning`, `StartJoins` (starting), `StartStopping`, `StartLaunches`; then `StartReturns` (on `startDone`), `StartTimesOut`, `StartGivesUp` |
| Stop | `StopStopping`, `StopBegins`, `StopCancels`, `StopReturns` |
| run | `EngineReady` (the ready callback), `EngineReturns` (RunWithReady), `EngineEnds` (the last section and the close of `done`) |

A run stands for its context and its channels `done` and `startDone`; a run that
nobody refers to any more is free to be used again, so `Runs` bounds the
runs that are referred to at a time. Stop on a stopped host changes nothing
and is a stutter. Of RunWithReady the model has three steps: it becomes ready, it returns
with or without an error, also without having become ready.

### SegmentedTransfer and the code

| Code | Actions |
|---|---|
| startRunLocked, opening the work file | `Start`, `OpenFails`, `Create`, `Truncate`, `Reopen` |
| reportProgress and the callback of Manager.run | `FirstReport`, `Count` then `Report`, `LastReport`; each delivers with `Deliver` |
| downloadSegment | `Write`, `End`, one process per segment |
| the loop over the results, the checks, the deferred function | `Collect`, `Check`, `Clean` |
| publishCompletedFile | `Publish` (the hard link), `DropWorkName` |
| the last section of Manager.run | `RunEnds` |
| Pause, Cancel, Close | `Pause` / `Cancel` / `Close` (settle the task), `Signal` (cancel the context), `PauseSucceeds`, `PauseFails`, `CancelEnds`, `CloseEnds` |
| Resume, Retry | `Resume`, `Retry` |
| restore, reconcileStoredTask, reconcileInterruptedTask | `Restart` with `Restored`, `Interrupted` |

Choices of the abstraction:

- The unit of data is a *cell*, one write of a connection. `written` is what the
  work file holds; a checkpoint counts the cells of each segment. The size of
  the work file says nothing about that: it is `sized` from the start.
- One task. Its queue, slots and retry budget are TaskManager's; `queued` stands
  for queued and retrying, and an automatic retry is the outcome `queued` of a
  temporary error. A task failed for good is `failed`, one that may be retried `retryable`.
- Task.Downloaded is left out: while the task is unfinished it is the sum of
  its checkpoint. So is the speed; whether a report is due is a choice of `Count`.
- A connection may be held up between its end and its send, so the results arrive in any order.
- Nobody else touches the two paths, and removing the work file does not fail;
  foreign files and tasks that share a path are TaskFiles'.
- A crash of the process keeps the page cache, hence every write; with
  `PowerFails` it may lose writes that were not synced. With `StoreFails` any save may fail.
- When the engine is down, `task` and `checkpoint` show the stored record.

`DownloadContract` has two variables, the state of the task and the final file. It says
that the file appears once and whole, that a task that failed has none, that one that
completed has it, and that a transfer starts over only while there is none.
It is not a copy of the life cycle: a publication that an operation came too late to stop is allowed.

### TaskFiles and the code

Names are directory entries of inodes, so a hard link, a name that is used again and an
open file without a name behave as they do. A file is known by its author and its length;
the transfer is the single-connection one, whose progress is the length of its work file.

| Code | Actions |
|---|---|
| Create, selectHTTPDestination | `Create` with `FreePath` |
| Pause, Cancel | `Pause` / `Cancel`, then `PauseReturns` / `CancelReturns` after the run has ended |
| Resume, Retry and prepareHTTPRetry | `Resume`, `Retry` |
| Delete | `Delete` (the file goes), `DeleteReturns` (the record and the task go, or the deletion fails) |
| Download | `CreateWorkFile`, `ReopenWorkFile`, `OpenFails`, `Answer`, `Write`, `Publish` (`Whole`, then `HardLinks`), `Unlink`, `Fails` with its clean-up |
| Manager.run, scheduleRetryLocked | `Start`, `Report` inside `Answer`, `Write` and `Publish`; `Finish` |
| restore, reconcileStoredTask, reconcileInterruptedTask | `Boot`, then `Reconcile` or `Skip` record by record; `ReconcileBreaks` ends a start between the removal of a work file and the save, `Crash` anywhere else |
| other programs | `ForeignFile`, `UserRemoves` |

Choices of the abstraction: every remote file has `Size` cells. Whether a task knows this length is part of
the state: the request may tell it at creation (`Sized`), each answer tells it or not, and the code keeps it
in three places that may differ. `total` is Task.Total, which every report replaces by what the present answer
told; `expected` is TransferRequest.ExpectedSize, which Resume, Retry and a restart take from it; `answer` is the
transfer's own. A transfer that knows no length publishes wherever its body ended (`Whole`). Whether there is a
validator is a constant of a task. A task that waits for a slot or a retry is `queued`; no plan lies in the
future, so reconcileScheduledTask never applies. Segmented tasks are SegmentedTransfer's: the files here are too small
for segments, so that AllowSegments, which a restart computes anew (persistence.go:82), stays false. Removing
a name succeeds; saves may fail. `shared` is a history variable: the paths that a task was
given although another task, its record or its work file was still there. The properties
that fail for such a path say so, and `NeverSpliced` shows one of the failures.

### BandwidthLimiter and the code

`Ask` is the call of WaitN; `Unlimited`, `Take` and `Sleep` are the three outcomes of its critical
section, `Wake` and `GiveUp` the ways out of its select; `SetBytesPerSecond` is itself. The
bucket is brought up to date only under the mutex, so the state has what it held at the last look and
the time since. Amounts are integers where the code has float64, and the truncation of the sleep is kept.
`RateContract` has a bucket that fills all the time; the refinement maps its credit
to `Held`. In any span without a change of the limit it releases at most one burst plus the rate times the span.

### Settings and the code

A PUT is `Submit` (reading, merging and validating, outside the lock), `Lock`, `Save` or `SaveFails`,
`ApplySchedulerSettings`, `ApplyFileConflictPolicy`, `ApplySettings` (the proxy) and `Commit`. `SetPassword`
is the request that sets the proxy's password. `Boot` is RunWithReady up to its
first request with `Loaded` and `Migrated` of NewSettingsManager; `BootDies` ends in between; `CloseManager`
is the shutdown, `Crash` the end of the process. The values of a section are those its
validation accepts, the zero value, and the refused ones. That a directory exists is decided anew at each look.

### TaskEvents and the code

| Code | Actions |
|---|---|
| the critical sections of the manager | `Queue`, `Stop`, `Yield`, `Delete`, `Progress`, `Finish`, `Fill` |
| publish, publishEvent | `Publish`: one event, at any time after the section, dropped by a full channel |
| Subscribe, events | `Connect`, `Snapshot`, `Forward`, `Disconnect`; `Unsubscribe` and `HandlerEnds` at the end |
| RunWithReady | `Shutdown`, `Close` |
| TaskService | `Receive`; `Answer` and `TakeAnswer` for its requests |

A change gives a task a new revision, and of its state what the client and the order of publication depend
on: waiting (queued, retrying, paused, failed, canceled), running, completed, removed. Three kinds of
goroutines publish: the requests (one at a time), the run of a task, and the timers. A later run
of a task is taken to publish after the earlier one, and unsubscription on a broken connection is one
step with it, because the channel of a handler that has ended is not read. `missed` is a history
variable: tasks whose newest event was dropped, lost, or overtaken.

## Runs

| Run | Instance | What it shows |
|---|---|---|
| `scheduling` | 3 HTTP tasks, limits 1 and 2, one retry, clock 0..2, failing saves | `TypeOK`, `QueueExact`, `WorkConserving`, `TimerCoversFuture`, `NoOvertaking` |
| `lifecycle` | 1 HTTP and 1 BT task, 2 stamps each, budgets 0 and 1, clock 0..1, failing saves, fairness | `RunsAccounted`, `RetryArmed`, `RetryOnlyOnDeadline`, `QuietAfterClose`, `OnlyUserCancels`, `LifecycleSpec`, `OperationReturns`, `RetryEnds` |
| `host` | 3 threads, 2 runs, fairness | `OneEngine`, `StartedMeansListening`, `CallsReturn` |
| `segments` | 3 segments of 2, 1 and 1 cells, crashes at every step | `ClaimsWritten`, `NeverHoles`, `PauseKeepsAll`, `ContractKept` |
| `unreliable` | 2 segments of 1 cell, failing saves, power failures, fairness | `CanceledByUser`, `OperationEnds`, `ErrorEndsRun` |
| `files` | 3 tasks and one name, files of 2 cells, 2 failing saves or foreign changes, crashes at every step | `OnePathOneTask`, `NoGhosts`, `FinalsKept`, `PublishesOwn`, `RestoredIsOwn`, `RestartAgrees` |
| `bandwidth` | 2 connections, limits 0, 1 and 3, requests of up to 4 bytes, fairness | `SleepsForThisRate`, `RateKept`, `BytesFlow`, `StoppedCallReturns` |
| `settings` | 2 clients, two values of three sections, crashes at every step, fairness | `RuntimeFollowsSettings`, `SavedBeforeApplied`, `AnswerIsDurable`, `UpdateEnds` |
| `events` | 2 tasks, 2 changes, a channel of one event, reconnections, fairness | `NoGap`, `HistoryIsQuiet`, `StreamsEnd` |
| `lost_wakeup` | 2 HTTP tasks, clock 0..2, fairness | `ScheduledStarts` is violated |
| `adopted_bytes` | 2 tasks and one name | `NeverSpliced` is violated |
| `lost_section` | 2 clients, one section may be left out | `OmittedSectionsKept` is violated |

Why the bounds are enough. Three tasks over one or two slots give a running, a
waiting and an overtaking task, a limit lowered below the runs and raised again.
Two stamps give a waiter left behind by an attempt and the waiter of the next.
Instants 0, 1 and 2 give two different plans and one that comes due while a
handler runs. What holds in these instances for one component of the state
is then proved for every value of the constants. Constants that are not bounds of the
code: `Stamps` (deadlines of one task outstanding at a time; `SpareStamp` keeps
Pause and Cancel from abandoning the last one) and `MaxTime`. The symmetry
sets permute HTTP tasks, which enter the specification through `Tasks` only; the
liveness runs use none. Deadlock is checked in every run but `events`:
a closed engine of `TaskManager` has its own stuttering action `Closed`, whereas in `TaskEvents` everything does come
to rest once the manager is closed, its streams have ended and the client has read what was left.

`EngineHost`: three threads give one that starts, one that stops and one that
joins or meets the end of either; two runs give one that lives and one that an old
caller still refers to. Two old callers may hold up the launch of a third run until they have returned.

`SegmentedTransfer`: a segment of two cells has a checkpoint in its middle, two more
segments let an error, a success and a late report of an older aggregate meet.
The symmetry set permutes the two segments of equal length, and is used for
invariants and action properties only. `segments` runs under the conditions of its
theorems (every save succeeds, every write survives); `unreliable` shows what holds without them.

`TaskFiles`: tasks at different paths touch different names and meet only in the operation lock, so
one path is where everything happens; three tasks give one that ended, one that
is active and one that comes later. Two of them are told their length and one is not, two have a
validator and one has none, and each answer may tell the length or not. Two cells give a file that is cut short. `Faults` bounds the failing
saves and the changes by other programs. The constraint `Exclusive` ends a behaviour when a
path is shared, because there is one path and the properties say nothing of a shared one. The view joins
states that differ in what nothing reads: numbers of inodes, files nobody can reach, counts that are
compared with zero only, lengths nobody asks for any more.

`BandwidthLimiter`: the limits 1 and 3 lie below and above the least burst of 2, 0 is no limit, and a request
of 4 is charged in parts. After `AgeCap` units any bucket is full.

`Settings`: two clients whose updates overlap, two values where a mixture could be seen; `Omittable` is empty
because the settings a request is merged with range over the same values anyway; `lost_section` needs it.

`TaskEvents`: two changes are enough for two goroutines to publish in either order, for a channel
of one to overflow, and for a task to appear, complete or vanish while the client is away. The client may
start at any moment, so the tasks start in any state. The tasks are alike, and one of two
initial states that differ by their names is dropped; `AnswersFirst` leaves out a request that is
answered during the shutdown.

Fairness of `TaskManager` (`FairSpec`): weak fairness of each goroutine that can run, of the
clock, of a timer that is due, and of the return of a transfer *whose context was
canceled* (the HTTP client and the BT driver watch it). Nothing is assumed of
users, nor of a transfer that was not canceled: the HTTP client has no overall
deadline. Weak fairness is enough, because none of these steps is disabled
again by another once it is enabled, except by what ends its purpose.

Fairness of `EngineHost`: callers that can go on do, an engine whose
context was canceled returns, and initialization ends. A Start that finds one stopping
run after the other, because other threads keep starting and stopping, may go round for
ever in the code too: `CallsReturn` is about Stop, and about a Start that has launched or joined a run.

Fairness of `SegmentedTransfer`: weak fairness of the transfer's goroutine, of what an operation does
after its wait, and of each connection's counting, reporting and sending; a connection
that reads is bound to end only when its context is canceled. Nothing makes bytes arrive.

Fairness of `BandwidthLimiter`: time passes and a connection's WaitN runs. Its select picks among ready cases
at random, so a connection that sleeps with a canceled context again and again leaves by it: strong
fairness of `GiveUp`. Nothing is assumed that would share the bytes between
connections: `BytesFlow` says that somebody proceeds, and not that everybody does.

Fairness of `Settings`: each step of a request under way, and strong fairness of `Lock`, because a Go mutex
lets nobody starve. Fairness of `TaskEvents`: the steps of the handler and of the subscriber's
goroutine, and a connected client that reads. Publication, reconnection and the requests are not promised.

### Disagreements with the documentation

- `lost_wakeup`: `README.md` (line 330 of the repository's) promises that a planned
  task starts by itself when its time comes. `refreshScheduleTimerLocked` ignores
  plans that are already due (scheduler.go:189), Pause and Cancel call it without
  filling the slots, and the replaced timer's callback returns: a task due in
  that window waits until an unrelated step fills the slots. The shortest counterexample
  needs no operation: a fill reads the clock twice (scheduler.go:128 and 183), and a plan that comes
  due between the reads is neither started nor covered by the timer. The window of Pause and Cancel is
  the same defect, and wider.
- `adopted_bytes`: `README.md` line 348 says that Retry checks the files again and keeps only verified bytes, so
  that no wrong content is spliced. Retry takes the length of whatever work file is at its path
  (manager.go:583) and does not ask, as selectHTTPDestination does, whether a newer task has the path: it goes on
  after the bytes of that task and publishes the mixture.
- `lost_section`: `README.md` line 332 says that a section a PUT leaves out keeps its value. The
  handler fills it in before the settings are locked (httpapi/settings.go:53), so the change of another
  PUT in between is undone.

Sequences that are not runs of their own; each is found within a
minute when the property is put into a configuration of its module:

- `PublishedIsCompleted` (`TaskFiles`, 1 task whose length is told at creation, `Faults = 0`): `README.md` line 374 says that a start restores a task as completed if the process ended
  between the publication of its file and the save of its completion. The start recognises the file by the stored
  length, or else by the work name (persistence.go:240), and publication has removed the work name by then.
  The length is lost: a report replaces it by that of the answer, -1 without Content-Length (downloader.go:168,
  manager.go:933). A length that only answers tell is also missing while the saves of the reports
  fail, because their errors are ignored (manager.go:941). The task is then restored as failed, with its own whole file at its path.
- `PartsSurvive` (`TaskFiles`, 2 tasks and one name, `Faults = 0`): `README.md` line 372 says that a pause keeps the parts,
  and line 374 that a restart lists the task as one that can be continued. A restart removes the work file of every finished record's path (persistence.go:98, 103), also when a
  newer paused task was given that path, which is free once the first task's file is gone. `RestartAgrees` is therefore about
  tasks whose path no other task has.
- `QueuedIsInQueue` (`TaskManager`, 1 HTTP and 1 BT task, `StoreFails`): resumeBTLocked leaves a task queued and outside
  the queue when its record cannot be saved (manager.go:1214-1217); Resume puts the state back
  (manager.go:469-474). `README.md` line 368 has a queued task wait in the FIFO queue. Without failing saves the property is a theorem (`QueuedTasksAreInQueue`).
- `StopReportsItsRun` (`EngineHost`, 2 threads): currentRunError returns the host's last error although
  the run ended without one. A Start with a refused configuration sets that error while the
  engine runs, and the next Stop, which ends the engine cleanly, reports it.
- `PausedKeepsParts` (`SegmentedTransfer`, 2 segments of 1 cell): `README.md` line 372 says that a pause keeps the parts. Pause
  settles the task before it cancels the run; a transfer that fails in between removes
  its work file and its result is dropped. The task stays paused, with a checkpoint and without a
  file, and cannot be resumed.
- `NeverHoles` with `StoreFails` or with `PowerFails` (`SegmentedTransfer`, 2 segments of 1 cell): `README.md` line 374 says that a
  restart avoids resuming blindly. It compares the size of the work file, which is preallocated, and so accepts
  a new work file for an old checkpoint (an automatic retry whose record was not saved, scheduler.go:262)
  and a file that lost writes the checkpoint counts (synced only at the end,
  segmented_downloader.go:180). Both publish a file with holes.

Behaviours that the properties except, and that a reader of them should know:

- An answer without a length whose connection ends early is published as it is: there is nothing to compare
  it with (downloader.go:224-235). `PublishesOwn` asks for the whole remote file only where its length was told.
- Delete removes the file before the record. If the record cannot be deleted, a completed task remains without
  its file (manager.go:705); `NoGhosts` says that record and task agree, not that the file is there.
- If the record of an HTTP Resume cannot be saved, the task stays paused, but its plan and its retry count
  have been reset in memory (manager.go:469).
- A file of the user with the expected size under the final name makes an interrupted task completed
  (persistence.go:239), and Delete with its file removes whatever is at the path by then.
- An event that a full channel drops, or that an older one overtakes, leaves the client with an old
  state until it reloads (`missed`); a task deleted while the client is away stays in
  its list until then. A snapshot that shows a completion, an older event still in
  the channel and the completion's own event announce it twice.
- Server.Shutdown does not end an event stream (app.go:135): with one open it takes its five seconds and
  RunWithReady returns an error. The stream ends when the manager closes (`StreamsEnd`).
- A settings directory that does not exist at one start resets every section to its default, and the
  reset is saved (`Load`).

## Proofs

`TaskManagerProofs` proves, for every `Tasks`, `Limits`, `RetryLimits`, `Stamps`
and `MaxTime` that satisfy `ConstantsAssumption` (finitely many tasks, positive limits):
the safety invariants `TypeOK`, `RunsAccounted`, `QueueExact`, `WorkConserving`,
`RetryArmed`, `QuietAfterClose`, `TimerCoversFuture`, and `QueuedIsInQueue` where `~ StoreFails`; the action
properties `NeverEarly`, `LateResultIgnored`, `OnlyUserCancels`, `RetryOnlyOnDeadline`, `SlotLimit`,
`NoOvertaking`, `AwaitedStaysOver`, `ClosedOnlyDrains`; and the refinement `Spec => LifecycleSpec`.

The inductive invariant is

    IInv == TypeOK /\ Held /\ Idle /\ Undisturbed /\ Resting
            /\ RunsAccounted /\ QueueExact /\ RetryArmed /\ WorkConserving

None of the checked invariants is inductive by itself. `RunsAccounted` needs to
know what a waiting operation holds: its task is at rest and out of the queue
(`Held`), nothing is held when the operation lock is free (`Idle`), a task an operation waits for is
not started again (`Undisturbed`), and after Close
no task is active and the queue is empty (`Resting`). `QueueExact` needs
`RunsAccounted`, because a started task must not be in the queue; and
`WorkConserving` counts the runs that `RunsAccounted` accounts for.

The argument follows the code. Nine handlers end with the same call to
`fillAvailableSlotsLocked`, so the proof treats that call once:
`Fillable` says what its arguments must satisfy and the `Filled...` lemmas say
what it leaves (states, runs, queue, slots). Each action is then one of three
shapes, a task that joins the queue (`Joins`), a run that ends (`Ends`), or a mere
refill (`Refills`), or it does not fill (`OtherStep`); `StepKinds` sorts the actions and
`NextKeeps` puts the cases together. The queue facts come from `QueueLemmas`, where
the operators on sequences are characterised pointwise by an induction on the
length that is carried out from the well-ordering of the naturals
(`LeastElement`), because an induction scheme over an operator cannot be used.

`TimerCoversFuture` and `QueuedIsInQueue` are inductive relative to `IInv`, and are proved after it.
A fill sets the timer from the queue it leaves, so the first needs only that a step
without a fill adds no plan and moves the clock to the timer at most. The second fails at one
place, where `resumeBTLocked` returns after a failed save; `~ StoreFails` shows that it is the only one.
`AwaitedStaysOver` (a transfer that Pause or Cancel waits for does not start again, so the wait ends
with that run) and `ClosedOnlyDrains` (what Close waits for only shrinks) are the safe
half of `OperationReturns`, which TLC checks: with fairness nothing else is needed for them to return.

`EngineHostProofs` proves, for any `Callers` and `Runs`, `TypeOK`, `OneEngine`,
`StartedMeansListening` and `StoppedMeansReturned` (a Stop returns after the engine it waited for) from

    HInv == TypeOK /\ OneEngine /\ Tracked /\ DoneReturned /\ WaitsForRun

`OneEngine` is not inductive: it needs to know that the host tracks the run whose
engine lives (`Tracked`), that a run whose `done` is closed has returned (`DoneReturned`),
and that a run a caller waits for is not used again (`WaitsForRun`).

`SegmentedTransferProofs` proves, for any number of segments of any length, in three layers:

- `TInv`: the types, that a cell being counted fits its segment, and that connections
  exist only while their results are collected. `Spec => []TypeOK`.
- `RInv`: what holds whatever is lost. A run belongs to a task that is not settled by itself
  (`Running`), a recorded failure is the task's state (`FailureRecorded`), after the publication nothing
  starts or fails (`Settled`), and cancellations have a cause (`Outcome`). Hence `FailedUnpublished` and `CanceledByUser`.
- `SInv`, under `Reliable == ~ StoreFails /\ ~ PowerFails`: the record mirrors the task
  (`Mirrored`), the task's checkpoint (`TaskClaims`), the run's counts and the reports under way
  (`RunClaims`) claim only cells that are written. Hence `ClaimsWritten` and `NeverHoles`. Neither half of `Reliable`
  can be dropped (Disagreements).

Beside `SInv`, and without `Reliable`, `HInv` adds to `RInv` what the task has heard of its run (`Heard`): before the
connections start and once the last report is made, a downloading or paused task's checkpoint is what was counted
(`Agrees`), and nothing changes it while Pause waits. In between the task may be behind, because a late report may
overwrite a newer one. It gives `PauseKeepsAll`, whichever records are lost.

With `PublishedIfOk` (a run that ended without an error has published) this gives
`KeepsContract`: every step is a step of `DownloadContract` or a stutter, with `file <- final`.

`BandwidthLimiterProofs` proves, for any connections, limits and floor, `TypeOK`, `SleepsForThisRate` and the refinement
`RateKept`. The argument is about `Held`: a look at the bucket leaves it as it is, a charge takes what was charged,
time adds the rate up to the burst (there `AgeCap` is long enough by `LimiterAssumption`), and a
new limit never adds to it. `SleepsForThisRate` follows from the length of a nap and from the
channel that a new limit closes. What a user can measure is a theorem too, `MeterStaysBelow`: a meter (`spent`,
`span`) that starts at any moment and is reset by a new limit never reads more than a burst and the
rate times the span. The meter is added to the specification by conjunction, and `MetersWatch` shows that it
only watches.

`SettingsProofs` proves, for any clients and values, `TypeOK`, `RuntimeFollowsSettings`, `SavedBeforeApplied` and
`AnswerIsDurable`. None but the first is inductive while a writer is under way: `Progress` says, for each place
of the writer, which of record, scheduler, policy and proxy have the new value and which the old one, and
`Current` that without a writer all agree.

`TaskFilesProofs` proves, for any number of tasks, paths, inodes and faults, `OnePathOneTask` and `NoGhosts`, whatever the
disk holds. `OnePathOneTask` is not inductive, because a record that could not be saved claims its
path again after the next start: a task *claims* a path in memory or through its record, and
two claims on one path are known to `shared`. `NoGhosts` needs how far a start has come (`Loading`) and that
the task an operation waits for stays where it is (`Waiting`).

The second part is about the files: `FinalsKept`, `PublishesOwn`, `RestoredIsOwn`, `RestartAgrees`, and
`OneWriter` (no two transfers have one file open), which are proved from

    Owned == Typed /\ Apart /\ Links /\ Handles /\ NotFinal /\ OwnWork /\ OwnOpen
             /\ OwnFinal /\ Informed

A task *holds* a path that it claims or at which its transfer, canceled or not, still runs, and on a path unknown to
`shared` there is one holder (`Apart`); only Create and Retry make one. Work and final names never join two paths in one file (`Links`), an
open file has no name but the work name of its task's path (`Handles`), and no final name
(`NotFinal`). From these follows whose bytes a file has and that they are as many as its transfer
counted (`OwnWork`, `OwnOpen`), and that the final file of a path is its holder's or the user's (`OwnFinal`), which gives
`RestoredIsOwn`. `Informed` says that a length somebody was told of a file still to be fetched is that file's, wherever the task,
the request, the transfer or the record keeps it; with it `PublishesOwn` has the whole file. `RestartAgrees` also follows a start in its middle:
`LoadedParts` says that the records judged so far agree with the disk while the rest is still to come.
`JudgedOnce` says that a start cut short between two records costs nothing: a record once judged is judged so again.

`TaskEventsProofs` proves, for any finite set of tasks and any capacity of the channel, `NoGap` and `HistoryIsQuiet`. Neither is
inductive: between a change and the client's list the newest event of a task can be in several places.
The invariant says where (`Coming`): for every task that was not missed, the newest event is still to be published,
or it is the last word on the task in the channel, or the channel is silent on the task and it is the last word on the wire, or both are silent and
the list has it; without a live stream the list must only hold no task that has gone, because the snapshot brings the
others. That an event of the newest revision says what the task is (`Truthful`), and that
everything said of an old download is that it is over (`OldIsOver`), are the other parts. A step of the manager is
one critical section (`Section`), whatever the operation, so one lemma covers the seven operations.

Proved and not repeated by a run: `NeverEarly`, `LateResultIgnored`, `SlotLimit`, `AwaitedStaysOver`, `ClosedOnlyDrains`,
`QueuedIsInQueue` (with `~ StoreFails`), `FailedUnpublished`, `StoppedMeansReturned`, `OneWriter`, `JudgedOnce`, the meter's
`BurstAndRate`, and the type invariants other than `TaskManager`'s. The mutants of the runs break properties that
fail only through several steps.

Every invariant, safety property of steps and refinement of a passing run is a theorem. Only model-checked are the liveness
properties `OperationReturns`, `RetryEnds`, `CallsReturn`, `OperationEnds`, `ErrorEndsRun`, `BytesFlow`,
`StoppedCallReturns`, `UpdateEnds` and `StreamsEnd`, because fairness and ENABLED are out of the prover's reach, and the
violations, which are counterexamples.

## Not modelled, and what is left

Worth doing next: the clock in `TaskFiles`, for reconcileScheduledTask, which keeps
a plan of the future (persistence.go:137), and for a plan that comes due while records are loaded.

Not modelled:

- The BitTorrent driver (`protocol/bt`): a third-party client does the work and keeps the state. `TaskManager` has
  what its transfers return. Its staging directories, which tasks of one torrent share, and the
  reading of magnet links and metainfo are left out.
- The resolver: it asks a server about a link and keeps nothing. Of the proxy, `Test` is left out.
- HTTP routing, decoding, error texts; validators, host and name spelling: pure functions.
- Diagnostics, configuration, licence check and release tools: reports, flags and build tools.
- Of the Flutter application, everything but TaskService's list: the processes and windows of the desktop, the
  commands of the platform, pages, themes and native runners.
- A data race: Pause reads `Manager.requests` without `mu` after its wait (manager.go:377). A concurrent
  map write ends the process, which is the crash that `TaskFiles` and `SegmentedTransfer` have at every step.
