----------------------------- MODULE TaskManager -----------------------------
(***************************************************************************)
(* The control core of the download engine: Manager in                     *)
(* src/backend/internal/download (manager.go, scheduler.go), over one      *)
(* engine session.                                                         *)
(*                                                                         *)
(* Two locks shape the interleavings.  operationMu admits one operation    *)
(* (create, pause, resume, retry, cancel, delete, close) at a time and is  *)
(* held while Pause, Cancel and Close wait for a transfer goroutine to     *)
(* finish.  mu is held for one handler's critical section only: an action  *)
(* below is one such section, with every call it makes.  The goroutines    *)
(* that take mu alone (transfers ending, retry waiters, the schedule       *)
(* timer, ApplySchedulerSettings) interleave with an operation that waits. *)
(*                                                                         *)
(* Files, progress and checkpoints are left out; a check of the disk that  *)
(* rejects an operation leaves this state as it is.                        *)
(***************************************************************************)
EXTENDS Integers, Sequences, FiniteSets, QueueOps

CONSTANTS
  Tasks,        \* records the manager may hold; a value is free again after Delete
  BT,           \* those of them that CreateBT creates, the others are HTTP tasks
  NoTask,       \* no operation is waiting for a transfer
  Limits,       \* the values MaxConcurrentTasks may be given
  RetryLimits,  \* the values MaxRetries may be given
  Stamps,       \* bound: the NextRetryAt deadlines of one task outstanding at a time
  MaxTime,      \* bound: the last instant of the clock
  StoreFails    \* whether TaskStore.Save may fail

ASSUME ConstantsAssumption ==
  /\ IsFiniteSet(Tasks) /\ BT \subseteq Tasks /\ NoTask \notin Tasks
  /\ Limits \subseteq Nat \ {0} /\ Limits # {}
  /\ RetryLimits \subseteq Nat /\ RetryLimits # {}
  /\ Stamps \subseteq Nat \ {0}
  /\ MaxTime \in Nat
  /\ StoreFails \in BOOLEAN

VARIABLES
  st,          \* Task.State, or "absent"
  queue,       \* Manager.queue
  run,         \* Manager.runs: "none", "transfer" while Download runs, or what it returned
  retryCount,  \* Task.RetryCount
  nextRetry,   \* Task.NextRetryAt: a stamp that names the deadline, 0 for nil
  waiters,     \* <<t, s>>: a waitForRetry goroutine of task t with deadline s is alive
  retryable,   \* Task.Error.Retryable, kept for failed tasks, the only ones it is read of
  sched,       \* Task.ScheduledAt, 0 for nil
  now,         \* the clock
  timer,       \* the instant scheduleTimer is armed for, 0 when it is nil
  limit,       \* maxConcurrentTasks
  maxRetries,  \* maxRetries
  closed,      \* Manager.closed
  stopped,     \* rootCtx is canceled
  op,          \* the operation that holds operationMu across critical sections
  opTask,      \* the task whose run.done it waits for
  signaled     \* it has called run.cancel

slotVars    == <<st, queue, run, now, timer>>
retryVars   == <<retryCount, nextRetry, waiters, retryable>>
settingVars == <<limit, maxRetries>>
closeVars   == <<closed, stopped>>
opVars      == <<op, opTask, signaled>>
vars == <<slotVars, retryVars, sched, settingVars, closeVars, opVars>>

States   == {"absent", "queued", "downloading", "retrying",
             "paused", "completed", "failed", "canceled"}
Terminal == {"completed", "failed", "canceled"}
Outcomes == {"ok", "temporary", "fatal", "canceled"}

Init ==
  /\ st = [t \in Tasks |-> "absent"]
  /\ run = [t \in Tasks |-> "none"]
  /\ queue = <<>> /\ timer = 0 /\ now = 0
  /\ retryCount = [t \in Tasks |-> 0]
  /\ nextRetry = [t \in Tasks |-> 0]
  /\ waiters = {}
  /\ retryable = [t \in Tasks |-> FALSE]
  /\ sched = [t \in Tasks |-> 0]
  /\ limit \in Limits /\ maxRetries \in RetryLimits
  /\ closed = FALSE /\ stopped = FALSE
  /\ op = "free" /\ opTask = NoTask /\ signaled = FALSE

-----------------------------------------------------------------------------
(* The queue.                                                              *)

\* Mutant: the waiting task stays in the queue.
DequeueNothing(q, t) == q

Dequeue(q, t) == KeepOnly(q, Tasks \ {t})

\* Mutant: a task joins at the head.
EnqueueFirst(q, t) == <<t>> \o Dequeue(q, t)

Enqueue(q, t) == Append(Dequeue(q, t), t)

-----------------------------------------------------------------------------
(* Filling the free slots.  The operators take the handler's own update of *)
(* the task states s, the runs r and the queue q, and read the new         *)
(* settings and schedule.                                                  *)

Occupied(r) == {t \in Tasks : r[t] # "none"}

\* Mutant: a future task is taken for a due one.
DueAlways(t) == TRUE

Due(t) == sched'[t] <= now

CanStart(s, t) == s[t] = "queued" /\ Due(t)

\* The tasks before position i that the loop starts if it gets that far.
Ahead(s, q, i) == {q[j] : j \in {k \in 1..(i - 1) : CanStart(s, q[k])}}

\* Mutants: one start too many; the limit as it was before the new settings.
ReachedOneMore(s, r, q) ==
  {q[i] : i \in {k \in 1..Len(q) :
                   Cardinality(Occupied(r)) + Cardinality(Ahead(s, q, k)) <= limit'}}
ReachedOldLimit(s, r, q) ==
  {q[i] : i \in {k \in 1..Len(q) :
                   Cardinality(Occupied(r)) + Cardinality(Ahead(s, q, k)) < limit}}

\* The tasks the loop takes from the front of the queue: it goes on while a
\* slot is free, and every task it starts takes one.
Reached(s, r, q) ==
  {q[i] : i \in {k \in 1..Len(q) :
                   Cardinality(Occupied(r)) + Cardinality(Ahead(s, q, k)) < limit'}}

Started(s, r, q)   == {t \in Reached(s, r, q) : CanStart(s, t)}
Postponed(s, r, q) == {t \in Reached(s, r, q) : s[t] = "queued" /\ ~ Due(t)}

\* The queued tasks of the queue that are still to come at time `at`.
Future(s, q, at) == {t \in ToSet(q) : s[t] = "queued" /\ sched'[t] > at}

\* Mutant: the timer is armed for the latest of the future tasks.
WakesLatest(s, q, at, wake) ==
  IF Future(s, q, at) = {} THEN wake = 0
  ELSE /\ wake \in {sched'[t] : t \in Future(s, q, at)}
       /\ \A t \in Future(s, q, at) : sched'[t] <= wake

\* wake is the instant the timer is armed for: the earliest future task.
Wakes(s, q, at, wake) ==
  IF Future(s, q, at) = {} THEN wake = 0
  ELSE /\ wake \in {sched'[t] : t \in Future(s, q, at)}
       /\ \A t \in Future(s, q, at) : wake <= sched'[t]

\* refreshScheduleTimerLocked reads the clock itself: it may be later than the
\* instant the handler began at.  A callback of the timer it replaces finds
\* another generation and returns, so only the newest timer is in the state.
RefreshTimer ==
  \E later \in now..MaxTime :
    /\ now' = later
    /\ timer' \in 0..MaxTime
    /\ Wakes(st', queue', later, timer')

FillSlots(s, r, q) ==
  /\ st' = [t \in Tasks |-> IF t \in Started(s, r, q) THEN "downloading" ELSE s[t]]
  /\ run' = [t \in Tasks |-> IF t \in Started(s, r, q) THEN "transfer" ELSE r[t]]
  /\ queue' = KeepOnly(q, Tasks \ Reached(s, r, q)) \o KeepOnly(q, Postponed(s, r, q))
  /\ RefreshTimer

\* fillAvailableSlotsLocked does nothing on a closed manager.
Fill(s, r, q) ==
  IF closed THEN st' = s /\ run' = r /\ queue' = q /\ UNCHANGED <<now, timer>>
            ELSE FillSlots(s, r, q)

-----------------------------------------------------------------------------
(* Operations of the task service: one at a time, under operationMu.       *)

Operating == op = "free" /\ ~ closed

Create(t, at) ==
  /\ Operating
  /\ t \notin BT /\ st[t] = "absent"
  /\ at = 0 \/ at > now
  /\ sched' = [sched EXCEPT ![t] = at]
  /\ UNCHANGED <<retryVars, settingVars, closeVars, opVars>>
  /\ Fill([st EXCEPT ![t] = "queued"], run, Enqueue(queue, t))

CreateBT(t) ==
  /\ Operating
  /\ t \in BT /\ st[t] = "absent"
  /\ UNCHANGED <<sched, retryVars, settingVars, closeVars, opVars>>
  /\ Fill([st EXCEPT ![t] = "queued"], run, Enqueue(queue, t))

\* Bound: pausing or canceling leaves a stamp for the next retry of the task.
SpareStamp(t) == \E s \in Stamps : <<t, s>> \notin waiters

\* Mutant: the operation returns without waiting for the transfer.
NeverAwaits(t) == FALSE

Awaits(t) == run[t] # "none"

\* What Pause and Cancel do alike: settle the state first, then, outside mu,
\* cancel the run and wait for it.  The slots are not filled here.
Interrupt(t, kind, state) ==
  /\ Operating
  /\ SpareStamp(t)
  /\ st' = [st EXCEPT ![t] = state]
  /\ queue' = Dequeue(queue, t)
  /\ nextRetry' = [nextRetry EXCEPT ![t] = 0]
  /\ IF Awaits(t) THEN op' = kind /\ opTask' = t /\ signaled' = FALSE
                  ELSE UNCHANGED opVars
  /\ UNCHANGED <<run, retryCount, waiters, retryable, sched, settingVars, closeVars>>
  /\ RefreshTimer

Pause(t)  == /\ st[t] \in {"downloading", "queued", "retrying"}
             /\ st[t] = "downloading" => run[t] # "none"
             /\ Interrupt(t, "pause", "paused")

Cancel(t) == /\ st[t] \in {"downloading", "queued", "retrying", "paused"}
             /\ Interrupt(t, "cancel", "canceled")

\* run.cancel, after mu was released.
SignalRun ==
  /\ op \in {"pause", "cancel"} /\ ~ signaled
  /\ signaled' = TRUE
  /\ UNCHANGED <<slotVars, retryVars, sched, settingVars, closeVars, op, opTask>>

\* run.done is closed: the operation finishes and releases operationMu.
OperationEnd ==
  /\ op \in {"pause", "cancel"} /\ signaled
  /\ run[opTask] = "none"
  /\ op' = "free" /\ opTask' = NoTask /\ signaled' = FALSE
  /\ UNCHANGED <<slotVars, retryVars, sched, settingVars, closeVars>>

\* An HTTP task resumes with a fresh retry budget and without its schedule.
Resume(t) ==
  /\ Operating
  /\ t \notin BT /\ st[t] = "paused"
  /\ sched' = [sched EXCEPT ![t] = 0]
  /\ retryCount' = [retryCount EXCEPT ![t] = 0]
  /\ UNCHANGED <<nextRetry, waiters, retryable, settingVars, closeVars, opVars>>
  /\ Fill([st EXCEPT ![t] = "queued"], run, Enqueue(queue, t))

\* The record cannot be saved: only the state is put back.
ResumeUnsaved(t) ==
  /\ StoreFails
  /\ Operating
  /\ t \notin BT /\ st[t] = "paused"
  /\ sched' = [sched EXCEPT ![t] = 0]
  /\ retryCount' = [retryCount EXCEPT ![t] = 0]
  /\ UNCHANGED <<slotVars, nextRetry, waiters, retryable, settingVars, closeVars, opVars>>

ResumeBT(t) ==
  /\ Operating
  /\ t \in BT /\ st[t] = "paused"
  /\ UNCHANGED <<sched, retryVars, settingVars, closeVars, opVars>>
  /\ Fill([st EXCEPT ![t] = "queued"], run, Enqueue(queue, t))

\* The record cannot be saved: resumeBTLocked returns the error and leaves the
\* task queued, out of the queue.
ResumeBTUnsaved(t) ==
  /\ StoreFails
  /\ Operating
  /\ t \in BT /\ st[t] = "paused"
  /\ st' = [st EXCEPT ![t] = "queued"]
  /\ UNCHANGED <<queue, run, now, timer, sched, retryVars, settingVars, closeVars, opVars>>

\* A failed task is retried by hand; a save that fails restores the record.
Retry(t) ==
  /\ Operating
  /\ st[t] = "failed" /\ retryable[t]
  /\ sched' = [sched EXCEPT ![t] = 0]
  /\ retryCount' = [retryCount EXCEPT ![t] = 0]
  /\ retryable' = [retryable EXCEPT ![t] = FALSE]
  /\ UNCHANGED <<nextRetry, waiters, settingVars, closeVars, opVars>>
  /\ Fill([st EXCEPT ![t] = "queued"], run, Enqueue(queue, t))

Delete(t) ==
  /\ Operating
  /\ st[t] \in Terminal
  /\ st' = [st EXCEPT ![t] = "absent"]
  /\ queue' = Dequeue(queue, t)
  /\ retryCount' = [retryCount EXCEPT ![t] = 0]
  /\ retryable' = [retryable EXCEPT ![t] = FALSE]
  /\ sched' = [sched EXCEPT ![t] = 0]
  /\ UNCHANGED <<run, now, timer, nextRetry, waiters, settingVars, closeVars, opVars>>

-----------------------------------------------------------------------------
(* Closing.                                                                *)

\* A task that waits for a future instant keeps its plan.  The code also asks that it
\* has downloaded nothing, which a task that has not yet been started satisfies.
KeepsPlan(t) == st[t] = "queued" /\ sched[t] > now

\* Mutant: a transfer in progress is left to the canceled context.
ClosedStateOfWaiting(t) ==
  IF st[t] \in {"queued", "retrying"} /\ ~ KeepsPlan(t) THEN "paused" ELSE st[t]

ClosedState(t) ==
  IF st[t] \in {"downloading", "queued", "retrying"} /\ ~ KeepsPlan(t)
  THEN "paused" ELSE st[t]

CloseBegin ==
  /\ Operating
  /\ closed' = TRUE /\ op' = "close"
  /\ st' = [t \in Tasks |-> ClosedState(t)]
  /\ nextRetry' = [t \in Tasks |-> 0]
  /\ queue' = <<>> /\ timer' = 0
  /\ UNCHANGED <<run, now, retryCount, waiters, retryable, sched, settingVars,
                 stopped, opTask, signaled>>

\* m.stop: every transfer's context and every retry waiter is told to end.
StopRuns ==
  /\ op = "close" /\ ~ stopped
  /\ stopped' = TRUE
  /\ UNCHANGED <<slotVars, retryVars, sched, settingVars, closed, opVars>>

\* Mutant: Close does not wait for the retry waiters.
AllRunsDone == Occupied(run) = {}

AllDone == Occupied(run) = {} /\ waiters = {}

\* Every run is done and retryWG.Wait returns.
CloseEnd ==
  /\ op = "close" /\ stopped
  /\ AllDone
  /\ op' = "free"
  /\ UNCHANGED <<slotVars, retryVars, sched, settingVars, closeVars, opTask, signaled>>

-----------------------------------------------------------------------------
(* Transfers.                                                              *)

\* Mutant: run.cancel does not reach the transfer's context.
OnlyStopCancels(t) == stopped

Canceled(t) == stopped \/ (opTask = t /\ signaled)

\* Download returns.  A transfer whose context was canceled may still succeed
\* or fail on its own.
RunReturn(t, outcome) ==
  /\ run[t] = "transfer"
  /\ outcome = "canceled" => Canceled(t)
  /\ run' = [run EXCEPT ![t] = outcome]
  /\ UNCHANGED <<st, queue, now, timer, retryVars, sched, settingVars, closeVars, opVars>>

\* Mutant: the result is applied whatever became of the task meanwhile.
AlwaysSettles(t) == TRUE

Settles(t) == st[t] = "downloading"

\* Mutant: the retry budget is not looked at.
RetriesForever(t) == t \notin BT /\ run[t] = "temporary"

Retries(t) == t \notin BT /\ run[t] = "temporary" /\ retryCount[t] < maxRetries

FinalState(outcome) ==
  CASE outcome = "ok" -> "completed"
    [] outcome = "canceled" -> "canceled"
    [] OTHER -> "failed"

\* The task was paused, canceled or closed meanwhile: only the slot is freed.
RunDiscarded(t) ==
  /\ run[t] \in Outcomes
  /\ ~ Settles(t)
  /\ UNCHANGED <<retryVars, sched, settingVars, closeVars, opVars>>
  /\ Fill(st, [run EXCEPT ![t] = "none"], queue)

RunSettled(t) ==
  /\ run[t] \in Outcomes
  /\ Settles(t) /\ ~ Retries(t)
  /\ retryable' = [retryable EXCEPT ![t] = run[t] = "temporary"]
  /\ UNCHANGED <<retryCount, nextRetry, waiters, sched, settingVars, closeVars, opVars>>
  /\ Fill([st EXCEPT ![t] = FinalState(run[t])], [run EXCEPT ![t] = "none"], queue)

\* The least stamp no live waiter of t holds stands for the new deadline.
FreshStamp(t, s) ==
  /\ s \in Stamps /\ <<t, s>> \notin waiters
  /\ \A u \in Stamps : <<t, u>> \notin waiters => s <= u

RunRetried(t) ==
  /\ run[t] \in Outcomes
  /\ Settles(t) /\ Retries(t)
  /\ \E s \in Stamps :
       /\ FreshStamp(t, s)
       /\ nextRetry' = [nextRetry EXCEPT ![t] = s]
       /\ waiters' = waiters \cup {<<t, s>>}
  /\ retryCount' = [retryCount EXCEPT ![t] = @ + 1]
  /\ UNCHANGED <<retryable, sched, settingVars, closeVars, opVars>>
  /\ Fill([st EXCEPT ![t] = "retrying"], [run EXCEPT ![t] = "none"], queue)

-----------------------------------------------------------------------------
(* Goroutines that wait for time to pass, and new settings.                *)

\* Mutants: a waiter of an earlier attempt is taken for the current one; a
\* waiter that finds no free slot gives up.
MatchesAny(t, s) == st[t] = "retrying"
MatchesWithSlot(t, s) == /\ st[t] = "retrying" /\ nextRetry[t] = s
                         /\ Cardinality(Occupied(run)) < limit

\* The task still waits for this very deadline.
Matches(t, s) == st[t] = "retrying" /\ nextRetry[t] = s

\* The deadline passes: the task queues again.
RetryWakes(t, s) ==
  /\ <<t, s>> \in waiters
  /\ ~ closed /\ Matches(t, s)
  /\ waiters' = waiters \ {<<t, s>>}
  /\ nextRetry' = [nextRetry EXCEPT ![t] = 0]
  /\ UNCHANGED <<retryCount, retryable, sched, settingVars, closeVars, opVars>>
  /\ Fill([st EXCEPT ![t] = "queued"], run, Enqueue(queue, t))

\* The waiter of an abandoned attempt, or of a closed manager, ends.
RetryAbandoned(t, s) ==
  /\ <<t, s>> \in waiters
  /\ closed \/ ~ Matches(t, s)
  /\ waiters' = waiters \ {<<t, s>>}
  /\ UNCHANGED <<slotVars, retryCount, nextRetry, retryable, sched, settingVars,
                 closeVars, opVars>>

\* wakeScheduledTasks, called by the newest timer.
TimerFires ==
  /\ ~ closed
  /\ timer # 0 /\ timer <= now
  /\ UNCHANGED <<sched, retryVars, settingVars, closeVars, opVars>>
  /\ Fill(st, run, queue)

\* Takes mu only: it may come while an operation waits for a transfer.
ApplySchedulerSettings(l, m) ==
  /\ ~ closed
  /\ limit' = l /\ maxRetries' = m
  /\ UNCHANGED <<sched, retryVars, closeVars, opVars>>
  /\ Fill(st, run, queue)

Tick ==
  /\ now < MaxTime
  /\ now' = now + 1
  /\ UNCHANGED <<st, queue, run, timer, retryVars, sched, settingVars, closeVars, opVars>>

\* A closed engine stays as it is.
Closed == closed /\ op = "free" /\ UNCHANGED vars

-----------------------------------------------------------------------------

Operation ==
  \/ \E t \in Tasks, at \in 0..MaxTime : Create(t, at)
  \/ \E t \in Tasks : CreateBT(t)
  \/ \E t \in Tasks : Pause(t)
  \/ \E t \in Tasks : Cancel(t)
  \/ SignalRun
  \/ OperationEnd
  \/ \E t \in Tasks : Resume(t)
  \/ \E t \in Tasks : ResumeUnsaved(t)
  \/ \E t \in Tasks : ResumeBT(t)
  \/ \E t \in Tasks : ResumeBTUnsaved(t)
  \/ \E t \in Tasks : Retry(t)
  \/ \E t \in Tasks : Delete(t)
  \/ CloseBegin
  \/ StopRuns
  \/ CloseEnd

Background ==
  \/ \E t \in Tasks, outcome \in Outcomes : RunReturn(t, outcome)
  \/ \E t \in Tasks : RunDiscarded(t)
  \/ \E t \in Tasks : RunSettled(t)
  \/ \E t \in Tasks : RunRetried(t)
  \/ \E t \in Tasks, s \in Stamps : RetryWakes(t, s)
  \/ \E t \in Tasks, s \in Stamps : RetryAbandoned(t, s)
  \/ TimerFires
  \/ \E l \in Limits, m \in RetryLimits : ApplySchedulerSettings(l, m)
  \/ Tick

Next == Operation \/ Background \/ Closed

Spec == Init /\ [][Next]_vars

\* A goroutine that can run does run, a timer whose instant came fires, a
\* canceled transfer returns.  Nothing makes a user act, and nothing makes a
\* transfer that was not canceled return: the HTTP client has no overall
\* deadline.
Fairness ==
  /\ WF_vars(SignalRun) /\ WF_vars(OperationEnd)
  /\ WF_vars(StopRuns) /\ WF_vars(CloseEnd)
  /\ WF_vars(Tick) /\ WF_vars(TimerFires)
  /\ \A t \in Tasks :
       /\ WF_vars(Canceled(t) /\ \E outcome \in Outcomes : RunReturn(t, outcome))
       /\ WF_vars(RunDiscarded(t) \/ RunSettled(t) \/ RunRetried(t))
       /\ \A s \in Stamps : WF_vars(RetryWakes(t, s) \/ RetryAbandoned(t, s))

FairSpec == Spec /\ Fairness

-----------------------------------------------------------------------------
(* Properties.                                                             *)

\* Every variable keeps its type; the automatic retries of a task stay within
\* the largest retry budget the settings ever allow.
TypeOK ==
  /\ st \in [Tasks -> States]
  /\ queue \in Seq(Tasks)
  /\ run \in [Tasks -> {"none", "transfer"} \cup Outcomes]
  /\ retryCount \in [Tasks -> Nat]
  /\ \A t \in Tasks : \E m \in RetryLimits : retryCount[t] <= m
  /\ nextRetry \in [Tasks -> Stamps \cup {0}]
  /\ waiters \subseteq Tasks \X Stamps
  /\ retryable \in [Tasks -> BOOLEAN]
  /\ sched \in [Tasks -> 0..MaxTime]
  /\ now \in 0..MaxTime /\ timer \in 0..MaxTime
  /\ limit \in Limits /\ maxRetries \in RetryLimits
  /\ closed \in BOOLEAN /\ stopped \in BOOLEAN
  /\ op \in {"free", "pause", "cancel", "close"}
  /\ opTask \in Tasks \cup {NoTask}
  /\ signaled \in BOOLEAN

\* A task is downloading only with a transfer goroutine of its own, and a
\* transfer whose task is in another state is awaited by the operation that
\* put it there: no goroutine outlives the Pause, Cancel or Close that ended
\* it (manager.go Pause, Cancel, Close wait on run.done).
RunsAccounted ==
  \A t \in Tasks :
    /\ st[t] = "downloading" => run[t] # "none"
    /\ run[t] # "none" /\ st[t] # "downloading" =>
         opTask = t \/ op = "close"

\* While the manager is open, a task is in the queue, at one place, exactly when
\* its state is queued: no handler forgets to queue it or to take it out.  (A BT
\* task whose resumption could not be saved is the exception.)
QueueExact ==
  /\ Distinct(queue)
  /\ \A t \in ToSet(queue) : st[t] = "queued"
  /\ ~ closed => \A t \in Tasks \ BT : st[t] = "queued" => t \in ToSet(queue)

\* No slot stays free while a task without a schedule waits in the queue:
\* every handler that frees a slot, adds a task or raises the limit has filled
\* the slots before it releases mu.
WorkConserving ==
  ~ closed /\ (\E t \in ToSet(queue) : sched[t] = 0) =>
    Cardinality(Occupied(run)) >= limit

\* A task that waits for its retry has a live waiter for its current deadline,
\* so it cannot be stranded by the waiters of attempts that were abandoned.
RetryArmed ==
  \A t \in Tasks : st[t] = "retrying" => <<t, nextRetry[t]>> \in waiters

\* The timer is armed no later than the first future task of the queue.
TimerCoversFuture ==
  ~ closed =>
    \A t \in ToSet(queue) :
      st[t] = "queued" /\ sched[t] > now => timer # 0 /\ timer <= sched[t]

\* When Close has returned, nothing of the manager runs or could use the store
\* that is closed next, and no task is left in an active state.
QuietAfterClose ==
  closed /\ op = "free" =>
    /\ Occupied(run) = {} /\ waiters = {} /\ timer = 0
    /\ \A t \in Tasks : st[t] \notin {"downloading", "retrying"}
    /\ \A t \in Tasks : st[t] = "queued" => sched[t] # 0

\* A step never takes more slots than the limit in force allows; a lowered
\* limit only keeps new transfers from starting.
SlotLimit ==
  [][Cardinality(Occupied(run')) > Cardinality(Occupied(run)) =>
       Cardinality(Occupied(run')) <= limit']_vars

\* A retrying task queues again only when the waiter of its current deadline
\* wakes, never early because of a waiter that an earlier attempt left behind.
RetryOnlyOnDeadline ==
  [][\A t \in Tasks :
       st[t] = "retrying" /\ st'[t] \in {"queued", "downloading"} =>
         <<t, nextRetry[t]>> \in waiters \ waiters']_vars

\* The end of a transfer never changes a task that was paused, canceled or
\* closed while the transfer was still running.
LateResultIgnored ==
  [][\A t \in Tasks :
       run[t] # "none" /\ run'[t] = "none" /\ st[t] # "downloading" =>
         st'[t] = st[t]]_vars

\* Only Cancel cancels: shutting the engine down cancels every transfer's
\* context, and yet no task ends as canceled because of it.
OnlyUserCancels ==
  [][\A t \in Tasks :
       st[t] # "canceled" /\ st'[t] = "canceled" => run'[t] = run[t]]_vars

\* A task with a schedule does not start before its instant.
NeverEarly ==
  [][\A t \in Tasks :
       st'[t] = "downloading" /\ st[t] # "downloading" => sched'[t] <= now']_vars

\* First in, first out: a task without a schedule that keeps waiting keeps its
\* place ahead of those behind it and of those that join, and none of them
\* starts before it.
NoOvertaking ==
  [][\A a, b \in Tasks :
       /\ a # b /\ sched[a] = 0 /\ WaitsAhead(queue, a, b)
       /\ st'[a] = "queued" /\ ~ closed'
       => /\ WaitsAhead(queue', a, b)
          /\ st'[b] = "downloading" => st[b] = "downloading"]_vars

\* A pause, a cancellation and the shutdown return, whatever the transfers do.
OperationReturns == op # "free" ~> op = "free"

\* A task does not wait for its retry for ever.
RetryEnds == \A t \in Tasks : st[t] = "retrying" ~> st[t] # "retrying"

\* The same without the exception: resumption queues a BT task as it queues an
\* HTTP task, or puts its state back (manager.go Resume, resumeBTLocked).  It fails
\* after a failed save (README, Disagreements).
QueuedIsInQueue ==
  ~ closed => \A t \in Tasks : st[t] = "queued" => t \in ToSet(queue)

\* A scheduled task starts by itself when its instant has come: with the clock
\* at its end and slots free, no task is left in the queue.
ScheduledStarts ==
  \A t \in Tasks :
    st[t] = "queued" /\ sched[t] # 0 /\ ~ closed ~>
      \/ st[t] # "queued" \/ closed
      \/ Cardinality(Occupied(run)) >= limit

-----------------------------------------------------------------------------

\* What a client of the task service sees is the life cycle of TaskLifecycle.
Lifecycle == INSTANCE TaskLifecycle WITH state <- st

LifecycleSpec == Lifecycle!Spec
=============================================================================
