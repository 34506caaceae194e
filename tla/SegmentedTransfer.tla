-------------------------- MODULE SegmentedTransfer --------------------------
(***************************************************************************)
(* One HTTP task that is downloaded in segments: Downloader.downloadSegmented*)
(* (src/backend/internal/protocol/http/segmented_downloader.go), what the  *)
(* manager makes of its reports and of its end (Manager.run, Pause, Cancel,*)
(* Resume, Retry, Close), and the record that survives a crash             *)
(* (persistence.go).                                                       *)
(*                                                                         *)
(* The unit of data is one write of a connection, a cell.  A checkpoint    *)
(* says how many cells of each segment are done.  The queue, the slots and *)
(* the retry budget are TaskManager's; here a task waits as "queued" until *)
(* it starts.                                                              *)
(***************************************************************************)
EXTENDS Integers

CONSTANTS
  Segments,
  Length,        \* cells of each segment
  NoCheckpoint,
  StoreFails,    \* whether a record may fail to be saved
  PowerFails     \* whether a crash may lose writes that were not synced

ASSUME TransferAssumption ==
  /\ Length \in [Segments -> Nat \ {0}]
  /\ NoCheckpoint \notin [Segments -> Nat]
  /\ StoreFails \in BOOLEAN /\ PowerFails \in BOOLEAN

VARIABLES
  task,        \* Task.State; "failed" when it may not be retried, else "retryable"
  checkpoint,  \* Manager.requests[id].Checkpoint
  op,          \* the operation that waits for run.done
  up,          \* the engine runs
  stored,      \* the record in the database
  work,        \* the work file: "none", "empty" or "sized" (preallocated)
  written,     \* cells of the work file that were written
  final,       \* the final file: "none", "complete" or with "holes"
  phase,       \* where Download is
  cause,       \* the operation that canceled the run's context
  result,      \* "ok", or the first error
  completed,   \* the transfer's own checkpoint
  worker,      \* what the connection of a segment does
  snapshot     \* the report it is about to deliver

taskVars == <<task, checkpoint, op, up>>
diskVars == <<work, written, final>>
runVars  == <<phase, cause, result, completed>>
connVars == <<worker, snapshot>>
vars == <<taskVars, stored, diskVars, runVars, connVars>>

Checkpoints == {c \in [Segments -> Nat] : \A s \in Segments : c[s] <= Length[s]}
Nothing     == [s \in Segments |-> 0]

Errors     == {"temporary", "fatal", "canceled"}
Unfinished == {"queued", "downloading", "paused"}
TaskStates == Unfinished \cup {"completed", "failed", "retryable", "canceled"}
Phases     == {"none", "creating", "reopening", "sizing", "first report", "collecting",
               "checking", "publishing", "published", "cleaning", "returned"}

Init ==
  /\ task = "queued" /\ checkpoint = NoCheckpoint /\ op = "none" /\ up = TRUE
  /\ stored = [task |-> "queued", checkpoint |-> NoCheckpoint]
  /\ work = "none" /\ final = "none"
  /\ written = [s \in Segments |-> {}]
  /\ phase = "none" /\ cause = "none" /\ result = "ok" /\ completed = Nothing
  /\ worker = [s \in Segments |-> "idle"]
  /\ snapshot = [s \in Segments |-> NoCheckpoint]

Saved(t, c) == stored' = [task |-> t, checkpoint |-> c]

\* Most callers ignore the error of persistTaskLocked.
MaySave(t, c) == Saved(t, c) \/ (StoreFails /\ UNCHANGED stored)

-----------------------------------------------------------------------------
(* Opening the work file.                                                  *)

\* startRunLocked takes a copy of the request.
Start ==
  /\ up /\ task = "queued" /\ phase = "none"
  /\ task' = "downloading"
  /\ MaySave("downloading", checkpoint)
  /\ IF checkpoint = NoCheckpoint
     THEN phase' = "creating" /\ completed' = Nothing
     ELSE phase' = "reopening" /\ completed' = checkpoint
  /\ cause' = "none" /\ result' = "ok"
  /\ UNCHANGED <<checkpoint, op, up, diskVars, connVars>>

\* Errors before the deferred cleanup is in place leave the disk alone.
OpenFails ==
  /\ phase \in {"creating", "reopening"}
  /\ phase' = "returned" /\ result' = "fatal"
  /\ UNCHANGED <<taskVars, stored, diskVars, cause, completed, connVars>>

Create ==
  /\ phase = "creating" /\ final = "none" /\ work = "none"
  /\ work' = "empty" /\ written' = [s \in Segments |-> {}]
  /\ phase' = "sizing"
  /\ UNCHANGED <<taskVars, stored, final, cause, result, completed, connVars>>

Truncate ==
  /\ phase = "sizing"
  /\ \/ work' = "sized" /\ phase' = "first report" /\ UNCHANGED result
     \/ work' = "none" /\ phase' = "returned" /\ result' = "fatal"
  /\ UNCHANGED <<taskVars, stored, written, final, cause, completed, connVars>>

Reopen ==
  /\ phase = "reopening" /\ final = "none" /\ work = "sized"
  /\ phase' = "first report"
  /\ UNCHANGED <<taskVars, stored, diskVars, cause, result, completed, connVars>>

-----------------------------------------------------------------------------
(* Reports.                                                                *)

\* Mutant: a paused task takes no more checkpoints.
AcceptsDownloading == task = "downloading"

\* Pause settles the task before its connections have stopped.
Accepts == task \in {"downloading", "paused"}

\* The progress callback of Manager.run, under mu.
Deliver(c) ==
  IF Accepts
  THEN checkpoint' = c /\ MaySave(task, c)
  ELSE UNCHANGED <<checkpoint, stored>>

FirstReport ==
  /\ phase = "first report"
  /\ Deliver(completed)
  /\ worker' = [s \in Segments |-> IF completed[s] = Length[s] THEN "idle" ELSE "reading"]
  /\ phase' = "collecting"
  /\ UNCHANGED <<task, op, up, diskVars, cause, result, completed, snapshot>>

Finished(s) == worker[s] \in {"idle", "collected"}

\* Mutant: whichever report came last is left to stand.
NoDelivery == UNCHANGED <<checkpoint, stored>>

LastDelivery == Deliver(completed)

LastReport ==
  /\ phase = "collecting" /\ \A s \in Segments : Finished(s)
  /\ LastDelivery
  /\ phase' = "checking"
  /\ UNCHANGED <<task, op, up, diskVars, cause, result, completed, connVars>>

-----------------------------------------------------------------------------
(* Connections.                                                            *)

\* Mutants: a failed connection stops no other; an operation stops none.
StoppedByUser  == cause # "none"
StoppedByError == result # "ok"

WorkersCanceled == cause # "none" \/ result # "ok"

\* Mutant: the end of a segment belongs to the next one.
FitsInclusive(s) == completed[s] <= Length[s]

\* A response that exceeds its range is refused.
Fits(s) == completed[s] < Length[s]

\* The bytes are in the file before they are counted.
Write(s) ==
  /\ worker[s] = "reading" /\ Fits(s)
  /\ written' = [written EXCEPT ![s] = @ \cup {completed[s] + 1}]
  /\ worker' = [worker EXCEPT ![s] = "wrote"]
  /\ UNCHANGED <<taskVars, stored, work, final, runVars, snapshot>>

\* Mutant: the count includes the cell that is being written.
CountsAhead(c) == [s \in Segments |-> IF c[s] < Length[s] THEN c[s] + 1 ELSE c[s]]

Aggregate(c) == c

\* Under progressMu the cell is counted and, unless a report was made a moment
\* ago, the aggregate is taken.
Count(s) ==
  LET counted == [completed EXCEPT ![s] = @ + 1] IN
  /\ worker[s] = "wrote"
  /\ completed' = counted
  /\ \/ /\ worker' = [worker EXCEPT ![s] = "reporting"]
        /\ snapshot' = [snapshot EXCEPT ![s] = Aggregate(counted)]
     \/ /\ worker' = [worker EXCEPT ![s] = "reading"]
        /\ UNCHANGED snapshot
  /\ UNCHANGED <<taskVars, stored, diskVars, phase, cause, result>>

\* Outside progressMu: an older aggregate may overwrite a newer one.
Report(s) ==
  /\ worker[s] = "reporting"
  /\ Deliver(snapshot[s])
  /\ worker' = [worker EXCEPT ![s] = "reading"]
  /\ snapshot' = [snapshot EXCEPT ![s] = NoCheckpoint]
  /\ UNCHANGED <<task, op, up, diskVars, runVars>>

\* The response ends as announced, or the request, the body or a write fails, or
\* a canceled context is noticed.
Ends(s, how) ==
  /\ worker[s] = "reading"
  /\ how = "ok" => completed[s] = Length[s]
  /\ how = "canceled" => WorkersCanceled
  /\ worker' = [worker EXCEPT ![s] = how]
  /\ UNCHANGED <<taskVars, stored, diskVars, runVars, snapshot>>

End(s) == \E how \in Errors \cup {"ok"} : Ends(s, how)

\* Mutant: the last error wins.
LastError(e) == IF e = "ok" THEN result ELSE e

FirstError(e) == IF result = "ok" THEN e ELSE result

\* Segments that were served from different addresses do not belong together.
Collect(s) ==
  /\ phase = "collecting" /\ worker[s] \in Errors \cup {"ok"}
  /\ \/ result' = FirstError(worker[s])
     \/ /\ worker[s] = "ok" /\ result = "ok"
        /\ \E other \in Segments : worker[other] = "collected"
        /\ result' = "fatal"
  /\ worker' = [worker EXCEPT ![s] = "collected"]
  /\ UNCHANGED <<taskVars, stored, diskVars, phase, cause, completed, snapshot>>

-----------------------------------------------------------------------------
(* The end of Download.                                                    *)

Complete == result = "ok" /\ completed = Length /\ work = "sized"

\* The context, the errors and the sizes are looked at and the file is synced.
Check ==
  /\ phase = "checking"
  /\ \/ cause # "none" /\ result' = "canceled" /\ phase' = "cleaning"
     \/ cause = "none" /\ Complete /\ phase' = "publishing" /\ UNCHANGED result
     \/ cause = "none" /\ phase' = "cleaning"
        /\ result' = IF result = "ok" THEN "fatal" ELSE result
  /\ UNCHANGED <<taskVars, stored, diskVars, cause, completed, connVars>>

Content == IF \A s \in Segments : written[s] = 1..Length[s] THEN "complete" ELSE "holes"

\* The hard link either is there as a whole or is refused.
Publish ==
  /\ phase = "publishing"
  /\ \/ final = "none" /\ final' = Content /\ phase' = "published" /\ UNCHANGED result
     \/ phase' = "cleaning" /\ result' = "fatal" /\ UNCHANGED final
  /\ UNCHANGED <<taskVars, stored, work, written, cause, completed, connVars>>

DropWorkName ==
  /\ phase = "published"
  /\ work' = "none" /\ phase' = "returned"
  /\ UNCHANGED <<taskVars, stored, written, final, cause, result, completed, connVars>>

Keeps == cause \in {"pause", "close"}

\* The deferred function: a pause and a shutdown keep the work file.
Clean ==
  /\ phase = "cleaning"
  /\ work' = IF Keeps THEN work ELSE "none"
  /\ phase' = "returned"
  /\ UNCHANGED <<taskVars, stored, written, final, cause, result, completed, connVars>>

Outcomes ==
  CASE result = "ok"        -> {"completed"}
    [] result = "canceled"  -> {"canceled"}
    [] result = "temporary" -> {"queued", "retryable"}
    [] OTHER                -> {"failed"}

\* The last section of Manager.run: the result of a task that an operation has
\* settled is dropped; an automatic retry starts over.
RunEnds ==
  /\ phase = "returned"
  /\ IF task = "downloading"
     THEN \E t \in Outcomes :
            /\ task' = t /\ checkpoint' = NoCheckpoint
            /\ MaySave(t, NoCheckpoint)
            /\ work' = IF t = "queued" THEN "none" ELSE work
     ELSE UNCHANGED <<task, checkpoint, stored, work>>
  /\ phase' = "none"
  /\ UNCHANGED <<op, up, written, final, cause, result, completed, connVars>>

-----------------------------------------------------------------------------
(* Operations.                                                             *)

Free == up /\ op = "none"

\* A task without a run is paused at once.
Pause ==
  /\ Free /\ task \in {"queued", "downloading"}
  /\ task' = "paused"
  /\ MaySave("paused", checkpoint)
  /\ op' = IF phase = "none" THEN "none" ELSE "pause"
  /\ UNCHANGED <<checkpoint, up, diskVars, runVars, connVars>>

\* The work file is removed when the run is over, if there is one.
Cancel ==
  /\ Free /\ task \in Unfinished
  /\ task' = "canceled" /\ checkpoint' = NoCheckpoint
  /\ MaySave("canceled", NoCheckpoint)
  /\ op' = "cancel"
  /\ UNCHANGED <<up, diskVars, runVars, connVars>>

Close ==
  /\ Free
  /\ IF task \in {"queued", "downloading"}
     THEN task' = "paused" /\ MaySave("paused", checkpoint)
     ELSE UNCHANGED <<task, stored>>
  /\ op' = "close"
  /\ UNCHANGED <<checkpoint, up, diskVars, runVars, connVars>>

\* run.cancel, m.stop.
Signal ==
  /\ op # "none" /\ phase # "none" /\ cause = "none"
  /\ cause' = op
  /\ UNCHANGED <<taskVars, stored, diskVars, phase, result, completed, connVars>>

\* reconciledPartialProgress
Reconciled == IF checkpoint = NoCheckpoint THEN work = "none" ELSE work = "sized"

PauseSucceeds ==
  /\ op = "pause" /\ phase = "none" /\ Reconciled
  /\ Saved(task, checkpoint)
  /\ op' = "none"
  /\ UNCHANGED <<task, checkpoint, up, diskVars, runVars, connVars>>

\* The caller gets an error; the task stays as it is.
PauseFails ==
  /\ op = "pause" /\ phase = "none" /\ (~ Reconciled \/ StoreFails)
  /\ op' = "none"
  /\ UNCHANGED <<task, checkpoint, up, stored, diskVars, runVars, connVars>>

CancelEnds ==
  /\ op = "cancel" /\ phase = "none"
  /\ work' = "none" /\ op' = "none"
  /\ UNCHANGED <<task, checkpoint, up, stored, written, final, runVars, connVars>>

Resumable == final = "none" /\ Reconciled

Resume ==
  /\ Free /\ phase = "none" /\ task = "paused" /\ Resumable
  /\ task' = "queued"
  /\ Saved("queued", checkpoint)
  /\ UNCHANGED <<checkpoint, op, up, diskVars, runVars, connVars>>

\* Retry removes the work file before it saves; a failed save restores the rest.
Retry ==
  /\ Free /\ phase = "none" /\ task = "retryable" /\ final = "none"
  /\ work' = "none"
  /\ \/ task' = "queued" /\ checkpoint' = NoCheckpoint /\ Saved("queued", NoCheckpoint)
     \/ StoreFails /\ UNCHANGED <<task, checkpoint, stored>>
  /\ UNCHANGED <<op, up, written, final, runVars, connVars>>

-----------------------------------------------------------------------------
(* Shutdown, crash and restart.                                            *)

\* What was in memory is gone; task and checkpoint show the record until the
\* engine is up again.
Down(record) ==
  /\ up' = FALSE /\ op' = "none"
  /\ task' = record.task /\ checkpoint' = record.checkpoint
  /\ phase' = "none" /\ cause' = "none" /\ result' = "ok" /\ completed' = Nothing
  /\ worker' = [s \in Segments |-> "idle"]
  /\ snapshot' = [s \in Segments |-> NoCheckpoint]

CloseEnds ==
  /\ op = "close" /\ phase = "none"
  /\ IF task = "paused" THEN MaySave("paused", checkpoint) ELSE UNCHANGED stored
  /\ Down(stored')
  /\ UNCHANGED diskVars

\* Writes are not synced before the transfer is complete.
Crash ==
  /\ up
  /\ Down(stored)
  /\ \/ UNCHANGED written
     \/ /\ PowerFails /\ phase \notin {"publishing", "published"}
        /\ \E lost \in SUBSET (UNION {{s} \X written[s] : s \in Segments}) :
             written' = [s \in Segments |-> {i \in written[s] : <<s, i>> \notin lost}]
  /\ UNCHANGED <<stored, work, final>>

Bare(t) == [task |-> t, checkpoint |-> NoCheckpoint]

\* Mutant: a final file is known by its work name only.
RecognizesLinked == final # "none" /\ work # "none"

\* completedFileMatches: the size is the one that was expected.
Recognizes == final # "none"

\* reconcileInterruptedTask: the record and the work file that a record of an
\* unfinished task and the files lead to.
Interrupted ==
  IF Recognizes THEN [record |-> Bare("completed"), work |-> "none"]
  ELSE IF stored.checkpoint = NoCheckpoint THEN [record |-> Bare("paused"), work |-> "none"]
  ELSE IF work = "sized"
       THEN [record |-> [task |-> "paused", checkpoint |-> stored.checkpoint], work |-> work]
       ELSE [record |-> Bare("failed"), work |-> work]

\* reconcileStoredTask
Restored ==
  IF stored.task \in Unfinished THEN Interrupted
  ELSE [record |-> Bare(stored.task), work |-> "none"]

\* An engine that cannot save what it restored, or crashes before it does, is not up.
Restart ==
  /\ ~ up
  /\ work' = Restored.work
  /\ \/ /\ up' = TRUE /\ stored' = Restored.record
        /\ task' = Restored.record.task /\ checkpoint' = Restored.record.checkpoint
     \/ UNCHANGED <<up, stored, task, checkpoint>>
  /\ UNCHANGED <<op, written, final, runVars, connVars>>

-----------------------------------------------------------------------------

Download ==
  \/ OpenFails \/ Create \/ Truncate \/ Reopen \/ FirstReport \/ LastReport
  \/ Check \/ Publish \/ DropWorkName \/ Clean \/ RunEnds

Connection(s) == Write(s) \/ Count(s) \/ Report(s) \/ End(s) \/ Collect(s)

Operation ==
  \/ Pause \/ Cancel \/ Close \/ Signal \/ PauseSucceeds \/ PauseFails \/ CancelEnds
  \/ Resume \/ Retry

Next ==
  \/ Start \/ Download \/ (\E s \in Segments : Connection(s))
  \/ Operation \/ CloseEnds \/ Crash \/ Restart

Spec == Init /\ [][Next]_vars

\* Goroutines that can run do, and a request or a body whose context is canceled
\* returns.  A connection that is not canceled may wait for ever.
Fairness ==
  /\ WF_vars(Download) /\ WF_vars(Signal)
  /\ WF_vars(PauseSucceeds \/ PauseFails) /\ WF_vars(CancelEnds) /\ WF_vars(CloseEnds)
  /\ \A s \in Segments :
       /\ WF_vars(Count(s)) /\ WF_vars(Report(s)) /\ WF_vars(Collect(s))
       /\ WF_vars(WorkersCanceled /\ End(s))

FairSpec == Spec /\ Fairness

-----------------------------------------------------------------------------
(* Properties.                                                             *)

TypeOK ==
  /\ task \in TaskStates /\ up \in BOOLEAN
  /\ checkpoint \in Checkpoints \cup {NoCheckpoint}
  /\ op \in {"none", "pause", "cancel", "close"}
  /\ stored \in [task : TaskStates, checkpoint : Checkpoints \cup {NoCheckpoint}]
  /\ work \in {"none", "empty", "sized"}
  /\ written \in [Segments -> SUBSET Nat]
  /\ \A s \in Segments : written[s] \subseteq 1..Length[s]
  /\ final \in {"none", "complete", "holes"}
  /\ phase \in Phases /\ cause \in {"none", "pause", "cancel", "close"}
  /\ result \in Errors \cup {"ok"} /\ completed \in Checkpoints
  /\ worker \in [Segments -> Errors \cup {"idle", "reading", "wrote", "reporting",
                                          "ok", "collected"}]
  /\ snapshot \in [Segments -> Checkpoints \cup {NoCheckpoint}]

Claims(c) == \A s \in Segments : 1..c[s] \subseteq written[s]

\* A record from which a restart would go on claims no cell that is not in the
\* work file: such a cell would never be fetched.
ClaimsWritten ==
  stored.task \in Unfinished /\ stored.checkpoint # NoCheckpoint /\ work = "sized"
    => Claims(stored.checkpoint)

\* What is published is the whole file, through every pause, retry, crash and
\* restart (README.md: a truncated response is never published).
NeverHoles == final # "holes"

\* A task that is said to have failed has published nothing.
FailedUnpublished == task \in {"failed", "retryable"} => final = "none"

\* The cancellations that one failed connection causes in the others are never
\* taken for the user's: a task would end as canceled that must be retried.
CanceledByUser == result = "canceled" => cause # "none"

\* The transfer keeps the contract of DownloadContract: no step but those it
\* names is visible in the task's state and the final file.
Contract == INSTANCE DownloadContract WITH task <- task, file <- final

ContractKept == Contract!Spec

\* A pause that succeeds has kept every cell that was counted, although the
\* connections report in any order and some of them late.
PauseKeepsAll ==
  [][PauseSucceeds =>
       checkpoint = completed \/ (checkpoint = NoCheckpoint /\ completed = Nothing)]_vars

\* Pause, Cancel and Close return: the run ends, however many connections it has.
OperationEnds == op # "none" ~> op = "none"

\* The first error ends the run, although other connections may wait for bytes
\* that never come.
ErrorEndsRun == (phase = "collecting" /\ result # "ok") ~> phase # "collecting"

\* A paused task has kept its parts (README.md: a pause keeps the parts for a
\* later Range request).  It fails when the transfer fails while it is being paused
\* (README, Disagreements).
PausedKeepsParts ==
  up /\ task = "paused" /\ op = "none" /\ checkpoint # NoCheckpoint => work = "sized"
=============================================================================
