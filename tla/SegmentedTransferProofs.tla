----------------------- MODULE SegmentedTransferProofs -----------------------
(* The theorems about SegmentedTransfer: a checkpoint claims only what was *)
(* written, a pause keeps all that was counted and only whole files are    *)
(* published, for any number of segments of any length.                    *)
EXTENDS SegmentedTransfer, TLAPS

\* A cell that is being counted fits into its segment.
Room == \A s \in Segments : worker[s] = "wrote" => completed[s] < Length[s]

\* Connections are there while their results are collected, and only then.
Resting == phase # "collecting" => \A s \in Segments : worker[s] \in {"idle", "collected"}

TInv == TypeOK /\ Room /\ Resting

USE TransferAssumption

LEMMA NothingIsCheckpoint == Nothing \in Checkpoints
BY DEF Nothing, Checkpoints

LEMMA InitTyped == Init => TInv
<1> SUFFICES ASSUME Init PROVE TInv
  OBVIOUS
<1>1. TypeOK
  BY NothingIsCheckpoint DEF Init, TypeOK, TaskStates, Unfinished, Phases, Errors
<1>2. QED BY <1>1 DEF Init, TInv, Room, Resting

\* What a report, and a crash or a shutdown, do to the types.
LEMMA DeliverTyped ==
  ASSUME TypeOK, NEW c \in Checkpoints \cup {NoCheckpoint}, Deliver(c)
  PROVE  /\ checkpoint' \in Checkpoints \cup {NoCheckpoint}
         /\ stored' \in [task : TaskStates, checkpoint : Checkpoints \cup {NoCheckpoint}]
BY DEF Deliver, MaySave, Saved, TypeOK

LEMMA DownTyped ==
  ASSUME TypeOK, stored' \in [task : TaskStates, checkpoint : Checkpoints \cup {NoCheckpoint}],
         Down(stored'), UNCHANGED <<work, final>>,
         written' \in [Segments -> SUBSET Nat],
         \A s \in Segments : written'[s] \subseteq 1..Length[s]
  PROVE  TInv'
BY NothingIsCheckpoint DEF Down, TypeOK, TInv, Room, Resting, Phases, Errors

LEMMA CountTyped ==
  ASSUME TInv, NEW s \in Segments, worker[s] = "wrote"
  PROVE  [completed EXCEPT ![s] = @ + 1] \in Checkpoints
BY DEF TInv, TypeOK, Room, Checkpoints

LEMMA DownloadTyped == TInv /\ Download => TInv'
<1> SUFFICES ASSUME TInv, Download PROVE TInv'
  OBVIOUS
<1> USE DEF TInv, Room, Resting, taskVars, diskVars, runVars, connVars
<1>1. CASE OpenFails
  BY <1>1 DEF OpenFails, TypeOK, Phases, Errors
<1>2. CASE Create
  BY <1>2 DEF Create, TypeOK, Phases
<1>3. CASE Truncate
  <2>1. /\ work' \in {"none", "empty", "sized"} /\ result' \in Errors \cup {"ok"}
        /\ phase' \in Phases /\ phase' # "collecting" /\ phase # "collecting"
    BY <1>3 DEF Truncate, TypeOK, Phases, Errors
  <2>2. QED BY <1>3, <2>1 DEF Truncate, TypeOK
<1>4. CASE Reopen
  BY <1>4 DEF Reopen, TypeOK, Phases
<1>5. CASE FirstReport
  <2>1. completed \in Checkpoints \cup {NoCheckpoint}
    BY DEF TypeOK
  <2>2. /\ checkpoint' \in Checkpoints \cup {NoCheckpoint}
        /\ stored' \in [task : TaskStates, checkpoint : Checkpoints \cup {NoCheckpoint}]
    BY <1>5, <2>1, DeliverTyped DEF FirstReport
  <2>3. QED BY <1>5, <2>2 DEF FirstReport, TypeOK, Phases
<1>6. CASE LastReport
  <2>1. completed \in Checkpoints \cup {NoCheckpoint}
    BY DEF TypeOK
  <2>2. /\ checkpoint' \in Checkpoints \cup {NoCheckpoint}
        /\ stored' \in [task : TaskStates, checkpoint : Checkpoints \cup {NoCheckpoint}]
    BY <1>6, <2>1, DeliverTyped DEF LastReport, LastDelivery
  <2>3. QED BY <1>6, <2>2 DEF LastReport, Finished, TypeOK, Phases
<1>7. CASE Check
  <2>1. /\ result' \in Errors \cup {"ok"}
        /\ phase' \in Phases /\ phase' # "collecting" /\ phase # "collecting"
    BY <1>7 DEF Check, TypeOK, Phases, Errors
  <2>2. QED BY <1>7, <2>1 DEF Check, TypeOK
<1>8. CASE Publish
  <2>1. /\ result' \in Errors \cup {"ok"} /\ final' \in {"none", "complete", "holes"}
        /\ phase' \in Phases /\ phase' # "collecting" /\ phase # "collecting"
    BY <1>8 DEF Publish, Content, TypeOK, Phases, Errors
  <2>2. QED BY <1>8, <2>1 DEF Publish, TypeOK
<1>9. CASE DropWorkName
  BY <1>9 DEF DropWorkName, TypeOK, Phases
<1>10. CASE Clean
  BY <1>10 DEF Clean, TypeOK, Phases
<1>11. CASE RunEnds
  <2>1. Outcomes \subseteq TaskStates
    BY DEF Outcomes, TaskStates, Unfinished
  <2>2. /\ task' \in TaskStates /\ checkpoint' \in Checkpoints \cup {NoCheckpoint}
        /\ stored' \in [task : TaskStates, checkpoint : Checkpoints \cup {NoCheckpoint}]
        /\ work' \in {"none", "empty", "sized"}
    BY <1>11, <2>1 DEF RunEnds, MaySave, Saved, TypeOK
  <2>3. QED BY <1>11, <2>2 DEF RunEnds, TypeOK, Phases
<1>12. QED BY <1>1, <1>2, <1>3, <1>4, <1>5, <1>6, <1>7, <1>8, <1>9, <1>10, <1>11 DEF Download

LEMMA ConnectionTyped ==
  ASSUME TInv, NEW s \in Segments, Connection(s)
  PROVE  TInv'
<1> USE DEF TInv, Room, Resting, taskVars, diskVars, runVars, connVars
<1>1. CASE Write(s)
  BY <1>1 DEF Write, Fits, TypeOK, Checkpoints
<1>2. CASE Count(s)
  <2>1. [completed EXCEPT ![s] = @ + 1] \in Checkpoints
    BY <1>2, CountTyped DEF Count
  <2>2. completed' \in Checkpoints /\ snapshot' \in [Segments -> Checkpoints \cup {NoCheckpoint}]
    BY <1>2, <2>1 DEF Count, Aggregate, TypeOK
  <2>3. Room'
    BY <1>2 DEF Count, TypeOK, Checkpoints
  <2>4. QED BY <1>2, <2>2, <2>3 DEF Count, TypeOK
<1>3. CASE Report(s)
  <2>1. snapshot[s] \in Checkpoints \cup {NoCheckpoint}
    BY DEF TypeOK
  <2>2. /\ checkpoint' \in Checkpoints \cup {NoCheckpoint}
        /\ stored' \in [task : TaskStates, checkpoint : Checkpoints \cup {NoCheckpoint}]
    BY <1>3, <2>1, DeliverTyped DEF Report
  <2>3. QED BY <1>3, <2>2 DEF Report, TypeOK
<1>4. CASE End(s)
  BY <1>4 DEF End, Ends, TypeOK, Errors
<1>5. CASE Collect(s)
  BY <1>5 DEF Collect, FirstError, TypeOK, Errors
<1>6. QED BY <1>1, <1>2, <1>3, <1>4, <1>5 DEF Connection

LEMMA OperationTyped == TInv /\ Operation => TInv'
<1> SUFFICES ASSUME TInv, Operation PROVE TInv'
  OBVIOUS
<1> USE DEF TInv, Room, Resting, taskVars, diskVars, runVars, connVars, MaySave, Saved,
            Free, TaskStates, Unfinished
<1>1. CASE Pause
  BY <1>1 DEF Pause, TypeOK
<1>2. CASE Cancel
  BY <1>2 DEF Cancel, TypeOK
<1>3. CASE Close
  BY <1>3 DEF Close, TypeOK
<1>4. CASE Signal
  BY <1>4 DEF Signal, TypeOK
<1>5. CASE PauseSucceeds \/ PauseFails
  BY <1>5 DEF PauseSucceeds, PauseFails, TypeOK
<1>6. CASE CancelEnds
  BY <1>6 DEF CancelEnds, TypeOK
<1>7. CASE Resume
  BY <1>7 DEF Resume, TypeOK
<1>8. CASE Retry
  BY <1>8 DEF Retry, TypeOK
<1>9. QED BY <1>1, <1>2, <1>3, <1>4, <1>5, <1>6, <1>7, <1>8 DEF Operation

LEMMA RestoredTyped ==
  ASSUME TypeOK
  PROVE  /\ Restored.record \in [task : TaskStates, checkpoint : Checkpoints \cup {NoCheckpoint}]
         /\ Restored.work \in {"none", "empty", "sized"}
BY DEF TypeOK, Restored, Interrupted, Bare, TaskStates, Unfinished

LEMMA StepTyped == TInv /\ [Next]_vars => TInv'
<1> SUFFICES ASSUME TInv, [Next]_vars PROVE TInv'
  OBVIOUS
<1> USE DEF taskVars, diskVars, runVars, connVars
<1>1. CASE Start
  <2>1. /\ task' \in TaskStates /\ completed' \in Checkpoints
        /\ stored' \in [task : TaskStates, checkpoint : Checkpoints \cup {NoCheckpoint}]
    BY <1>1, NothingIsCheckpoint
    DEF Start, MaySave, Saved, TInv, TypeOK, TaskStates, Unfinished
  <2>2. phase' \in Phases /\ phase' # "collecting" /\ result' = "ok"
    BY <1>1 DEF Start, Phases
  <2>3. QED BY <1>1, <2>1, <2>2 DEF Start, TInv, TypeOK, Room, Resting
<1>2. CASE CloseEnds
  <2>1. stored' \in [task : TaskStates, checkpoint : Checkpoints \cup {NoCheckpoint}]
    BY <1>2 DEF CloseEnds, MaySave, Saved, TInv, TypeOK, TaskStates, Unfinished
  <2>2. QED BY <1>2, <2>1, DownTyped DEF CloseEnds, TInv, TypeOK
<1>3. CASE Crash
  <2>1. /\ written' \in [Segments -> SUBSET Nat]
        /\ \A s \in Segments : written'[s] \subseteq 1..Length[s]
    <3>1. CASE UNCHANGED written
      BY <3>1 DEF TInv, TypeOK
    <3>2. CASE \E lost \in SUBSET (UNION {{s} \X written[s] : s \in Segments}) :
                 written' = [s \in Segments |-> {i \in written[s] : <<s, i>> \notin lost}]
      <4>1. \A s \in Segments : written'[s] \subseteq written[s]
        BY <3>2
      <4>2. QED BY <3>2, <4>1 DEF TInv, TypeOK
    <3>3. QED BY <1>3, <3>1, <3>2 DEF Crash
  <2>2. Down(stored')
    BY <1>3 DEF Crash, Down
  <2>3. QED BY <1>3, <2>1, <2>2, DownTyped DEF Crash, TInv, TypeOK
<1>4. CASE Restart
  BY <1>4, RestoredTyped DEF Restart, TInv, TypeOK, Room, Resting
<1>5. CASE UNCHANGED vars
  BY <1>5 DEF vars, TInv, TypeOK, Room, Resting
<1>6. QED BY <1>1, <1>2, <1>3, <1>4, <1>5, DownloadTyped, ConnectionTyped, OperationTyped DEF Next

\* Every variable of the transfer keeps its type, whatever fails: no offset
\* leaves its segment.
THEOREM TransferTyped == Spec => []TypeOK
<1>1. Spec => []TInv
  BY InitTyped, StepTyped, PTL DEF Spec
<1>2. TInv => TypeOK
  BY DEF TInv
<1>3. QED BY <1>1, <1>2, PTL

-----------------------------------------------------------------------------
(* What holds although records are not saved and writes are lost.          *)

\* A run belongs to a task that it has not settled yet.
Running == phase # "none" => up /\ task \in {"downloading", "paused", "canceled"}

\* A failure that is on record is the state of the task: only a retry that was
\* saved ends it.
FailureRecorded == stored.task \in {"failed", "retryable"} => task = stored.task

\* After the publication nothing starts again, and nothing fails.
Settled ==
  final # "none" =>
    /\ task \notin {"failed", "retryable"}
    /\ phase \in {"none", "published"} \/ (phase = "returned" /\ result = "ok")
    /\ phase = "none" /\ up => task \notin {"queued", "downloading"}

Outcome ==
  /\ CanceledByUser
  /\ \A s \in Segments : worker[s] = "canceled" => WorkersCanceled
  /\ phase \in {"publishing", "published"} => result = "ok"

RInv == TInv /\ Running /\ FailureRecorded /\ Settled /\ Outcome

LEMMA InitRuns == Init => RInv
BY InitTyped
DEF Init, RInv, Running, FailureRecorded, Settled, Outcome, CanceledByUser

LEMMA DownKeeps ==
  ASSUME RInv, Down(stored'), UNCHANGED final, FailureRecorded',
         stored'.task \in {"failed", "retryable"} => final = "none"
  PROVE  Running' /\ Settled' /\ Outcome'
BY DEF Down, RInv, Running, Settled, Outcome, CanceledByUser

LEMMA DeliverKeeps ==
  ASSUME RInv, NEW c, Deliver(c), UNCHANGED task
  PROVE  FailureRecorded'
BY DEF Deliver, MaySave, Saved, Accepts, RInv, FailureRecorded

LEMMA DownloadRuns == RInv /\ Download => RInv'
<1> SUFFICES ASSUME RInv, Download PROVE RInv'
  OBVIOUS
<1>0. TInv'
  BY DownloadTyped DEF RInv
<1> USE DEF RInv, Running, Settled, Outcome, CanceledByUser, WorkersCanceled,
            taskVars, diskVars, runVars, connVars
<1>1. CASE OpenFails \/ Create \/ Truncate \/ Reopen
  BY <1>0, <1>1 DEF OpenFails, Create, Truncate, Reopen, FailureRecorded
<1>2. CASE FirstReport
  BY <1>0, <1>2, DeliverKeeps DEF FirstReport
<1>3. CASE LastReport
  BY <1>0, <1>3, DeliverKeeps DEF LastReport, LastDelivery
<1>4. CASE Check
  BY <1>0, <1>4 DEF Check, Complete, FailureRecorded
<1>5. CASE Publish
  <2>1. final' # "none" => phase' = "published"
    BY <1>5 DEF Publish
  <2>2. result' = "canceled" => cause' # "none"
    BY <1>5 DEF Publish
  <2>3. \A s \in Segments : worker'[s] # "canceled"
    BY <1>5 DEF Publish, TInv, Resting
  <2>4. phase' = "published" => result' = "ok"
    BY <1>5 DEF Publish
  <2>5. phase' \notin {"none", "publishing"} /\ phase # "none" /\ UNCHANGED <<task, up, stored>>
    BY <1>5 DEF Publish
  <2>6. QED BY <1>0, <2>1, <2>2, <2>3, <2>4, <2>5 DEF FailureRecorded
<1>6. CASE DropWorkName \/ Clean
  <2>1. UNCHANGED <<task, up, stored, final, cause, result, worker>>
    BY <1>6 DEF DropWorkName, Clean
  <2>2. phase # "none" /\ phase' = "returned" /\ (final # "none" => phase = "published")
    BY <1>6 DEF DropWorkName, Clean
  <2>3. phase = "published" => result = "ok"
    OBVIOUS
  <2>4. QED BY <1>0, <2>1, <2>2, <2>3 DEF FailureRecorded
<1>7. CASE RunEnds
  <2>1. FailureRecorded'
    BY <1>7 DEF RunEnds, MaySave, Saved, FailureRecorded, Outcomes
  <2>2. final # "none" => task' \notin {"failed", "retryable", "queued", "downloading"}
    BY <1>7 DEF RunEnds, Outcomes
  <2>3. QED BY <1>0, <1>7, <2>1, <2>2 DEF RunEnds
<1>8. QED BY <1>1, <1>2, <1>3, <1>4, <1>5, <1>6, <1>7 DEF Download

LEMMA ConnectionRuns ==
  ASSUME RInv, NEW s \in Segments, Connection(s)
  PROVE  RInv'
<1>0. TInv'
  BY ConnectionTyped DEF RInv
<1> USE DEF RInv, Running, Settled, Outcome, CanceledByUser, WorkersCanceled,
            taskVars, diskVars, runVars, connVars
<1>1. CASE Write(s) \/ Count(s)
  BY <1>0, <1>1 DEF Write, Count, FailureRecorded, TInv, TypeOK
<1>2. CASE Report(s)
  <2>1. FailureRecorded'
    BY <1>2, DeliverKeeps DEF Report
  <2>2. QED BY <1>0, <1>2, <2>1 DEF Report, TInv, TypeOK
<1>3. CASE End(s)
  BY <1>0, <1>3 DEF End, Ends, FailureRecorded, TInv, TypeOK
<1>4. CASE Collect(s)
  <2>1. /\ result' = "ok" => result = "ok"
        /\ result' = "canceled" => cause # "none"
    BY <1>4 DEF Collect, FirstError
  <2>2. QED BY <1>0, <1>4, <2>1 DEF Collect, FailureRecorded, TInv, TypeOK
<1>5. QED BY <1>1, <1>2, <1>3, <1>4 DEF Connection

LEMMA OperationRuns == RInv /\ Operation => RInv'
<1> SUFFICES ASSUME RInv, Operation PROVE RInv'
  OBVIOUS
<1>0. TInv'
  BY OperationTyped DEF RInv
<1> USE DEF RInv, Running, Settled, Outcome, CanceledByUser, WorkersCanceled, Free,
            FailureRecorded, Unfinished, MaySave, Saved,
            taskVars, diskVars, runVars, connVars
<1>1. CASE Pause \/ Cancel
  BY <1>0, <1>1 DEF Pause, Cancel
<1>2. CASE Close
  BY <1>0, <1>2 DEF Close
<1>3. CASE Signal
  BY <1>0, <1>3 DEF Signal
<1>4. CASE PauseSucceeds \/ PauseFails \/ CancelEnds
  BY <1>0, <1>4 DEF PauseSucceeds, PauseFails, CancelEnds
<1>5. CASE Resume
  BY <1>0, <1>5 DEF Resume, Resumable
<1>6. CASE Retry
  BY <1>0, <1>6 DEF Retry
<1>7. QED BY <1>1, <1>2, <1>3, <1>4, <1>5, <1>6 DEF Operation

LEMMA StepRuns == RInv /\ [Next]_vars => RInv'
<1> SUFFICES ASSUME RInv, [Next]_vars PROVE RInv'
  OBVIOUS
<1>0. TInv'
  BY StepTyped DEF RInv
<1> USE DEF taskVars, diskVars, runVars, connVars
<1>1. CASE Start
  <2>1. FailureRecorded'
    BY <1>1 DEF Start, MaySave, Saved, RInv, FailureRecorded
  <2>2. Running' /\ Settled'
    BY <1>1 DEF Start, RInv, Running, Settled
  <2>3. Outcome'
    BY <1>1 DEF Start, RInv, TInv, Resting, Outcome, CanceledByUser
  <2>4. QED BY <1>0, <2>1, <2>2, <2>3 DEF RInv
<1>2. CASE CloseEnds
  <2>1. FailureRecorded'
    BY <1>2 DEF CloseEnds, Down, FailureRecorded
  <2>2. stored'.task \in {"failed", "retryable"} => final = "none"
    BY <1>2 DEF CloseEnds, MaySave, Saved, RInv, FailureRecorded, Settled
  <2>3. QED BY <1>0, <1>2, <2>1, <2>2, DownKeeps DEF CloseEnds, RInv
<1>3. CASE Crash
  <2>1. FailureRecorded' /\ Down(stored')
    BY <1>3 DEF Crash, Down, FailureRecorded
  <2>2. stored'.task \in {"failed", "retryable"} => final = "none"
    BY <1>3 DEF Crash, RInv, FailureRecorded, Settled
  <2>3. QED BY <1>0, <1>3, <2>1, <2>2, DownKeeps DEF Crash, RInv
<1>4. CASE Restart
  <2>1. final # "none" => Restored.record.task \in {"completed", "canceled"}
    BY DEF Restored, Interrupted, Recognizes, Bare, RInv, FailureRecorded, Settled,
           TInv, TypeOK, TaskStates, Unfinished
  <2>2. QED BY <1>0, <1>4, <2>1
        DEF Restart, RInv, Running, Settled, Outcome, CanceledByUser, WorkersCanceled, FailureRecorded
<1>5. CASE UNCHANGED vars
  BY <1>0, <1>5
  DEF vars, RInv, Running, Settled, Outcome, CanceledByUser, WorkersCanceled, FailureRecorded
<1>6. QED BY <1>1, <1>2, <1>3, <1>4, <1>5, DownloadRuns, ConnectionRuns, OperationRuns DEF Next

LEMMA AlwaysRuns == Spec => []RInv
BY InitRuns, StepRuns, PTL DEF Spec

\* A task that failed has published nothing, whatever a crash interrupts and
\* whichever records are lost: a published file is recognized on restart.
THEOREM FailuresPublishNothing == Spec => []FailedUnpublished
<1>1. RInv => FailedUnpublished
  BY DEF RInv, Settled, FailedUnpublished
<1>2. QED BY <1>1, AlwaysRuns, PTL

\* A transfer ends as canceled only when an operation canceled it.
THEOREM CancellationsAreUsers == Spec => []CanceledByUser
<1>1. RInv => CanceledByUser
  BY DEF RInv, Outcome
<1>2. QED BY <1>1, AlwaysRuns, PTL

-----------------------------------------------------------------------------
(* What a pause keeps.                                                     *)

\* The request has heard of every cell that was counted, and no other.
Agrees == checkpoint = completed \/ (checkpoint = NoCheckpoint /\ completed = Nothing)

\* While the connections run the request may be behind, and an older report may
\* overwrite a newer one; before they start and once the last report is made it
\* is not.  Nothing but a pause leaves op = "pause", so what the last report
\* settled is still there when the pause looks at it.
Heard ==
  /\ op = "pause" => up /\ task = "paused"
  /\ phase \notin {"none", "collecting"} /\ task \in {"downloading", "paused"} => Agrees
  /\ op = "pause" /\ phase = "none" => Agrees

HInv == RInv /\ Heard

LEMMA DownloadHears == HInv /\ Download => Heard'
<1> SUFFICES ASSUME HInv, Download PROVE Heard'
  OBVIOUS
<1> USE DEF HInv, Heard, Agrees, taskVars, diskVars, runVars, connVars
<1>1. CASE OpenFails \/ Create \/ Truncate \/ Reopen
  BY <1>1 DEF OpenFails, Create, Truncate, Reopen
<1>2. CASE FirstReport
  BY <1>2 DEF FirstReport
<1>3. CASE LastReport
  <2>1. task \in {"downloading", "paused"} => checkpoint' = completed
    BY <1>3 DEF LastReport, LastDelivery, Deliver, Accepts
  <2>2. QED BY <1>3, <2>1 DEF LastReport
<1>4. CASE Check
  BY <1>4 DEF Check
<1>5. CASE Publish \/ DropWorkName \/ Clean
  BY <1>5 DEF Publish, DropWorkName, Clean
<1>6. CASE RunEnds
  <2>1. op = "pause" => UNCHANGED <<task, checkpoint>>
    BY <1>6 DEF RunEnds
  <2>2. QED BY <1>6, <2>1 DEF RunEnds
<1>7. QED BY <1>1, <1>2, <1>3, <1>4, <1>5, <1>6 DEF Download

\* A connection works only while the reports are collected.
LEMMA ConnectionHears ==
  ASSUME HInv, NEW s \in Segments, Connection(s)
  PROVE  Heard'
<1>1. phase = "collecting"
  BY DEF HInv, RInv, TInv, Resting, Connection, Write, Count, Report, End, Ends, Collect, Errors
<1>2. UNCHANGED <<op, up, task, phase>>
  BY DEF Connection, Write, Count, Report, End, Ends, Collect, taskVars, runVars
<1>3. QED BY <1>1, <1>2 DEF HInv, Heard

LEMMA OperationHears == HInv /\ Operation => Heard'
<1> SUFFICES ASSUME HInv, Operation PROVE Heard'
  OBVIOUS
<1> USE DEF HInv, Heard, Agrees, Free, Unfinished, taskVars, diskVars, runVars, connVars
<1>1. CASE Pause
  <2>1. UNCHANGED <<checkpoint, completed, phase, up>> /\ task' = "paused" /\ up
    BY <1>1 DEF Pause
  <2>2. op' = "pause" => phase # "none"
    BY <1>1 DEF Pause
  <2>3. phase # "none" => task = "downloading"
    BY <1>1 DEF Pause, RInv, Running
  <2>4. QED BY <2>1, <2>2, <2>3
<1>2. CASE Cancel \/ Close
  BY <1>2 DEF Cancel, Close, RInv, Running
<1>3. CASE Signal \/ PauseSucceeds \/ PauseFails \/ CancelEnds
  BY <1>3 DEF Signal, PauseSucceeds, PauseFails, CancelEnds
<1>4. CASE Resume \/ Retry
  BY <1>4 DEF Resume, Retry
<1>5. QED BY <1>1, <1>2, <1>3, <1>4 DEF Operation

LEMMA StepHears == HInv /\ [Next]_vars => HInv'
<1> SUFFICES ASSUME HInv, [Next]_vars PROVE Heard'
  BY StepRuns DEF HInv
<1> USE DEF HInv, Heard, Agrees, taskVars, diskVars, runVars, connVars
<1>1. CASE Start
  BY <1>1 DEF Start
<1>2. CASE CloseEnds \/ Crash
  BY <1>2 DEF CloseEnds, Crash, Down
<1>3. CASE Restart
  BY <1>3 DEF Restart, RInv, Running
<1>4. CASE UNCHANGED vars
  BY <1>4 DEF vars
<1>5. QED BY <1>1, <1>2, <1>3, <1>4, DownloadHears, ConnectionHears, OperationHears DEF Next

LEMMA AlwaysHears == Spec => []HInv
<1>1. Init => HInv
  BY InitRuns DEF Init, HInv, Heard
<1>2. QED BY <1>1, StepHears, PTL DEF Spec

\* A pause that succeeds has kept every cell that was counted, in whichever order
\* the connections report and however many records could not be saved before, so
\* that a resumed transfer goes on where the connections were (Manager.Pause).
THEOREM PausesKeepAll == Spec => PauseKeepsAll
<1>1. HInv /\ [Next]_vars =>
        [PauseSucceeds =>
           checkpoint = completed \/ (checkpoint = NoCheckpoint /\ completed = Nothing)]_vars
  BY DEF HInv, Heard, Agrees, PauseSucceeds
<1>2. QED BY <1>1, AlwaysHears, PTL DEF Spec, PauseKeepsAll

-----------------------------------------------------------------------------
(* What holds as long as records are saved and writes are not lost.        *)

Reliable == ~ StoreFails /\ ~ PowerFails

\* The record is the state in memory.
Mirrored == stored = [task |-> task, checkpoint |-> checkpoint]

\* The checkpoint a task would go on from; until its file is there, it has none.
TaskClaims ==
  task \in Unfinished /\ checkpoint # NoCheckpoint =>
    /\ work = "sized" => Claims(checkpoint)
    /\ phase \notin {"creating", "sizing"}

Transferring == {"first report", "collecting", "checking", "publishing"}

\* The transfer's own checkpoint and the reports that are under way.
RunClaims ==
  /\ phase \in Transferring => Claims(completed) /\ work = "sized"
  /\ phase = "reopening" /\ work = "sized" => Claims(completed)
  /\ phase = "sizing" => completed = Nothing
  /\ phase = "creating" => completed = Nothing
  /\ phase = "publishing" => completed = Length
  /\ \A s \in Segments :
       /\ worker[s] = "wrote" => completed[s] + 1 \in written[s]
       /\ worker[s] = "reporting" => snapshot[s] \in Checkpoints /\ Claims(snapshot[s])

SInv == Reliable /\ RInv /\ Mirrored /\ TaskClaims /\ RunClaims /\ NeverHoles

LEMMA NothingClaimed == Claims(Nothing)
BY DEF Claims, Nothing

LEMMA InitSafe == Reliable /\ Init => SInv
BY InitRuns DEF Init, SInv, Mirrored, TaskClaims, RunClaims, NeverHoles, Transferring

\* A cell more that is in the file, and that is counted.
LEMMA CountClaims ==
  ASSUME TInv, NEW s \in Segments, Claims(completed), completed[s] + 1 \in written[s]
  PROVE  Claims([completed EXCEPT ![s] = @ + 1])
<1> DEFINE counted == [completed EXCEPT ![s] = @ + 1]
<1> SUFFICES ASSUME NEW t \in Segments, NEW i \in 1..counted[t]
             PROVE  i \in written[t]
  BY DEF Claims
<1>1. completed \in [Segments -> Nat]
  BY DEF TInv, TypeOK, Checkpoints
<1>2. CASE t = s /\ i = completed[s] + 1
  BY <1>2
<1>3. CASE ~ (t = s /\ i = completed[s] + 1)
  <2>1. i \in 1..completed[t]
    BY <1>1, <1>3
  <2>2. QED BY <2>1 DEF Claims
<1>4. QED BY <1>2, <1>3

LEMMA MoreWritten ==
  ASSUME NEW c, Claims(c), \A s \in Segments : written[s] \subseteq written'[s]
  PROVE  \A s \in Segments : 1..c[s] \subseteq written'[s]
BY DEF Claims

\* A report keeps the record and the checkpoint in step.
LEMMA DeliverSafe ==
  ASSUME SInv, NEW c, c \in Checkpoints, Claims(c), Deliver(c), work = "sized",
         phase \notin {"creating", "sizing"}, phase' \notin {"creating", "sizing"},
         UNCHANGED <<task, work, written>>
  PROVE  Mirrored' /\ TaskClaims'
BY DEF Deliver, Accepts, MaySave, Saved, SInv, Reliable, Mirrored, TaskClaims, Claims

LEMMA FullContent == TInv /\ Claims(completed) /\ completed = Length => Content = "complete"
<1> SUFFICES ASSUME TInv, Claims(completed), completed = Length PROVE Content = "complete"
  OBVIOUS
<1>1. \A s \in Segments : written[s] = 1..Length[s]
  BY DEF TInv, TypeOK, Claims
<1>2. QED BY <1>1 DEF Content

LEMMA DownloadSafe == SInv /\ Download => SInv'
<1> SUFFICES ASSUME SInv, Download PROVE SInv'
  OBVIOUS
<1>0. RInv' /\ Reliable'
  BY DownloadRuns DEF SInv, Reliable
<1>01. \A s \in Segments : phase # "collecting" => worker[s] \in {"idle", "collected"}
  BY DEF SInv, RInv, TInv, Resting
<1> USE DEF Mirrored, TaskClaims, RunClaims, NeverHoles, Transferring,
            taskVars, diskVars, runVars, connVars
<1>1. CASE OpenFails
  BY <1>0, <1>1 DEF OpenFails, SInv, Claims
<1>2. CASE Create
  <2>1. task \in Unfinished => checkpoint = NoCheckpoint
    BY <1>2 DEF Create, SInv
  <2>2. \A s \in Segments : worker'[s] \in {"idle", "collected"}
    BY <1>2, <1>01 DEF Create
  <2>3. QED BY <1>0, <1>2, <2>1, <2>2 DEF Create, SInv
<1>3. CASE Truncate
  <2>1. task \in Unfinished => checkpoint = NoCheckpoint
    BY <1>3 DEF Truncate, SInv
  <2>2. \A s \in Segments : worker'[s] \in {"idle", "collected"}
    BY <1>3, <1>01 DEF Truncate
  <2>3. Claims(completed)'
    BY <1>3, NothingClaimed DEF Truncate, SInv, Claims
  <2>4. phase' \in {"first report", "returned"} /\ (phase' = "first report" => work' = "sized")
    BY <1>3 DEF Truncate
  <2>5. UNCHANGED <<task, checkpoint, stored, final>>
    BY <1>3 DEF Truncate
  <2>6. QED BY <1>0, <2>1, <2>2, <2>3, <2>4, <2>5 DEF SInv
<1>4. CASE Reopen
  BY <1>0, <1>4, <1>01 DEF Reopen, SInv, Claims
<1>5. CASE FirstReport
  <2>1. Mirrored' /\ TaskClaims'
    BY <1>5, DeliverSafe DEF FirstReport, SInv, RInv, TInv, TypeOK
  <2>2. RunClaims'
    BY <1>5 DEF FirstReport, SInv, Claims
  <2>3. QED BY <1>0, <1>5, <2>1, <2>2 DEF FirstReport, SInv
<1>6. CASE LastReport
  <2>1. Mirrored' /\ TaskClaims'
    BY <1>6, DeliverSafe DEF LastReport, LastDelivery, SInv, RInv, TInv, TypeOK
  <2>2. RunClaims'
    BY <1>6 DEF LastReport, SInv, Claims
  <2>3. QED BY <1>0, <1>6, <2>1, <2>2 DEF LastReport, SInv
<1>7. CASE Check
  <2>1. phase' = "publishing" => completed' = Length
    BY <1>7 DEF Check, Complete
  <2>2. phase = "checking" /\ phase' \in {"publishing", "cleaning"}
        /\ UNCHANGED <<task, checkpoint, stored, work, written, final, completed, worker, snapshot>>
    BY <1>7 DEF Check
  <2>3. QED BY <1>0, <2>1, <2>2 DEF SInv, Claims
<1>8. CASE Publish
  <2>1. final' # "holes"
    BY <1>8, FullContent DEF Publish, SInv, RInv
  <2>2. phase = "publishing" /\ phase' \in {"published", "cleaning"}
        /\ UNCHANGED <<task, checkpoint, stored, work, written, completed, worker, snapshot>>
    BY <1>8 DEF Publish
  <2>3. QED BY <1>0, <2>1, <2>2 DEF SInv, Claims
<1>9. CASE DropWorkName \/ Clean
  <2>1. phase' = "returned" /\ work' \in {work, "none"}
        /\ UNCHANGED <<task, checkpoint, stored, written, final, completed, worker, snapshot>>
    BY <1>9 DEF DropWorkName, Clean
  <2>2. QED BY <1>0, <2>1 DEF SInv, Claims
<1>10. CASE RunEnds
  <2>1. Mirrored'
    BY <1>10 DEF RunEnds, MaySave, Saved, SInv, Reliable
  <2>2. TaskClaims'
    BY <1>10 DEF RunEnds, SInv, Claims
  <2>3. RunClaims' /\ NeverHoles'
    BY <1>10, <1>01 DEF RunEnds, SInv
  <2>4. QED BY <1>0, <2>1, <2>2, <2>3 DEF SInv
<1>11. QED BY <1>1, <1>2, <1>3, <1>4, <1>5, <1>6, <1>7, <1>8, <1>9, <1>10 DEF Download

LEMMA ConnectionSafe ==
  ASSUME SInv, NEW s \in Segments, Connection(s)
  PROVE  SInv'
<1>0. RInv' /\ Reliable'
  BY ConnectionRuns DEF SInv, Reliable
<1>01. worker \in [Segments -> Errors \cup {"idle", "reading", "wrote", "reporting", "ok",
                                            "collected"}]
       /\ written \in [Segments -> SUBSET Nat]
       /\ completed \in [Segments -> Nat]
       /\ snapshot \in [Segments -> Checkpoints \cup {NoCheckpoint}]
  BY DEF SInv, RInv, TInv, TypeOK, Checkpoints
<1>02. worker[s] \notin {"idle", "collected"} => phase = "collecting"
  BY DEF SInv, RInv, TInv, Resting
<1> USE DEF taskVars, diskVars, runVars, connVars
<1>1. CASE Write(s)
  <2>1. \A t \in Segments : written[t] \subseteq written'[t]
    BY <1>01, <1>1 DEF Write
  <2>2. TaskClaims'
    BY <1>1, <2>1 DEF Write, SInv, TaskClaims, Claims
  <2>3. phase = "collecting" /\ UNCHANGED <<phase, work, completed, snapshot>>
    BY <1>02, <1>1 DEF Write
  <2>4. Claims(completed)' /\ work' = "sized"
    BY <2>1, <2>3 DEF SInv, RunClaims, Transferring, Claims
  <2>5. \A t \in Segments :
          /\ worker'[t] = "wrote" => completed[t] + 1 \in written'[t]
          /\ worker'[t] = "reporting" => snapshot[t] \in Checkpoints /\ Claims(snapshot[t])'
    BY <1>01, <1>1, <2>1, <2>3 DEF Write, SInv, RunClaims, Claims
  <2>6. RunClaims'
    BY <2>3, <2>4, <2>5 DEF RunClaims
  <2>7. QED BY <1>0, <1>1, <2>2, <2>6 DEF Write, SInv, Mirrored, NeverHoles
<1>2. CASE Count(s)
  <2>1. phase = "collecting" /\ UNCHANGED <<phase, work, written, task, checkpoint, stored, final>>
    BY <1>02, <1>2 DEF Count
  <2>2. Claims(completed) /\ work = "sized" /\ completed[s] + 1 \in written[s]
    BY <1>2, <2>1 DEF Count, SInv, RunClaims, Transferring
  <2>3. Claims(completed') /\ completed' \in Checkpoints
    BY <1>2, <2>2, CountClaims, CountTyped DEF Count, SInv, RInv
  <2>4. \A t \in Segments \ {s} : completed'[t] = completed[t] /\ worker'[t] = worker[t]
                                  /\ snapshot'[t] = snapshot[t]
    BY <1>01, <1>2 DEF Count
  <2>5. worker'[s] \in {"reading", "reporting"}
        /\ (worker'[s] = "reporting" => snapshot'[s] = completed')
    BY <1>01, <1>2 DEF Count, Aggregate
  <2>6. RunClaims'
    BY <2>1, <2>2, <2>3, <2>4, <2>5 DEF SInv, RunClaims, Claims
  <2>7. TaskClaims' /\ Mirrored' /\ NeverHoles'
    BY <2>1 DEF SInv, TaskClaims, Mirrored, NeverHoles, Claims
  <2>8. QED BY <1>0, <2>6, <2>7 DEF SInv
<1>3. CASE Report(s)
  <2>1. phase = "collecting" /\ UNCHANGED <<phase, work, written, task, final, completed>>
    BY <1>02, <1>3 DEF Report
  <2>2. snapshot[s] \in Checkpoints /\ Claims(snapshot[s]) /\ work = "sized"
    BY <1>3, <2>1 DEF Report, SInv, RunClaims, Transferring
  <2>3. Mirrored' /\ TaskClaims'
    BY <1>3, <2>1, <2>2, DeliverSafe DEF Report
  <2>4. RunClaims'
    BY <1>01, <1>3, <2>1 DEF Report, SInv, RunClaims, Claims
  <2>5. QED BY <1>0, <2>1, <2>3, <2>4 DEF SInv, NeverHoles
<1>4. CASE End(s) \/ Collect(s)
  <2>1. UNCHANGED <<phase, work, written, task, checkpoint, stored, final, completed, snapshot>>
    BY <1>4 DEF End, Ends, Collect
  <2>2. \A t \in Segments : worker'[t] \in {"wrote", "reporting"} => worker'[t] = worker[t]
    BY <1>01, <1>4 DEF End, Ends, Collect, Errors
  <2>3. QED BY <1>0, <2>1, <2>2
        DEF SInv, Mirrored, TaskClaims, RunClaims, NeverHoles, Claims
<1>5. QED BY <1>1, <1>2, <1>3, <1>4 DEF Connection

LEMMA OperationSafe == SInv /\ Operation => SInv'
<1> SUFFICES ASSUME SInv, Operation PROVE SInv'
  OBVIOUS
<1>0. RInv' /\ Reliable'
  BY OperationRuns DEF SInv, Reliable
<1> USE DEF Mirrored, TaskClaims, RunClaims, NeverHoles, Claims, MaySave, Saved, Free,
            Unfinished, taskVars, diskVars, runVars, connVars
<1>1. CASE Pause
  BY <1>0, <1>1 DEF Pause, SInv, Reliable
<1>2. CASE Cancel
  BY <1>0, <1>2 DEF Cancel, SInv, Reliable
<1>3. CASE Close
  BY <1>0, <1>3 DEF Close, SInv, Reliable
<1>4. CASE Signal
  BY <1>0, <1>4 DEF Signal, SInv
<1>5. CASE PauseSucceeds \/ PauseFails
  BY <1>0, <1>5 DEF PauseSucceeds, PauseFails, SInv
<1>6. CASE CancelEnds
  BY <1>0, <1>6 DEF CancelEnds, SInv, Transferring
<1>7. CASE Resume
  BY <1>0, <1>7 DEF Resume, SInv
<1>8. CASE Retry
  BY <1>0, <1>8 DEF Retry, SInv, Reliable, Transferring
<1>9. QED BY <1>1, <1>2, <1>3, <1>4, <1>5, <1>6, <1>7, <1>8 DEF Operation

LEMMA StepSafe == SInv /\ [Next]_vars => SInv'
<1> SUFFICES ASSUME SInv, [Next]_vars PROVE SInv'
  OBVIOUS
<1>0. RInv' /\ Reliable'
  BY StepRuns DEF SInv, Reliable
<1>01. \A s \in Segments : phase # "collecting" => worker[s] \in {"idle", "collected"}
  BY DEF SInv, RInv, TInv, Resting
<1> USE DEF taskVars, diskVars, runVars, connVars
<1>1. CASE Start
  <2>1. Mirrored' /\ NeverHoles'
    BY <1>1 DEF Start, MaySave, Saved, SInv, Reliable, Mirrored, NeverHoles
  <2>2. TaskClaims'
    BY <1>1 DEF Start, SInv, TaskClaims, Unfinished, Claims
  <2>3. phase' = "reopening" /\ work' = "sized" => Claims(completed)'
    BY <1>1 DEF Start, SInv, TaskClaims, Unfinished, Claims
  <2>4. RunClaims'
    BY <1>01, <1>1, <2>3 DEF Start, RunClaims, Transferring
  <2>5. QED BY <1>0, <2>1, <2>2, <2>4 DEF SInv
<1>2. CASE CloseEnds
  <2>1. stored' = stored
    BY <1>2 DEF CloseEnds, MaySave, Saved, SInv, Reliable, Mirrored
  <2>2. QED BY <1>0, <1>2, <2>1
        DEF CloseEnds, Down, SInv, Mirrored, TaskClaims, RunClaims, NeverHoles, Transferring, Claims
<1>3. CASE Crash
  BY <1>0, <1>3
  DEF Crash, Down, SInv, Reliable, Mirrored, TaskClaims, RunClaims, NeverHoles, Transferring, Claims
<1>4. CASE Restart
  <2>1. phase = "none"
    BY <1>4 DEF Restart, SInv, RInv, Running
  <2>2. RunClaims'
    BY <1>01, <1>4, <2>1 DEF Restart, RunClaims, Transferring
  <2>3. Restored.record.task \in Unfinished /\ Restored.record.checkpoint # NoCheckpoint
          => Restored.record.checkpoint = checkpoint /\ task \in Unfinished /\ Restored.work = work
    BY DEF Restored, Interrupted, Bare, SInv, Mirrored, Unfinished
  <2>4. TaskClaims'
    BY <1>4, <2>1, <2>3 DEF Restart, SInv, TaskClaims, Claims, Restored, Interrupted
  <2>5. Mirrored' /\ NeverHoles'
    BY <1>4 DEF Restart, Restored, Interrupted, Bare, SInv, Mirrored, NeverHoles
  <2>6. QED BY <1>0, <2>2, <2>4, <2>5 DEF SInv
<1>5. CASE UNCHANGED vars
  BY <1>0, <1>5 DEF vars, SInv, Mirrored, TaskClaims, RunClaims, NeverHoles, Claims
<1>6. QED BY <1>1, <1>2, <1>3, <1>4, <1>5, DownloadSafe, ConnectionSafe, OperationSafe DEF Next

\* As long as records are saved and writes are not lost, a record from which a
\* restart would go on claims only cells that are in the work file.
THEOREM CheckpointsAreTrue == Reliable /\ Spec => []ClaimsWritten
<1>1. SInv => ClaimsWritten
  BY DEF SInv, Mirrored, TaskClaims, ClaimsWritten
<1>2. QED BY <1>1, InitSafe, StepSafe, PTL DEF Spec

\* Under the same conditions only the whole file is published.
THEOREM PublishedIsWhole == Reliable /\ Spec => []NeverHoles
<1>1. SInv => NeverHoles
  BY DEF SInv
<1>2. QED BY <1>1, InitSafe, StepSafe, PTL DEF Spec
-----------------------------------------------------------------------------
(* The transfer implements the contract.                                   *)

\* A run that ends without an error has published its file.
PublishedIfOk ==
  /\ phase = "published" => final # "none"
  /\ phase = "returned" /\ result = "ok" => final # "none"
  /\ phase = "cleaning" => result # "ok"

CInv == SInv /\ PublishedIfOk

LEMMA InitPublishes == Reliable /\ Init => CInv
BY InitSafe DEF Init, CInv, PublishedIfOk

LEMMA StepPublishes == CInv /\ [Next]_vars => CInv'
<1> SUFFICES ASSUME CInv, [Next]_vars PROVE PublishedIfOk'
  BY StepSafe DEF CInv
<1> USE DEF PublishedIfOk, taskVars, diskVars, runVars, connVars
<1>1. CASE Start \/ CloseEnds \/ Crash
  BY <1>1 DEF Start, CloseEnds, Crash, Down
<1>2. CASE Download
  <2>1. CASE OpenFails \/ Create \/ Truncate \/ Reopen \/ FirstReport \/ LastReport
    BY <2>1 DEF OpenFails, Create, Truncate, Reopen, FirstReport, LastReport
  <2>2. CASE Check
    BY <2>2 DEF Check
  <2>3. CASE Publish
    BY <2>3 DEF Publish, Content
  <2>4. CASE DropWorkName \/ Clean \/ RunEnds
    BY <2>4 DEF DropWorkName, Clean, RunEnds, CInv
  <2>5. QED BY <1>2, <2>1, <2>2, <2>3, <2>4 DEF Download
<1>3. CASE \E s \in Segments : Connection(s)
  <2>1. PICK s \in Segments : Connection(s)
    BY <1>3
  <2>2. worker[s] \notin {"idle", "collected"}
    BY <2>1 DEF Connection, Write, Count, Report, End, Ends, Collect, Errors
  <2>3. phase = "collecting" /\ phase' = phase
    BY <2>1, <2>2 DEF Connection, Write, Count, Report, End, Ends, Collect,
                      CInv, SInv, RInv, TInv, Resting
  <2>4. QED BY <2>3
<1>4. CASE Operation
  BY <1>4 DEF Operation, Pause, Cancel, Close, Signal, PauseSucceeds, PauseFails, CancelEnds,
              Resume, Retry, CInv
<1>5. CASE Restart \/ UNCHANGED vars
  BY <1>5 DEF Restart, vars, CInv
<1>6. QED BY <1>1, <1>2, <1>3, <1>4, <1>5 DEF Next

\* The steps that end the run, or that the user or a restart takes.
LEMMA DownloadContracted == CInv /\ Download => [Contract!Next]_(Contract!vars)
<1> SUFFICES ASSUME CInv, Download PROVE [Contract!Next]_(Contract!vars)
  OBVIOUS
<1> USE DEF Contract!vars, Contract!Next, taskVars, diskVars, runVars, connVars
<1>1. CASE OpenFails \/ Create \/ Truncate \/ Reopen \/ FirstReport \/ LastReport
  BY <1>1 DEF OpenFails, Create, Truncate, Reopen, FirstReport, LastReport
<1>2. CASE Check \/ DropWorkName \/ Clean
  BY <1>2 DEF Check, DropWorkName, Clean
<1>3. CASE Publish
  <2>1. task \in {"downloading", "paused", "canceled"}
    BY <1>3 DEF Publish, CInv, SInv, RInv, Running
  <2>2. UNCHANGED final \/ final' = "complete"
    BY <1>3, FullContent DEF Publish, CInv, SInv, RInv, RunClaims, Transferring
  <2>3. QED BY <1>3, <2>1, <2>2 DEF Publish, Contract!Publish
<1>4. CASE RunEnds
  <2>1. result = "ok" => final = "complete"
    BY <1>4 DEF RunEnds, CInv, PublishedIfOk, SInv, NeverHoles, RInv, TInv, TypeOK
  <2>2. result # "ok" => final = "none"
    BY <1>4 DEF RunEnds, CInv, SInv, RInv, Settled
  <2>3. CASE task = "downloading"
    <3>1. PICK t \in Outcomes : task' = t
      BY <1>4, <2>3 DEF RunEnds
    <3>2. final' = final
      BY <1>4 DEF RunEnds
    <3>3. CASE result = "canceled"
      BY <2>3, <3>1, <3>2, <3>3 DEF Outcomes, Contract!User, Contract!Moves
    <3>4. CASE result # "canceled"
      BY <2>1, <2>2, <2>3, <3>1, <3>2, <3>4 DEF Outcomes, Contract!End, Contract!Moves
    <3>5. QED BY <3>3, <3>4
  <2>4. QED BY <1>4, <2>3 DEF RunEnds
<1>5. QED BY <1>1, <1>2, <1>3, <1>4 DEF Download

LEMMA OperationContracted == CInv /\ Operation => [Contract!Next]_(Contract!vars)
<1> SUFFICES ASSUME CInv, Operation PROVE [Contract!Next]_(Contract!vars)
  OBVIOUS
<1> USE DEF Contract!vars, Contract!Next, Contract!User, Contract!Moves, Unfinished,
            taskVars, diskVars, runVars, connVars
<1>1. CASE Pause \/ Cancel
  BY <1>1 DEF Pause, Cancel
<1>2. CASE Close
  BY <1>2 DEF Close
<1>3. CASE Signal \/ PauseSucceeds \/ PauseFails \/ CancelEnds
  BY <1>3 DEF Signal, PauseSucceeds, PauseFails, CancelEnds
<1>4. CASE Resume \/ Retry
  BY <1>4 DEF Resume, Resumable, Retry
<1>5. QED BY <1>1, <1>2, <1>3, <1>4 DEF Operation

LEMMA StepContracted == CInv /\ [Next]_vars => [Contract!Next]_(Contract!vars)
<1> SUFFICES ASSUME CInv, [Next]_vars PROVE [Contract!Next]_(Contract!vars)
  OBVIOUS
<1> USE DEF Contract!vars, Contract!Next, Contract!Moves, taskVars, diskVars, runVars, connVars
<1>1. CASE Start
  <2>1. final = "none"
    BY <1>1 DEF Start, CInv, SInv, RInv, Settled
  <2>2. QED BY <1>1, <2>1 DEF Start, Contract!Start
<1>2. CASE CloseEnds
  BY <1>2 DEF CloseEnds, Down, MaySave, Saved, CInv, SInv, Mirrored
<1>3. CASE Crash
  BY <1>3 DEF Crash, Down, CInv, SInv, Mirrored
<1>4. CASE Restart
  <2>1. task = stored.task /\ final' = final
    BY <1>4 DEF Restart, CInv, SInv, Mirrored
  <2>2. task' = task \/ task' = Restored.record.task
    BY <1>4 DEF Restart
  <2>3. task \notin Unfinished => Restored.record.task = task
    BY <2>1 DEF Restored, Bare
  <2>4. CASE final = "none"
    <3>1. task \in Unfinished => Restored.record.task \in {"paused", "failed"}
      BY <2>1, <2>4 DEF Restored, Interrupted, Recognizes, Bare
    <3>2. QED BY <2>1, <2>2, <2>3, <2>4, <3>1 DEF Contract!Restart, Unfinished
  <2>5. CASE final # "none"
    <3>1. final = "complete"
      BY <2>5 DEF CInv, SInv, NeverHoles, RInv, TInv, TypeOK
    <3>2. task \in Unfinished => Restored.record.task = "completed"
      BY <2>1, <2>5 DEF Restored, Interrupted, Recognizes, Bare
    <3>3. QED BY <2>1, <2>2, <2>3, <3>1, <3>2 DEF Contract!Restart, Unfinished
  <2>6. QED BY <2>4, <2>5
<1>5. CASE \E s \in Segments : Connection(s)
  BY <1>5 DEF Connection, Write, Count, Report, End, Ends, Collect
<1>6. CASE UNCHANGED vars
  BY <1>6 DEF vars
<1>7. QED
  BY <1>1, <1>2, <1>3, <1>4, <1>5, <1>6, DownloadContracted, OperationContracted DEF Next

\* As long as records are saved and writes are not lost, the transfer implements
\* DownloadContract: the file appears once, as a whole, and is never contradicted.
THEOREM KeepsContract == Reliable /\ Spec => ContractKept
<1>1. Init => Contract!Init
  BY DEF Init, Contract!Init
<1>2. QED BY <1>1, InitPublishes, StepPublishes, StepContracted, PTL
          DEF Spec, ContractKept, Contract!Spec
=============================================================================
