---------------------------- MODULE TaskFilesProofs ----------------------------
(***************************************************************************)
(* Proofs about TaskFiles, in two parts.                                   *)
(*                                                                         *)
(* Tasks and records: no two unfinished tasks share a path unknown to the  *)
(* history, and a running engine has a task for every record.  Neither     *)
(* depends on the files: the argument is about the tasks in memory and     *)
(* their records (Inv), and holds whatever the disk does.                  *)
(*                                                                         *)
(* Files: nothing overwrites a published file, a transfer publishes its    *)
(* own bytes, all of them if their number was told, and a start, however   *)
(* often one was cut short, gives each task what its files say.  The       *)
(* invariant (Owned) says who may be writing under a path (Apart), which   *)
(* names and open files can be one file (Links, Handles, NotFinal), whose  *)
(* bytes a file has and how many (OwnWork, OwnOpen, OwnFinal), and what    *)
(* may be known of its length (Informed).                                  *)
(***************************************************************************)
EXTENDS TaskFiles, TLAPS

States == Unfinished \cup Terminal \cup {"absent"}

(* What the proofs need to know of the values.                             *)
Shape ==
  /\ st \in [Tasks -> States]
  /\ path = [t \in Tasks |-> path[t]]
  /\ record = [t \in Tasks |-> record[t]]
  /\ \A t \in Tasks : record[t].st \in States
  /\ next \in 1..Last \cup {1}

(* The task an operation waits for cannot become another's.                *)
Waiting ==
  /\ op \in {"none", "pause", "cancel", "delete"}
  /\ op # "none" => engine = "up" /\ opTask \in Tasks
  /\ op = "pause" => st[opTask] = "paused"
  /\ op = "cancel" => st[opTask] = "canceled"
  /\ op = "delete" => st[opTask] \in Terminal

(* How far the tasks in memory have caught up with the records.            *)
Loading ==
  /\ engine \in {"down", "loading", "up"}
  /\ engine = "down" => \A t \in Tasks : st[t] = "absent"
  /\ engine = "loading" =>
       /\ next \in Tasks
       /\ \A t \in Tasks : t >= next => st[t] = "absent"
       /\ \A t \in Tasks : t < next => (st[t] = "absent" <=> record[t].st = "absent")
  /\ engine = "up" => \A t \in Tasks : st[t] = "absent" <=> record[t].st = "absent"
  /\ engine # "loading" => next = 1
  /\ \A t \in Tasks : st[t] # "absent" => record[t].st # "absent" /\ record[t].path = path[t]

(* A task claims a path in memory or through its record; two claims on one *)
(* path are known.  OnePathOneTask alone is not inductive: a record that   *)
(* is out of date claims its path again after the next start.              *)
Claims(t, p) ==
  \/ Live(t) /\ path[t] = p
  \/ record[t].st \in Unfinished /\ record[t].path = p

Exclusive ==
  \A t, u \in Tasks : \A p : t # u /\ Claims(t, p) /\ Claims(u, p) => p \in shared

(* Transfers run in a running engine.                                      *)
Running ==
  /\ run = [t \in Tasks |-> run[t]]
  /\ engine # "up" => \A t \in Tasks : run[t] = "none"

Inv == Shape /\ Waiting /\ Loading /\ Exclusive

USE DEF Tasks

-----------------------------------------------------------------------------
(* Steps.                                                                  *)

(* A step that leaves tasks and records alone.                             *)
LEMMA QuietInv ==
  ASSUME Inv, UNCHANGED <<engine, next, op, opTask, st, path, record, shared>>
  PROVE  Inv'
BY DEF Inv, Shape, Waiting, Loading, Exclusive, Claims, Live

(* A task that exists gets another state; it does not come back to life,   *)
(* and its record follows or stays.                                        *)
LEMMA ChangeInv ==
  ASSUME NEW t \in Tasks, NEW s \in States, NEW n, NEW len,
         Inv, engine = "up", Reaches(t, s, n, len), MaySave(t),
         st[t] # "absent", s # "absent", s \in Unfinished => Live(t),
         UNCHANGED <<engine, next, path, shared>>
  PROVE  Shape' /\ Loading' /\ Exclusive'
<1>1. Shape'
  <2>1. CASE Saved(t, path[t])
    <3>1. st' \in [Tasks -> States] /\ st'[t] = s
      BY DEF Inv, Shape, Reaches
    <3>2. record' = [u \in Tasks |-> record'[u]]
      BY <2>1 DEF Inv, Shape, Saved
    <3>3. \A u \in Tasks : record'[u].st \in States
      BY <2>1, <3>1 DEF Inv, Shape, Saved
    <3> QED BY <3>1, <3>2, <3>3 DEF Inv, Shape
  <2>2. CASE UNCHANGED record
    BY <2>2 DEF Inv, Shape, Reaches
  <2> QED BY <2>1, <2>2 DEF MaySave
<1>2. \A u \in Tasks :
        /\ st'[u] = IF u = t THEN s ELSE st[u]
        /\ record'[u] = record[u] \/ (u = t /\ record'[u].st = s /\ record'[u].path = path[t])
  <2>1. \A u \in Tasks : st'[u] = IF u = t THEN s ELSE st[u]
    BY DEF Inv, Shape, Reaches
  <2>2. CASE Saved(t, path[t])
    BY <2>1, <2>2 DEF Inv, Shape, Saved
  <2>3. CASE UNCHANGED record
    BY <2>1, <2>3
  <2> QED BY <2>2, <2>3 DEF MaySave
<1>3. Loading'
  BY <1>2 DEF Inv, Loading
<1>4. \A u \in Tasks : \A p : Claims(u, p)' => Claims(u, p)
  BY <1>2 DEF Inv, Loading, Claims, Live, Unfinished
<1>5. Exclusive'
  BY <1>4 DEF Inv, Exclusive
<1> QED BY <1>1, <1>3, <1>5

(* A task takes a path that is free or known to be shared.                 *)
LEMMA TakeInv ==
  ASSUME NEW t \in Tasks, NEW n, NEW len, NEW p,
         Inv, Idle, Reaches(t, "queued", n, len), path' = [path EXCEPT ![t] = p], Saved(t, p),
         \A u \in Tasks \ {t} : Claims(u, p) => p \in shared',
         shared \subseteq shared', UNCHANGED engineVars
  PROVE  Inv'
<1> USE DEF Idle, engineVars
<1>1. Shape'
  BY DEF Inv, Shape, Reaches, Saved, States, Unfinished
<1>2. Loading'
  BY DEF Inv, Shape, Loading, Reaches, Saved
<1>3. Waiting'
  BY DEF Inv, Waiting
<1>4. \A u \in Tasks \ {t} : \A q : Claims(u, q)' => Claims(u, q)
  BY DEF Inv, Shape, Claims, Live, Reaches, Saved
<1>5. \A q : Claims(t, q)' => q = p
  BY DEF Inv, Shape, Claims, Live, Reaches, Saved
<1>6. Exclusive'
  BY <1>4, <1>5 DEF Inv, Exclusive
<1> QED BY <1>1, <1>2, <1>3, <1>6 DEF Inv

LEMMA InitInv == Init => Inv
BY DEF Init, Inv, Shape, Waiting, Loading, Exclusive, Claims, Live, Absent, States, Unfinished, Terminal

LEMMA CreateInv == ASSUME NEW t \in Tasks, Inv, Create(t) PROVE Inv'
<1>1. PICK p \in Paths : FreePath(p) /\ path' = [path EXCEPT ![t] = p]
  BY DEF Create
<1>2. path'[t] = p
  BY <1>1 DEF Inv, Shape
<1>3. \A u \in Tasks \ {t} : Claims(u, p) => p \in shared'
  BY <1>1, <1>2 DEF Create, FreePath, Outdated, Shares, Claims, Live, Inv, Loading, Unfinished
<1>4. Idle /\ Saved(t, p) /\ shared \subseteq shared' /\ UNCHANGED engineVars
  BY <1>2 DEF Create, Shares
<1>5. PICK len : Reaches(t, "queued", 0, len)
  BY DEF Create
<1> QED BY <1>1, <1>3, <1>4, <1>5, TakeInv

LEMMA RetryInv == ASSUME NEW t \in Tasks, Inv, Retry(t) PROVE Inv'
<1>1. CASE UNCHANGED <<taskVars, record>>
  <2>1. shared \subseteq shared' /\ UNCHANGED <<engineVars, taskVars, record>>
    BY <1>1 DEF Retry, Shares
  <2> QED BY <2>1 DEF Inv, Shape, Waiting, Loading, Exclusive, Claims, Live, taskVars, engineVars
<1>2. CASE ~ UNCHANGED <<taskVars, record>>
  <2>1. PICK n : Reaches(t, "queued", n, total[t]) /\ path' = path /\ Saved(t, path[t])
    BY <1>2 DEF Retry, Becomes
  <2>2. path' = [path EXCEPT ![t] = path[t]]
    BY <2>1 DEF Inv, Shape
  <2>3. \A u \in Tasks \ {t} : Claims(u, path[t]) => path[t] \in shared'
    BY DEF Retry, Occupied, Shares, Claims, Live, Inv, Loading, Idle, Unfinished
  <2>4. Idle /\ shared \subseteq shared' /\ UNCHANGED engineVars
    BY DEF Retry, Shares
  <2> QED BY <2>1, <2>2, <2>3, <2>4, TakeInv
<1> QED BY <1>1, <1>2

LEMMA ResumeInv == ASSUME NEW t \in Tasks, Inv, Resume(t) PROVE Inv'
<1>1. CASE UNCHANGED <<st, got, total, record>>
  BY <1>1, QuietInv DEF Resume, engineVars
<1>2. CASE Becomes(t, "queued", got[t]) /\ Saved(t, path[t])
  <2>1. Shape' /\ Loading' /\ Exclusive'
    BY <1>2, ChangeInv DEF Resume, Idle, engineVars, Becomes, MaySave, Live, Unfinished, States
  <2> QED BY <2>1 DEF Resume, Inv, Waiting, Idle, engineVars
<1> QED BY <1>1, <1>2 DEF Resume

LEMMA StopInv ==
  ASSUME NEW t \in Tasks, Inv, Pause(t) \/ Cancel(t) PROVE Inv'
<1>1. CASE Pause(t)
  <2>1. Shape' /\ Loading' /\ Exclusive'
    BY <1>1, ChangeInv DEF Pause, Stop, Becomes, Idle, Live, Unfinished, States
  <2>2. Waiting'
    BY <1>1 DEF Pause, Stop, Idle, Becomes, Reaches, Inv, Shape, Waiting
  <2> QED BY <2>1, <2>2 DEF Inv
<1>2. CASE Cancel(t)
  <2>1. Shape' /\ Loading' /\ Exclusive'
    BY <1>2, ChangeInv DEF Cancel, Stop, Becomes, Idle, Live, Unfinished, Terminal, States
  <2>2. Waiting'
    BY <1>2 DEF Cancel, Stop, Idle, Becomes, Reaches, Inv, Shape, Waiting
  <2> QED BY <2>1, <2>2 DEF Inv
<1> QED BY <1>1, <1>2

LEMMA ReturnInv ==
  ASSUME Inv, PauseReturns \/ CancelReturns \/ DeleteReturns PROVE Inv'
<1>1. CASE PauseReturns
  <2>1. CASE UNCHANGED <<st, got, total, record>>
    BY <1>1, <2>1 DEF PauseReturns, Return, Inv, Shape, Waiting, Loading, Exclusive, Claims, Live
  <2>2. CASE ~ UNCHANGED <<st, got, total, record>>
    <3>1. PICK n : Becomes(opTask, "paused", n) /\ MaySave(opTask)
      BY <1>1, <2>2 DEF PauseReturns
    <3>2. Shape' /\ Loading' /\ Exclusive'
      BY <1>1, <3>1, ChangeInv DEF PauseReturns, Becomes, Inv, Waiting, Live, Unfinished, States
    <3> QED BY <1>1, <3>2 DEF PauseReturns, Return, Inv, Waiting
  <2> QED BY <2>1, <2>2
<1>2. CASE CancelReturns
  BY <1>2 DEF CancelReturns, Return, Inv, Shape, Waiting, Loading, Exclusive, Claims, Live, taskVars
<1>3. CASE DeleteReturns
  <2>1. CASE UNCHANGED <<taskVars, record>>
    BY <1>3, <2>1 DEF DeleteReturns, Return, Inv, Shape, Waiting, Loading, Exclusive, Claims, Live, taskVars
  <2>2. CASE Forgets(opTask) /\ Saved(opTask, 0)
    <3>1. opTask \in Tasks /\ engine = "up"
      BY <1>3 DEF DeleteReturns, Inv, Waiting
    <3>2. UNCHANGED <<engine, next, shared>> /\ Waiting'
      BY <1>3 DEF DeleteReturns, Return, Inv, Waiting
    <3>3. Shape'
      BY <2>2, <3>1, <3>2 DEF Inv, Shape, Forgets, Reaches, Saved, States
    <3>4. Loading'
      BY <2>2, <3>1, <3>2 DEF Inv, Shape, Loading, Forgets, Reaches, Saved
    <3>5. \A u \in Tasks : \A p : Claims(u, p)' => Claims(u, p)
      BY <2>2, <3>1 DEF Inv, Shape, Claims, Live, Forgets, Reaches, Saved, Unfinished
    <3>6. Exclusive'
      BY <3>2, <3>5 DEF Inv, Exclusive
    <3> QED BY <3>2, <3>3, <3>4, <3>6 DEF Inv
  <2> QED BY <1>3, <2>1, <2>2 DEF DeleteReturns
<1> QED BY <1>1, <1>2, <1>3

LEMMA DeleteInv == ASSUME NEW t \in Tasks, Inv, Delete(t) PROVE Inv'
BY DEF Delete, Idle, Inv, Shape, Waiting, Loading, Exclusive, Claims, Live, taskVars

(* A step of a transfer that gives its task a state.                       *)
LEMMA TransferChangeInv ==
  ASSUME NEW t \in Tasks, NEW s \in States, NEW n, NEW len,
         Inv, engine = "up", Reaches(t, s, n, len), MaySave(t),
         st[t] \in {"queued", "downloading"}, s # "absent",
         UNCHANGED <<engineVars, path, shared>>
  PROVE  Inv'
<1>1. Shape' /\ Loading' /\ Exclusive'
  BY ChangeInv DEF Live, Unfinished, engineVars
<1>2. Waiting'
  BY DEF Inv, Shape, Waiting, Reaches, engineVars, Terminal
<1> QED BY <1>1, <1>2 DEF Inv

LEMMA StartInv == ASSUME NEW t \in Tasks, Inv, Start(t) PROVE Inv'
BY TransferChangeInv DEF Start, Becomes, States, Unfinished

LEMMA ReportInv ==
  ASSUME NEW t \in Tasks, NEW n, NEW len, Inv, engine = "up",
         Report(t, n, len) \/ UNCHANGED <<st, got, total, record, faults>>,
         UNCHANGED <<engineVars, path, shared>>
  PROVE  Inv'
<1>1. CASE UNCHANGED <<st, got, total, record>>
  BY <1>1, QuietInv DEF engineVars
<1>2. CASE st[t] = "downloading" /\ Reaches(t, "downloading", n, len) /\ MaySave(t)
  BY <1>2, TransferChangeInv DEF States, Unfinished
<1> QED BY <1>1, <1>2 DEF Report

LEMMA FinishInv == ASSUME NEW t \in Tasks, Inv, engine = "up", Finish(t) PROVE Inv'
<1>1. CASE UNCHANGED <<st, got, total, record>>
  BY <1>1, QuietInv DEF Finish, engineVars
<1>2. CASE ~ UNCHANGED <<st, got, total, record>>
  <2>1. st[t] = "downloading" /\ MaySave(t)
    BY <1>2 DEF Finish
  <2>2. PICK s, n, len : s \in {"completed", "queued", "failed", "retryable"} /\ Reaches(t, s, n, len)
    BY <1>2 DEF Finish, Becomes
  <2> QED BY <2>1, <2>2, TransferChangeInv DEF Finish, States, Unfinished, Terminal
<1> QED BY <1>1, <1>2

LEMMA TransferInv ==
  ASSUME NEW t \in Tasks, Inv, Running, Transfer(t) PROVE Inv'
<1>1. CASE Start(t)
  BY <1>1, StartInv
<1>2. CASE CreateWorkFile(t) \/ ReopenWorkFile(t) \/ OpenFails(t) \/ Unlink(t) \/ Fails(t)
  <2>1. UNCHANGED <<engineVars, taskVars, record, shared>>
    BY <1>2 DEF CreateWorkFile, ReopenWorkFile, Opens, OpenFails, Unlink, Fails
  <2> QED BY <2>1, QuietInv DEF engineVars, taskVars
<1>3. CASE Answer(t) \/ Write(t)
  <2>1. engine = "up"
    BY <1>3 DEF Answer, Write, Running
  <2> QED BY <1>3, <2>1, ReportInv DEF Answer, Write
<1>4. CASE Publish(t)
  <2>1. engine = "up"
    BY <1>4 DEF Publish, Running
  <2>2. Report(t, pos[t], answer[t]) \/ UNCHANGED <<st, got, total, record, faults>>
    BY <1>4 DEF Publish
  <2> QED BY <1>4, <2>1, <2>2, ReportInv DEF Publish
<1>5. CASE Finish(t)
  <2>1. engine = "up"
    BY <1>5 DEF Finish, Running, Ended
  <2> QED BY <1>5, <2>1, FinishInv
<1> QED BY <1>1, <1>2, <1>3, <1>4, <1>5 DEF Transfer

LEMMA DownInv == ASSUME Inv, Down PROVE Inv'
<1>1. \A u \in Tasks : \A p : Claims(u, p)' => Claims(u, p)
  BY DEF Down, Claims, Live, Unfinished
<1>2. Shape' /\ Waiting' /\ Loading'
  BY DEF Down, Inv, Shape, Waiting, Loading, States
<1>3. Exclusive'
  BY <1>1 DEF Inv, Exclusive, Down
<1> QED BY <1>2, <1>3 DEF Inv

LEMMA BootInv == ASSUME Inv, Boot PROVE Inv'
<1>1. Last # 0 => 1 \in Tasks
  BY FilesAssumption
<1> QED BY <1>1, FilesAssumption DEF Boot, Inv, Shape, Waiting, Loading, Exclusive, Claims, Live, taskVars

(* A verdict revives nothing that its record says is over.                 *)
LEMMA VerdictFacts ==
  ASSUME NEW t \in Tasks, record[t].st \in States, record[t].st # "absent"
  PROVE  /\ Verdict(t).st \in States \ {"absent"}
         /\ Verdict(t).st \in Unfinished => record[t].st \in Unfinished
BY DEF Verdict, Judged, States, Unfinished, Terminal

LEMMA ReconcileInv == ASSUME Inv, Reconcile PROVE Inv'
<1> DEFINE v == Verdict(next)
<1>1. engine = "loading" /\ next \in Tasks /\ record[next].st \in States \ {"absent"}
  BY DEF Reconcile, Inv, Shape, Loading
<1>2. v.st \in States \ {"absent"} /\ (v.st \in Unfinished => record[next].st \in Unfinished)
  BY <1>1, VerdictFacts
<1>3. /\ st' = [st EXCEPT ![next] = v.st]
      /\ path' = [path EXCEPT ![next] = record[next].path]
      /\ record' = [record EXCEPT ![next] = [st |-> st'[next], path |-> record[next].path,
                                             got |-> got'[next], total |-> total'[next]]]
  BY DEF Reconcile, Reaches, Saved
<1>4. \A u \in Tasks :
        /\ st'[u] = IF u = next THEN v.st ELSE st[u]
        /\ path'[u] = IF u = next THEN record[next].path ELSE path[u]
        /\ u # next => record'[u] = record[u]
        /\ u = next => record'[u].st = v.st /\ record'[u].path = record[next].path
  BY <1>1, <1>3 DEF Inv, Shape
<1>5. Shape'
  <2>1. st' \in [Tasks -> States]
    BY <1>1, <1>2, <1>3 DEF Inv, Shape
  <2>2. path' = [u \in Tasks |-> path'[u]] /\ record' = [u \in Tasks |-> record'[u]]
    BY <1>1, <1>3 DEF Inv, Shape
  <2>3. \A u \in Tasks : record'[u].st \in States
    BY <1>2, <1>4 DEF Inv, Shape
  <2>4. next' \in 1..Last \cup {1}
    BY <1>1, FilesAssumption DEF Reconcile, Loads
  <2> QED BY <2>1, <2>2, <2>3, <2>4 DEF Shape
<1>6. Waiting'
  BY <1>1 DEF Reconcile, Inv, Waiting
<1>7. Loading'
  BY <1>1, <1>2, <1>4, FilesAssumption DEF Reconcile, Loads, Loaded, Inv, Loading
<1>8. \A u \in Tasks : \A p : Claims(u, p)' => Claims(u, p)
  BY <1>1, <1>2, <1>4 DEF Claims, Live
<1>9. Exclusive'
  BY <1>8 DEF Inv, Exclusive, Reconcile
<1> QED BY <1>5, <1>6, <1>7, <1>9 DEF Inv

LEMMA SkipInv == ASSUME Inv, Skip PROVE Inv'
<1>1. engine = "loading" /\ next \in Tasks
  BY DEF Skip, Inv, Loading
<1>2. Shape'
  BY <1>1, FilesAssumption DEF Skip, Loads, Inv, Shape, taskVars
<1>3. Loading'
  BY <1>1, FilesAssumption DEF Skip, Loads, Loaded, Inv, Loading, taskVars
<1>4. Waiting' /\ Exclusive'
  BY <1>1 DEF Skip, Inv, Waiting, Exclusive, Claims, Live, taskVars
<1> QED BY <1>2, <1>3, <1>4 DEF Inv

LEMMA RunningStep == ASSUME Running, [Next]_vars PROVE Running'
<1>1. CASE \E t \in Tasks : Operation(t)
  BY <1>1 DEF Operation, Create, Pause, Cancel, Stop, Resume, Retry, Delete, Idle, engineVars, runVars, Running
<1>2. CASE \E t \in Tasks : Transfer(t)
  <2>1. PICK t \in Tasks : Transfer(t)
    BY <1>2
  <2>2. engine' = engine /\ engine = "up"
    BY <2>1 DEF Transfer, Start, CreateWorkFile, ReopenWorkFile, OpenFails, Answer, Write, Publish, Unlink, Fails,
       Finish, Opens, Ended, engineVars, Running
  <2>3. run' = [u \in Tasks |-> run'[u]]
    BY <2>1 DEF Transfer, Start, CreateWorkFile, ReopenWorkFile, OpenFails, Answer, Write, Publish, Unlink, Fails,
       Finish, Opens, Ends, Running
  <2> QED BY <2>2, <2>3 DEF Running
<1>3. CASE PauseReturns \/ CancelReturns \/ DeleteReturns \/ Boot \/ Reconcile \/ Skip \/ ForeignFile \/ UserRemoves
  BY <1>3 DEF PauseReturns, CancelReturns, DeleteReturns, Boot, Reconcile, Skip, ForeignFile, UserRemoves,
     Loaded, engineVars, runVars, Running
<1>4. CASE Crash \/ ReconcileBreaks
  BY <1>4 DEF Crash, ReconcileBreaks, Down, Running
<1>5. CASE UNCHANGED vars
  BY <1>5 DEF vars, engineVars, runVars, Running
<1> QED BY <1>1, <1>2, <1>3, <1>4, <1>5 DEF Next

LEMMA StepInv == ASSUME Inv, Running, [Next]_vars PROVE Inv'
<1>1. CASE \E t \in Tasks : Operation(t)
  BY <1>1, CreateInv, StopInv, ResumeInv, RetryInv, DeleteInv DEF Operation
<1>2. CASE \E t \in Tasks : Transfer(t)
  BY <1>2, TransferInv
<1>3. CASE PauseReturns \/ CancelReturns \/ DeleteReturns
  BY <1>3, ReturnInv
<1>4. CASE Crash \/ Boot \/ Reconcile \/ ReconcileBreaks \/ Skip
  BY <1>4, DownInv, BootInv, ReconcileInv, SkipInv DEF Crash, ReconcileBreaks
<1>5. CASE ForeignFile \/ UserRemoves \/ UNCHANGED vars
  <2>1. UNCHANGED <<engineVars, taskVars, record, shared>>
    BY <1>5 DEF ForeignFile, UserRemoves, vars
  <2> QED BY <2>1, QuietInv DEF engineVars, taskVars
<1> QED BY <1>1, <1>2, <1>3, <1>4, <1>5 DEF Next

-----------------------------------------------------------------------------
(* Theorems.                                                               *)

LEMMA AlwaysInv == Spec => [](Inv /\ Running)
<1>1. Init => Inv /\ Running
  BY InitInv DEF Init, Running
<1>2. Inv /\ Running /\ [Next]_vars => (Inv /\ Running)'
  BY StepInv, RunningStep
<1> QED BY <1>1, <1>2, PTL DEF Spec

\* The choice of a destination, retries, restarts and failed saves never put two
\* unfinished tasks on one path, but where Retry or an outdated record does.
THEOREM FilesOnePathOneTask == Spec => []OnePathOneTask
<1>1. Inv => OnePathOneTask
  BY DEF Inv, Exclusive, Claims, OnePathOneTask
<1> QED BY <1>1, AlwaysInv, PTL

\* A running engine has a task for every record and a record for every task.
THEOREM FilesNoGhosts == Spec => []NoGhosts
<1>1. Inv => NoGhosts
  BY DEF Inv, Loading, NoGhosts
<1> QED BY <1>1, AlwaysInv, PTL
-----------------------------------------------------------------------------
(* The files.  From here on the proofs are about the disk too: what the    *)
(* values are, who may be writing, and which names and open files can be   *)
(* one file.                                                               *)

RunStates == {"none", "open", "request", "body", "linked"} \cup Ended

(* A length that is known or not.                                          *)
Lengths == Nat \cup {Unknown}

TasksTyped ==
  /\ path \in [Tasks -> Paths \cup {0}] /\ got \in [Tasks -> Nat]
  /\ total \in [Tasks -> Lengths] /\ expected \in [Tasks -> Lengths]
  /\ \A t \in Tasks : st[t] = "absent" <=> path[t] = 0
  /\ \A t \in Tasks : record[t].st # "absent" => record[t].path \in Paths
  /\ \A t \in Tasks : record[t].got \in Nat /\ record[t].total \in Lengths

DiskTyped ==
  /\ work \in [Paths -> Inodes \cup {0}] /\ final \in [Paths -> Inodes \cup {0}]
  /\ file \in [Inodes -> [by : Int, len : Nat]]

RunsTyped ==
  /\ run \in [Tasks -> RunStates] /\ open \in [Tasks -> Inodes \cup {0}]
  /\ from \in [Tasks -> Nat] /\ pos \in [Tasks -> Nat]
  /\ cause \in [Tasks -> {"none", "pause", "cancel"}]
  /\ answer \in [Tasks -> {Unknown, Size}]
  /\ \A t \in Tasks : open[t] # 0 <=> run[t] \in {"request", "body"}
  /\ \A t \in Tasks : run[t] = "request" => pos[t] = from[t]

(* A transfer whose task does not download is awaited by an operation.     *)
RunsLive ==
  \A t \in Tasks : run[t] # "none" =>
    st[t] = "downloading" \/ (op \in {"pause", "cancel"} /\ opTask = t)

Typed == Inv /\ Running /\ TasksTyped /\ DiskTyped /\ RunsTyped /\ RunsLive

LEMMA PathTyped ==
  ASSUME Typed, NEW t \in Tasks, st[t] # "absent" PROVE path[t] \in Paths
BY DEF Typed, TasksTyped

LEMMA LengthTyped ==
  ASSUME DiskTyped, NEW p \in Paths PROVE Length(work, p) \in Nat
BY DEF DiskTyped, Length, Exists

LEMMA RunnerFacts ==
  ASSUME Typed, NEW t \in Tasks, run[t] # "none"
  PROVE  /\ engine = "up" /\ st[t] # "absent" /\ path[t] \in Paths
         /\ op \in {"pause", "cancel"} \/ Live(t)
<1>1. engine = "up" /\ st[t] # "absent" /\ (op \in {"pause", "cancel"} \/ Live(t))
  BY DEF Typed, Running, RunsLive, Inv, Waiting, Live, Unfinished
<1> QED BY <1>1, PathTyped

LEMMA RemovedFacts ==
  ASSUME NEW dir \in [Paths -> Inodes \cup {0}], NEW p
  PROVE  /\ Removed(dir, p) \in [Paths -> Inodes \cup {0}]
         /\ \A q \in Paths : Removed(dir, p)[q] = IF q = p THEN 0 ELSE dir[q]
BY DEF Removed

-----------------------------------------------------------------------------
(* What a step may do to the tasks.                                        *)

LEMMA ChangeTyped ==
  ASSUME NEW t \in Tasks, NEW s, NEW n \in Nat, NEW len \in Lengths, Inv, TasksTyped,
         Reaches(t, s, n, len), record' = record \/ Saved(t, path[t]), path' = path,
         st[t] # "absent", s # "absent", expected' \in [Tasks -> Lengths]
  PROVE  TasksTyped'
<1>1. got' \in [Tasks -> Nat] /\ got'[t] = n /\ total' \in [Tasks -> Lengths] /\ total'[t] = len
  BY DEF TasksTyped, Reaches
<1>2. \A u \in Tasks : st'[u] = IF u = t THEN s ELSE st[u]
  BY DEF Inv, Shape, Reaches
<1>3. path[t] \in Paths
  BY DEF TasksTyped
<1>4. \A u \in Tasks : (record'[u].st # "absent" => record'[u].path \in Paths) /\ record'[u].got \in Nat
        /\ record'[u].total \in Lengths
  <2>1. CASE Saved(t, path[t])
    BY <1>1, <1>3, <2>1 DEF Inv, Shape, TasksTyped, Saved
  <2>2. CASE record' = record
    BY <2>2 DEF TasksTyped
  <2> QED BY <2>1, <2>2
<1> QED BY <1>1, <1>2, <1>4 DEF TasksTyped

LEMMA ReportTyped ==
  ASSUME NEW t \in Tasks, NEW n \in Nat, NEW len \in Lengths, Inv, TasksTyped,
         UNCHANGED <<path, expected>>,
         Report(t, n, len) \/ UNCHANGED <<st, got, total, record, faults>>
  PROVE  TasksTyped'
<1>1. CASE UNCHANGED <<st, got, total, record>>
  BY <1>1 DEF TasksTyped
<1>2. CASE st[t] = "downloading" /\ Reaches(t, "downloading", n, len) /\ MaySave(t)
  BY <1>2, ChangeTyped DEF MaySave, TasksTyped
<1> QED BY <1>1, <1>2 DEF Report

LEMMA OperationTyped ==
  ASSUME NEW t \in Tasks, Typed, Operation(t) PROVE TasksTyped'
<1> USE DEF Typed
<1>1. CASE Create(t)
  <2>1. PICK p \in Paths : path' = [path EXCEPT ![t] = p]
    BY <1>1 DEF Create
  <2>2. PICK told \in Lengths :
          path'[t] = p /\ Reaches(t, "queued", 0, told) /\ Expects(t, told) /\ Saved(t, p)
    BY <1>1, <2>1, FilesAssumption DEF Create, TasksTyped, Lengths
  <2>3. /\ st' = [st EXCEPT ![t] = "queued"] /\ got' = [got EXCEPT ![t] = 0] /\ got'[t] = 0
        /\ total' = [total EXCEPT ![t] = told] /\ total'[t] = told
        /\ expected' \in [Tasks -> Lengths]
    BY <2>2 DEF Reaches, Expects, TasksTyped
  <2>4. \A u \in Tasks :
          /\ record'[u].st # "absent" => record'[u].path \in Paths
          /\ record'[u].got \in Nat /\ record'[u].total \in Lengths
    BY <2>2, <2>3 DEF Saved, TasksTyped, Inv, Shape
  <2> QED BY <2>1, <2>3, <2>4, FilesAssumption DEF TasksTyped, Inv, Shape
<1>2. CASE Pause(t) \/ Cancel(t)
  <2>1. PICK s, why : Stop(t, s, why) /\ s \in {"paused", "canceled"} /\ Live(t)
    BY <1>2 DEF Pause, Cancel, Live, Unfinished
  <2> QED BY <2>1, ChangeTyped DEF Stop, Becomes, MaySave, Live, Unfinished, TasksTyped
<1>3. CASE Resume(t)
  <2>1. expected' \in [Tasks -> Lengths]
    BY <1>3 DEF Resume, Expects, TasksTyped
  <2> QED BY <1>3, <2>1, ChangeTyped DEF Resume, Becomes, TasksTyped
<1>4. CASE Retry(t)
  <2>1. CASE UNCHANGED <<taskVars, record>>
    BY <2>1 DEF taskVars, TasksTyped
  <2>2. CASE ~ UNCHANGED <<taskVars, record>>
    <3>1. path[t] \in Paths
      BY <1>4, PathTyped DEF Retry
    <3>2. (IF Usable(t) THEN Length(work, path[t]) ELSE 0) \in Nat
      BY <3>1, LengthTyped
    <3>3. expected' \in [Tasks -> Lengths]
      BY <1>4, <2>2 DEF Retry, Expects, TasksTyped
    <3> QED BY <1>4, <2>2, <3>2, <3>3, ChangeTyped DEF Retry, Becomes, TasksTyped
  <2> QED BY <2>1, <2>2
<1>5. CASE Delete(t)
  BY <1>5 DEF Delete, taskVars, TasksTyped
<1> QED BY <1>1, <1>2, <1>3, <1>4, <1>5 DEF Operation

LEMMA ReturnTyped ==
  ASSUME Typed, PauseReturns \/ CancelReturns \/ DeleteReturns PROVE TasksTyped'
<1> USE DEF Typed
<1>1. CASE PauseReturns
  <2>1. opTask \in Tasks /\ st[opTask] = "paused"
    BY <1>1 DEF PauseReturns, Inv, Waiting
  <2>2. Length(work, path[opTask]) \in Nat
    BY <2>1, PathTyped, LengthTyped
  <2> QED BY <1>1, <2>1, <2>2, ChangeTyped DEF PauseReturns, Becomes, MaySave, TasksTyped
<1>2. CASE CancelReturns
  BY <1>2 DEF CancelReturns, taskVars, TasksTyped
<1>3. CASE DeleteReturns
  <2>1. CASE UNCHANGED <<taskVars, record>>
    BY <2>1 DEF taskVars, TasksTyped
  <2>2. CASE ~ UNCHANGED <<taskVars, record>>
    <3>1. opTask \in Tasks
      BY <1>3 DEF DeleteReturns, Inv, Waiting
    <3>2. Forgets(opTask) /\ Saved(opTask, 0)
      BY <1>3, <2>2 DEF DeleteReturns
    <3>3. /\ st' = [st EXCEPT ![opTask] = "absent"] /\ got' = [got EXCEPT ![opTask] = 0]
          /\ total' = [total EXCEPT ![opTask] = Unknown] /\ expected' = [expected EXCEPT ![opTask] = Unknown]
          /\ path' = [path EXCEPT ![opTask] = 0]
          /\ record' = [record EXCEPT ![opTask] = Absent]
      BY <3>1, <3>2 DEF Forgets, Reaches, Expects, Saved, Absent, TasksTyped, Inv, Shape
    <3> QED BY <3>1, <3>3 DEF Absent, Lengths, TasksTyped, Inv, Shape
  <2> QED BY <2>1, <2>2
<1> QED BY <1>1, <1>2, <1>3

LEMMA TransferTyped ==
  ASSUME NEW t \in Tasks, Typed, Transfer(t) PROVE TasksTyped'
<1> USE DEF Typed
<1>1. CASE Start(t)
  BY <1>1, ChangeTyped DEF Start, Becomes, MaySave, TasksTyped
<1>2. CASE CreateWorkFile(t) \/ ReopenWorkFile(t) \/ OpenFails(t) \/ Unlink(t) \/ Fails(t)
  <2>1. UNCHANGED <<taskVars, record>>
    BY <1>2 DEF CreateWorkFile, ReopenWorkFile, Opens, OpenFails, Unlink, Fails
  <2> QED BY <2>1 DEF taskVars, TasksTyped
<1>3. CASE Write(t)
  <2>1. pos'[t] \in Nat /\ answer[t] \in Lengths
    BY <1>3, FilesAssumption DEF Write, RunsTyped, Lengths
  <2> QED BY <1>3, <2>1, ReportTyped DEF Write
<1>4. CASE Publish(t)
  <2>1. pos[t] \in Nat /\ answer[t] \in Lengths
    BY FilesAssumption DEF RunsTyped, Lengths
  <2> QED BY <1>4, <2>1, ReportTyped DEF Publish
<1>5. CASE Finish(t)
  <2>1. CASE UNCHANGED <<st, got, total, record>>
    BY <1>5, <2>1 DEF Finish, TasksTyped
  <2>2. CASE st[t] = "downloading" /\ MaySave(t)
    <3>1. path[t] \in Paths
      BY <2>2, PathTyped
    <3>2. Length(work, path[t]) \in Nat /\ got[t] \in Nat /\ pos[t] \in Nat \cap Lengths /\ total[t] \in Lengths
      BY <3>1, LengthTyped DEF TasksTyped, RunsTyped, Lengths
    <3>3. \/ UNCHANGED <<st, got, total, record>>
          \/ \E s \in States \ {"absent"}, n \in Nat, len \in Lengths : Reaches(t, s, n, len)
      BY <1>5, <3>2 DEF Finish, Becomes, States, Unfinished, Terminal
    <3> QED BY <1>5, <2>1, <2>2, <3>3, ChangeTyped DEF Finish, MaySave, TasksTyped
  <2> QED BY <1>5, <2>1, <2>2 DEF Finish
<1>6. CASE Answer(t)
  <2>1. PICK len \in {Unknown, Size} : Report(t, from[t], len)
    BY <1>6 DEF Answer
  <2>2. len \in Lengths /\ from[t] \in Nat
    BY FilesAssumption DEF RunsTyped, Lengths
  <2> QED BY <1>6, <2>1, <2>2, ReportTyped DEF Answer
<1> QED BY <1>1, <1>2, <1>3, <1>4, <1>5, <1>6 DEF Transfer

LEMMA ReconcileFacts ==
  ASSUME Typed, Reconcile
  PROVE  /\ engine = "loading" /\ next \in Tasks /\ st[next] = "absent"
         /\ record[next].st \in States \ {"absent"} /\ record[next].path \in Paths
         /\ Verdict(next).got \in Nat /\ Verdict(next).total \in Lengths
         /\ Verdict(next).st \in States \ {"absent"}
         /\ Verdict(next).st \in Unfinished => record[next].st \in Unfinished
         /\ \A u \in Tasks :
              /\ st'[u] = IF u = next THEN Verdict(next).st ELSE st[u]
              /\ got'[u] = IF u = next THEN Verdict(next).got ELSE got[u]
              /\ path'[u] = IF u = next THEN record[next].path ELSE path[u]
              /\ total'[u] = IF u = next THEN Verdict(next).total ELSE total[u]
              /\ expected'[u] = IF u = next THEN record[next].total ELSE expected[u]
         /\ record' = [record EXCEPT ![next] = [st |-> Verdict(next).st, path |-> record[next].path,
                                                got |-> Verdict(next).got, total |-> Verdict(next).total]]
<1> USE DEF Typed
<1>1. engine = "loading" /\ next \in Tasks /\ st[next] = "absent" /\ record[next].st \in States \ {"absent"}
  BY DEF Reconcile, Inv, Shape, Loading
<1>2. record[next].path \in Paths /\ record[next].got \in Nat /\ record[next].total \in Lengths
  BY <1>1 DEF TasksTyped
<1>3. Verdict(next).got \in Nat /\ Verdict(next).total \in Lengths
  <2>1. Length(work, record[next].path) \in Nat
    BY <1>2, LengthTyped
  <2>2. Exists(final, record[next].path) => file[final[record[next].path]].len \in Nat
    BY <1>2 DEF DiskTyped, Exists
  <2> QED BY <1>1, <1>2, <2>1, <2>2 DEF Verdict, Judged, States, Lengths
<1>4. /\ Verdict(next).st \in States \ {"absent"}
      /\ Verdict(next).st \in Unfinished => record[next].st \in Unfinished
  BY <1>1, VerdictFacts
<1>5. \A u \in Tasks :
        /\ st'[u] = IF u = next THEN Verdict(next).st ELSE st[u]
        /\ got'[u] = IF u = next THEN Verdict(next).got ELSE got[u]
        /\ path'[u] = IF u = next THEN record[next].path ELSE path[u]
        /\ total'[u] = IF u = next THEN Verdict(next).total ELSE total[u]
        /\ expected'[u] = IF u = next THEN record[next].total ELSE expected[u]
  <2>1. /\ Reaches(next, Verdict(next).st, Verdict(next).got, Verdict(next).total)
        /\ Expects(next, record[next].total) /\ path' = [path EXCEPT ![next] = record[next].path]
    BY DEF Reconcile
  <2> QED BY <1>1, <2>1 DEF Reaches, Expects, Inv, Shape, TasksTyped
<1>6. record' = [record EXCEPT ![next] = [st |-> Verdict(next).st, path |-> record[next].path,
                                          got |-> Verdict(next).got, total |-> Verdict(next).total]]
  BY <1>1, <1>5 DEF Reconcile, Saved
<1> QED BY <1>1, <1>2, <1>3, <1>4, <1>5, <1>6

LEMMA TasksTypedStep == ASSUME Typed, [Next]_vars PROVE TasksTyped'
<1>1. CASE \E t \in Tasks : Operation(t) \/ Transfer(t)
  BY <1>1, OperationTyped, TransferTyped
<1>2. CASE PauseReturns \/ CancelReturns \/ DeleteReturns
  BY <1>2, ReturnTyped
<1>3. CASE Crash \/ ReconcileBreaks
  <2>1. UNCHANGED record
    BY <1>3 DEF Crash, ReconcileBreaks, Down
  <2> QED BY <1>3, <2>1, FilesAssumption DEF Crash, ReconcileBreaks, Down, Typed, TasksTyped, Lengths
<1>4. CASE Boot \/ Skip \/ ForeignFile \/ UserRemoves \/ UNCHANGED vars
  BY <1>4 DEF Boot, Skip, ForeignFile, UserRemoves, vars, taskVars, Typed, TasksTyped
<1>5. CASE Reconcile
  <2>1. /\ path' \in [Tasks -> Paths \cup {0}] /\ got' \in [Tasks -> Nat]
        /\ total' \in [Tasks -> Lengths] /\ expected' \in [Tasks -> Lengths]
    <3>1. record[next].total \in Lengths
      BY <1>5, ReconcileFacts DEF Typed, TasksTyped
    <3> QED BY <1>5, <3>1, ReconcileFacts DEF Reconcile, Reaches, Expects, Typed, TasksTyped
  <2>2. \A t \in Tasks : st'[t] = "absent" <=> path'[t] = 0
    BY <1>5, ReconcileFacts, FilesAssumption DEF Typed, TasksTyped
  <2>3. \A t \in Tasks :
          /\ record'[t].st # "absent" => record'[t].path \in Paths
          /\ record'[t].got \in Nat /\ record'[t].total \in Lengths
    <3>1. record' = [record EXCEPT ![next] = [st |-> Verdict(next).st, path |-> record[next].path,
                                              got |-> Verdict(next).got, total |-> Verdict(next).total]]
      BY <1>5, ReconcileFacts
    <3>2. record[next].path \in Paths /\ Verdict(next).got \in Nat /\ Verdict(next).total \in Lengths
      BY <1>5, ReconcileFacts
    <3> HIDE DEF Tasks
    <3> QED BY <3>1, <3>2 DEF Typed, TasksTyped, Inv, Shape
  <2> QED BY <2>1, <2>2, <2>3 DEF TasksTyped
<1> QED BY <1>1, <1>2, <1>3, <1>4, <1>5 DEF Next

-----------------------------------------------------------------------------
(* What a step may do to the disk.                                         *)

(* A resumed transfer that fails cuts its work file to what it began with. *)
Truncates(t) ==
  /\ run[t] \in {"request", "body"} /\ Exists(work, path[t])
  /\ file' = [file EXCEPT ![work[path[t]]].len = from[t]]
  /\ open'[t] = 0 /\ UNCHANGED work

LEMMA FailsFacts ==
  ASSUME NEW t \in Tasks, Typed, Fails(t)
  PROVE  /\ run[t] \in {"request", "body"} /\ open'[t] = 0
         /\ \E e \in {"temporary", "fatal"} : Ends(t, e)
         /\ UNCHANGED <<engineVars, taskVars, record, final, shared, faults>>
         /\ \/ UNCHANGED <<work, file>>
            \/ work' = Removed(work, path[t]) /\ UNCHANGED file
            \/ Truncates(t)
<1>1. open'[t] = 0 /\ run[t] \in {"request", "body"}
  BY DEF Fails, Ends, Typed, RunsTyped
<1>2. cause[t] \in {"none", "pause", "cancel"} /\ (from[t] = 0 \/ from[t] > 0)
  BY DEF Typed, RunsTyped
<1>3. CASE cause[t] = "pause"
  BY <1>1, <1>3 DEF Fails
<1>4. CASE cause[t] # "pause" /\ (cause[t] = "cancel" \/ from[t] = 0)
  <2>1. ~ (cause[t] = "pause") /\ ~ (cause[t] = "none" /\ from[t] > 0)
    BY <1>4
  <2> QED BY <1>1, <1>4, <2>1 DEF Fails
<1>5. CASE cause[t] = "none" /\ from[t] # 0
  <2>1. ~ (cause[t] = "pause") /\ ~ (cause[t] # "pause" /\ (cause[t] = "cancel" \/ from[t] = 0)) /\ from[t] > 0
    BY <1>2, <1>5
  <2> QED BY <1>1, <1>5, <2>1 DEF Fails, Truncates
<1> QED BY <1>2, <1>3, <1>4, <1>5

(* Names may go away.                                                      *)
WorkKept ==
  /\ work' \in [Paths -> Inodes \cup {0}]
  /\ \A p \in Paths : work'[p] \in {work[p], 0}

FinalKept ==
  /\ final' \in [Paths -> Inodes \cup {0}]
  /\ \A p \in Paths : final'[p] \in {final[p], 0}

LEMMA WorkStep ==
  ASSUME Typed, [Next]_vars
  PROVE  WorkKept \/ \E t \in Tasks : CreateWorkFile(t)
<1>1. (work' = work \/ \E p : work' = Removed(work, p)) => WorkKept
  BY RemovedFacts DEF Typed, DiskTyped, WorkKept
<1>2. CASE \E t \in Tasks : Operation(t)
  BY <1>1, <1>2 DEF Operation, Create, Pause, Cancel, Stop, Resume, Retry, Delete, diskVars
<1>3. CASE \E t \in Tasks : Transfer(t)
  <2>1. ASSUME NEW t \in Tasks, Fails(t) PROVE WorkKept
    BY <1>1, <2>1, FailsFacts DEF Truncates
  <2> QED BY <1>1, <1>3, <2>1
       DEF Transfer, Start, ReopenWorkFile, OpenFails, Answer, Write, Publish, Unlink, Finish, diskVars
<1>4. CASE \/ PauseReturns \/ CancelReturns \/ DeleteReturns \/ Crash \/ Boot \/ Reconcile \/ ReconcileBreaks \/ Skip
           \/ ForeignFile \/ UserRemoves \/ UNCHANGED vars
  BY <1>1, <1>4 DEF PauseReturns, CancelReturns, DeleteReturns, Crash, Boot, Reconcile, ReconcileBreaks, Down,
     Skip, ForeignFile,
     UserRemoves, vars, diskVars
<1> QED BY <1>2, <1>3, <1>4 DEF Next

LEMMA FinalStep ==
  ASSUME Typed, [Next]_vars
  PROVE  FinalKept \/ ForeignFile \/ \E t \in Tasks : Publish(t)
<1>1. (final' = final \/ \E p : final' = Removed(final, p)) => FinalKept
  BY RemovedFacts DEF Typed, DiskTyped, FinalKept
<1>2. CASE \E t \in Tasks : Operation(t)
  BY <1>1, <1>2 DEF Operation, Create, Pause, Cancel, Stop, Resume, Retry, Delete, diskVars
<1>3. CASE \E t \in Tasks : Transfer(t)
  BY <1>1, <1>3 DEF Transfer, Start, CreateWorkFile, ReopenWorkFile, Opens, OpenFails, Answer, Write, Unlink, Fails,
     Finish, diskVars
<1>4. CASE \/ PauseReturns \/ CancelReturns \/ DeleteReturns \/ Crash \/ Boot \/ Reconcile \/ ReconcileBreaks \/ Skip
           \/ UserRemoves \/ UNCHANGED vars
  BY <1>1, <1>4 DEF PauseReturns, CancelReturns, DeleteReturns, Crash, Boot, Reconcile, ReconcileBreaks, Down, Skip,
     UserRemoves, vars, diskVars
<1> QED BY <1>2, <1>3, <1>4 DEF Next

LEMMA FileStep ==
  ASSUME Typed, [Next]_vars
  PROVE  \/ UNCHANGED file
         \/ ForeignFile
         \/ \E t \in Tasks : CreateWorkFile(t) \/ Write(t) \/ Truncates(t)
<1>1. CASE \E t \in Tasks : Operation(t)
  BY <1>1 DEF Operation, Create, Pause, Cancel, Stop, Resume, Retry, Delete, diskVars
<1>2. CASE \E t \in Tasks : Transfer(t)
  <2>1. PICK t \in Tasks : Transfer(t)
    BY <1>2
  <2>2. CASE Fails(t)
    BY <2>2, FailsFacts
  <2> QED BY <2>1, <2>2 DEF Transfer, Start, ReopenWorkFile, OpenFails, Answer, Publish, Unlink, Finish, diskVars
<1>3. CASE \/ PauseReturns \/ CancelReturns \/ DeleteReturns \/ Crash \/ Boot \/ Reconcile \/ ReconcileBreaks \/ Skip
           \/ UserRemoves \/ UNCHANGED vars
  BY <1>3 DEF PauseReturns, CancelReturns, DeleteReturns, Crash, Boot, Reconcile, ReconcileBreaks, Down, Skip,
     UserRemoves, vars, diskVars
<1> QED BY <1>1, <1>2, <1>3 DEF Next

LEMMA CreateFileFacts ==
  ASSUME NEW t \in Tasks, Typed, CreateWorkFile(t)
  PROVE  \E i \in Unused :
           /\ work' = [work EXCEPT ![path[t]] = i] /\ path[t] \in Paths
           /\ file' = [file EXCEPT ![i] = [by |-> t, len |-> 0]]
           /\ i # 0 /\ i \in Inodes
           /\ \A p \in Paths : work[p] # i /\ final[p] # i
           /\ \A u \in Tasks : open[u] # i
           /\ \A p \in Paths : work'[p] = IF p = path[t] THEN i ELSE work[p]
           /\ \A u \in Tasks :
                /\ open'[u] = IF u = t THEN i ELSE open[u]
                /\ pos'[u] = IF u = t THEN 0 ELSE pos[u]
                /\ run'[u] = IF u = t THEN "request" ELSE run[u]
           /\ run[t] = "open"
           /\ UNCHANGED <<engineVars, taskVars, record, final, from, shared>>
<1>1. path[t] \in Paths /\ run[t] = "open" /\ from[t] = 0
  BY RunnerFacts DEF CreateWorkFile
<1>2. PICK i \in Unused :
         /\ work' = [work EXCEPT ![path[t]] = i]
         /\ file' = [file EXCEPT ![i] = [by |-> t, len |-> 0]]
         /\ Opens(t, i)
  BY DEF CreateWorkFile
<1>3. /\ i # 0 /\ i \in Inodes
      /\ \A p \in Paths : work[p] # i /\ final[p] # i
      /\ \A u \in Tasks : open[u] # i
  BY FilesAssumption DEF Unused, InUse
<1>4. \A p \in Paths : work'[p] = IF p = path[t] THEN i ELSE work[p]
  BY <1>1, <1>2 DEF Typed, DiskTyped
<1>5. \A u \in Tasks :
        /\ open'[u] = IF u = t THEN i ELSE open[u]
        /\ pos'[u] = IF u = t THEN 0 ELSE pos[u]
        /\ run'[u] = IF u = t THEN "request" ELSE run[u]
  BY <1>1, <1>2 DEF Opens, Typed, RunsTyped
<1> QED BY <1>1, <1>2, <1>3, <1>4, <1>5 DEF Opens

LEMMA ForeignFacts ==
  ASSUME Typed, ForeignFile
  PROVE  \E p \in Paths, i \in Unused, n \in Nat :
           /\ final[p] = 0 /\ final' = [final EXCEPT ![p] = i]
           /\ \A q \in Paths : final'[q] = IF q = p THEN i ELSE final[q]
           /\ file' = [file EXCEPT ![i] = [by |-> Foreign, len |-> n]]
           /\ i # 0 /\ i \in Inodes
           /\ \A q \in Paths : work[q] # i /\ final[q] # i
           /\ \A u \in Tasks : open[u] # i
           /\ UNCHANGED <<engineVars, taskVars, record, work, runVars, shared>>
<1>1. PICK p \in Paths, i \in Unused, n \in {1, Size} :
         /\ final[p] = 0 /\ final' = [final EXCEPT ![p] = i]
         /\ file' = [file EXCEPT ![i] = [by |-> Foreign, len |-> n]]
  BY DEF ForeignFile, Exists
<1>2. /\ i # 0 /\ i \in Inodes
      /\ \A q \in Paths : work[q] # i /\ final[q] # i
      /\ \A u \in Tasks : open[u] # i
  BY FilesAssumption DEF Unused, InUse
<1>3. n \in Nat
  BY FilesAssumption
<1>4. \A q \in Paths : final'[q] = IF q = p THEN i ELSE final[q]
  BY <1>1 DEF Typed, DiskTyped
<1> QED BY <1>1, <1>2, <1>3, <1>4 DEF ForeignFile

LEMMA WriteFacts ==
  ASSUME NEW t \in Tasks, Typed, Write(t)
  PROVE  /\ run[t] = "body" /\ open[t] \in Inodes /\ open[t] # 0
         /\ pos' = [pos EXCEPT ![t] = pos[t] + 1]
         /\ file' = [file EXCEPT ![open[t]] =
                       [by |-> IF file[open[t]].len = 0 \/ file[open[t]].by = t THEN t ELSE Several,
                        len |-> Grown(t, file[open[t]].len)]]
         /\ Grown(t, file[open[t]].len) \in Nat
         /\ UNCHANGED <<engineVars, path, work, final, run, from, open, shared>>
<1>1. run[t] = "body" /\ open[t] \in Inodes /\ open[t] # 0
  BY DEF Answer, Write, Typed, RunsTyped
<1>2. Grown(t, file[open[t]].len) \in Nat
  <2>1. file[open[t]].len \in Nat /\ pos[t] \in Nat /\ from[t] \in Nat
    BY <1>1 DEF Typed, DiskTyped, RunsTyped
  <2> QED BY <2>1 DEF Grown
<1> QED BY <1>1, <1>2 DEF Write

LEMMA DiskTypedStep == ASSUME Typed, [Next]_vars PROVE DiskTyped'
<1> USE DEF Typed, DiskTyped
<1>1. work' \in [Paths -> Inodes \cup {0}]
  BY WorkStep, CreateFileFacts DEF WorkKept
<1>2. final' \in [Paths -> Inodes \cup {0}]
  <2>1. ASSUME NEW t \in Tasks, Publish(t) PROVE final' \in [Paths -> Inodes \cup {0}]
    <3>1. path[t] \in Paths
      BY <2>1, RunnerFacts DEF Publish
    <3> QED BY <2>1, <3>1 DEF Publish, HardLinks
  <2> QED BY <2>1, FinalStep, ForeignFacts DEF FinalKept
<1>3. file' \in [Inodes -> [by : Int, len : Nat]]
  <2>1. CASE ForeignFile
    BY <2>1, ForeignFacts DEF Foreign
  <2>2. ASSUME NEW t \in Tasks, CreateWorkFile(t) PROVE file' \in [Inodes -> [by : Int, len : Nat]]
    BY <2>2, CreateFileFacts
  <2>3. ASSUME NEW t \in Tasks, Write(t) PROVE file' \in [Inodes -> [by : Int, len : Nat]]
    <3> DEFINE author == IF file[open[t]].len = 0 \/ file[open[t]].by = t THEN t ELSE Several
               length == Grown(t, file[open[t]].len)
    <3>1. author \in Int
      BY DEF Several
    <3>2. length \in Nat /\ file' = [file EXCEPT ![open[t]] = [by |-> author, len |-> length]]
      BY <2>3, WriteFacts
    <3> HIDE DEF author, length
    <3> QED BY <3>1, <3>2
  <2>4. ASSUME NEW t \in Tasks, Truncates(t) PROVE file' \in [Inodes -> [by : Int, len : Nat]]
    <3>1. from[t] \in Nat
      BY DEF RunsTyped
    <3> QED BY <2>4, <3>1 DEF Truncates
  <2> QED BY <2>1, <2>2, <2>3, <2>4, FileStep
<1> QED BY <1>1, <1>2, <1>3

-----------------------------------------------------------------------------
(* What a step may do to the transfers.                                    *)

LEMMA EndsTyped ==
  ASSUME NEW t \in Tasks, NEW e \in Ended \cup {"none"}, RunsTyped, Ends(t, e) PROVE RunsTyped'
BY DEF RunsTyped, Ends, RunStates, Ended

LEMMA RunsTypedStep == ASSUME Typed, [Next]_vars PROVE RunsTyped'
<1> USE DEF Typed
<1>1. CASE \E t \in Tasks : Transfer(t)
  <2>1. PICK t \in Tasks : Transfer(t)
    BY <1>1
  <2>2. CASE Start(t)
    BY <2>2 DEF Start, TasksTyped, RunsTyped, RunStates
  <2>3. CASE CreateWorkFile(t)
    <3>1. PICK i \in Unused : Opens(t, i)
      BY <2>3 DEF CreateWorkFile
    <3>2. i \in Inodes /\ i # 0
      BY FilesAssumption DEF Unused
    <3> QED BY <3>1, <3>2 DEF Opens, RunsTyped, RunStates
  <2>4. CASE ReopenWorkFile(t)
    <3>1. path[t] \in Paths
      BY <2>4, RunnerFacts DEF ReopenWorkFile
    <3>2. work[path[t]] \in Inodes \cup {0} /\ work[path[t]] # 0
      BY <2>4, <3>1, FilesAssumption DEF ReopenWorkFile, Openable, DiskTyped, Exists, RunsTyped
    <3> QED BY <2>4, <3>2 DEF ReopenWorkFile, Opens, RunsTyped, RunStates
  <2>5. CASE OpenFails(t) \/ Fails(t)
    BY <2>5, EndsTyped, FailsFacts DEF OpenFails, Ended
  <2>6. CASE Write(t)
    BY <2>6, WriteFacts DEF Write, RunsTyped
  <2>7. CASE Publish(t)
    BY <2>7 DEF Publish, RunsTyped, RunStates
  <2>8. CASE Finish(t)
    BY <2>8 DEF Finish, RunsTyped, RunStates, Ended
  <2>9. CASE Answer(t)
    BY <2>9 DEF Answer, RunsTyped, RunStates
  <2>10. CASE Unlink(t)
    BY <2>10 DEF Unlink, RunsTyped, RunStates, Ended
  <2> QED BY <2>1, <2>2, <2>3, <2>4, <2>5, <2>6, <2>7, <2>8, <2>9, <2>10 DEF Transfer
<1>2. CASE Crash \/ ReconcileBreaks
  <2>1. Down
    BY <1>2 DEF Crash, ReconcileBreaks
  <2> QED BY <2>1 DEF Down, RunsTyped, RunStates
<1>3. CASE \E t \in Tasks : Pause(t) \/ Cancel(t)
  BY <1>3 DEF Pause, Cancel, Stop, RunsTyped
<1>4. CASE UNCHANGED runVars
  BY <1>4 DEF runVars, RunsTyped
<1> QED
  BY <1>1, <1>2, <1>3, <1>4 DEF Next, Operation, Create, Resume, Retry, Delete, PauseReturns, CancelReturns,
     DeleteReturns, Boot, Reconcile, Skip, ForeignFile, UserRemoves, vars

LEMMA RunsLiveStep == ASSUME Typed, [Next]_vars PROVE RunsLive'
<1> USE DEF Typed
<1>1. CASE \E t \in Tasks : Operation(t)
  <2>1. PICK t \in Tasks : Operation(t)
    BY <1>1
  <2>2. op = "none"
    BY <2>1 DEF Operation, Create, Pause, Cancel, Resume, Retry, Delete, Idle
  <2>3. run' = run /\ \A u \in Tasks \ {t} : st'[u] = st[u]
    BY <2>1 DEF Operation, Create, Pause, Cancel, Stop, Resume, Retry, Delete, Becomes, Reaches, runVars, taskVars,
       Inv, Shape
  <2>4. run[t] # "none" => Pause(t) \/ Cancel(t)
    BY <2>1, <2>2 DEF RunsLive, Operation, Create, Resume, Retry, Delete, Terminal
  <2>5. run[t] # "none" => opTask' = t /\ op' \in {"pause", "cancel"}
    BY <2>4 DEF Pause, Cancel
  <2> QED BY <2>2, <2>3, <2>5 DEF RunsLive
<1>2. CASE PauseReturns \/ CancelReturns \/ DeleteReturns
  <2>1. run' = run /\ opTask \in Tasks /\ \A u \in Tasks \ {opTask} : st'[u] = st[u]
    BY <1>2 DEF PauseReturns, CancelReturns, DeleteReturns, Forgets, Becomes, Reaches, runVars, taskVars,
       Inv, Shape, Waiting
  <2>2. run[opTask] = "none"
    BY <1>2, <2>1 DEF PauseReturns, CancelReturns, DeleteReturns, Inv, Waiting, RunsLive, Terminal
  <2> QED BY <2>1, <2>2 DEF RunsLive
<1>3. CASE \E t \in Tasks : Transfer(t)
  <2>1. PICK t \in Tasks : Transfer(t)
    BY <1>3
  <2>2. /\ UNCHANGED <<op, opTask>>
        /\ \A u \in Tasks \ {t} : st'[u] = st[u] /\ run'[u] = run[u]
    BY <2>1 DEF Transfer, Start, CreateWorkFile, ReopenWorkFile, Opens, OpenFails, Ends, Answer, Write,
       Publish, Report,
       Unlink, Fails, Finish, Becomes, Reaches, engineVars, taskVars, Inv, Shape, RunsTyped
  <2>3. \/ run'[t] = "none"
        \/ st'[t] = "downloading"
        \/ st'[t] = st[t] /\ run[t] # "none"
    BY <2>1 DEF Transfer, Start, CreateWorkFile, ReopenWorkFile, Opens, OpenFails, Ends, Answer, Write,
       Publish, Report,
       Unlink, Fails, Finish, Becomes, Reaches, engineVars, taskVars, Inv, Shape, RunsTyped
  <2> QED BY <2>2, <2>3 DEF RunsLive
<1>4. CASE Crash \/ ReconcileBreaks
  BY <1>4 DEF Crash, ReconcileBreaks, Down, RunsLive
<1>5. CASE Reconcile
  BY <1>5 DEF Reconcile, runVars, Running, RunsLive
<1>6. CASE Boot \/ Skip \/ ForeignFile \/ UserRemoves \/ UNCHANGED vars
  BY <1>6 DEF Boot, Skip, ForeignFile, UserRemoves, vars, engineVars, taskVars, runVars, RunsLive
<1> QED BY <1>1, <1>2, <1>3, <1>4, <1>5, <1>6 DEF Next

LEMMA TypedStep == ASSUME Typed, [Next]_vars PROVE Typed'
BY StepInv, RunningStep, TasksTypedStep, DiskTypedStep, RunsTypedStep, RunsLiveStep DEF Typed

LEMMA InitTyped == Init => Typed
<1>1. Init => TasksTyped /\ RunsTyped /\ RunsLive
  BY FilesAssumption DEF Init, TasksTyped, Lengths, RunsTyped, RunStates, RunsLive, Absent
<1>2. Init => DiskTyped
  BY DEF Init, DiskTyped, Nobody
<1> QED BY <1>1, <1>2, InitInv DEF Init, Typed, Running

-----------------------------------------------------------------------------
(* Who may write.  A task holds a path in memory, through its record, or   *)
(* while its transfer runs, canceled or not; two holders of one path are   *)
(* known to the history.                                                   *)

Holds(t, p) == Claims(t, p) \/ (run[t] # "none" /\ path[t] = p)

Apart ==
  \A t, u \in Tasks : \A p : t # u /\ Holds(t, p) /\ Holds(u, p) => p \in shared

(* What a step may do to the holders: only Create and Retry make one.      *)
Takes(t, p) ==
  /\ (Create(t) /\ path'[t] = p) \/ (Retry(t) /\ path[t] = p)
  /\ \A u \in Tasks \ {t} : Holds(u, p) => p \in shared'

LEMMA IdleHolds ==
  ASSUME Typed, op = "none", NEW t \in Tasks, NEW p, Holds(t, p) PROVE Claims(t, p)
BY DEF Typed, RunsLive, Holds, Claims, Live, Unfinished

LEMMA CreateTakes ==
  ASSUME NEW t \in Tasks, Typed, Create(t)
  PROVE  /\ path[t] = 0 /\ path'[t] \in Paths /\ FreePath(path'[t]) /\ Takes(t, path'[t])
         /\ \A u \in Tasks \ {t} : \A p : Holds(u, p)' => Holds(u, p)
         /\ \A p : Holds(t, p)' => p = path'[t]
<1> USE DEF Typed
<1>1. PICK p \in Paths : FreePath(p) /\ path' = [path EXCEPT ![t] = p]
  BY DEF Create
<1>2. path'[t] = p /\ path[t] = 0 /\ run[t] = "none"
  BY <1>1 DEF Create, TasksTyped, RunsLive, Idle
<1>3. \A u \in Tasks \ {t} : Claims(u, p) => p \in shared'
  BY <1>1, <1>2 DEF Create, FreePath, Outdated, Shares, Claims, Live, Inv, Loading, Unfinished
<1>4. Takes(t, p)
  <2>1. op = "none"
    BY DEF Create, Idle
  <2> QED BY <1>2, <1>3, <2>1, IdleHolds DEF Takes
<1>5. \A u \in Tasks \ {t} : \A q : Holds(u, q)' => Holds(u, q)
  BY <1>1 DEF Create, Becomes, Reaches, Saved, runVars, Inv, Shape, TasksTyped, Holds, Claims, Live
<1>6. \A q : Holds(t, q)' => q = path'[t]
  BY <1>1, <1>2 DEF Create, Saved, runVars, Inv, Shape, TasksTyped, Holds, Claims, Live
<1> QED BY <1>1, <1>2, <1>4, <1>5, <1>6

LEMMA RetryTakes ==
  ASSUME NEW t \in Tasks, Typed, Retry(t)
  PROVE  /\ path' = path /\ path[t] \in Paths /\ Takes(t, path[t])
         /\ \A u \in Tasks \ {t} : \A p : Holds(u, p)' => Holds(u, p)
         /\ \A p : Holds(t, p)' => p = path[t] \/ Holds(t, p)
         /\ Exists(work, path[t]) /\ file[work[path[t]]].by # t => path[t] \in shared'
<1> USE DEF Typed
<1>1. path' = path /\ run' = run /\ path[t] \in Paths
  BY PathTyped DEF Retry, taskVars, runVars
<1>2. \A u \in Tasks \ {t} : Claims(u, path[t]) => path[t] \in shared'
  BY DEF Retry, Occupied, Shares, Claims, Live, Inv, Loading, Idle, Unfinished
<1>3. Takes(t, path[t])
  BY <1>2, IdleHolds DEF Takes, Retry, Idle
<1>4. /\ \A u \in Tasks \ {t} : st'[u] = st[u] /\ record'[u] = record[u]
      /\ record' = record \/ record'[t].path = path[t]
  <2>1. CASE UNCHANGED <<taskVars, record>>
    BY <2>1 DEF taskVars
  <2>2. CASE ~ UNCHANGED <<taskVars, record>>
    <3>1. PICK n : Becomes(t, "queued", n) /\ Saved(t, path[t])
      BY <2>2 DEF Retry
    <3>2. st' = [st EXCEPT ![t] = "queued"] /\ record' = [record EXCEPT ![t] = record'[t]]
          /\ record'[t].path = path[t]
      BY <3>1 DEF Becomes, Reaches, Saved, Inv, Shape
    <3> HIDE DEF Tasks
    <3> QED BY <3>2 DEF Inv, Shape
  <2> QED BY <2>1, <2>2
<1>5. \A u \in Tasks \ {t} : \A p : Holds(u, p)' => Holds(u, p)
  BY <1>1, <1>4 DEF Holds, Claims, Live
<1>6. \A p : Holds(t, p)' => p = path[t] \/ Holds(t, p)
  BY <1>1, <1>4 DEF Holds, Claims, Live
<1>7. Exists(work, path[t]) /\ file[work[path[t]]].by # t => path[t] \in shared'
  BY DEF Retry, Occupied, Shares
<1> QED BY <1>1, <1>3, <1>5, <1>6, <1>7

(* The other steps that change a task make no holder.                      *)
LEMMA ChangeHolds ==
  ASSUME Typed, NEW t \in Tasks, NEW s \in States, Live(t) \/ s \notin Unfinished,
         \A u \in Tasks : st'[u] = IF u = t THEN s ELSE st[u],
         \A u \in Tasks : u # t => record'[u] = record[u],
         record'[t] = record[t] \/ (record'[t].st = s /\ record'[t].path = path[t]),
         \A u \in Tasks : run'[u] # "none" => run[u] # "none" \/ (u = t /\ Live(t)),
         path' = path
  PROVE  \A u \in Tasks : \A p : Holds(u, p)' => Holds(u, p)
BY DEF Holds, Claims, Live, Unfinished

LEMMA SavedChange ==
  ASSUME Typed, NEW t \in Tasks, NEW s, NEW n, NEW len, Reaches(t, s, n, len),
         record' = record \/ Saved(t, path[t])
  PROVE  /\ \A u \in Tasks : st'[u] = IF u = t THEN s ELSE st[u]
         /\ \A u \in Tasks : u # t => record'[u] = record[u]
         /\ record'[t] = record[t] \/ (record'[t].st = s /\ record'[t].path = path[t])
<1>1. \A u \in Tasks : st'[u] = IF u = t THEN s ELSE st[u]
  BY DEF Typed, Inv, Shape, Reaches
<1>2. CASE record' = record
  BY <1>1, <1>2
<1>3. CASE Saved(t, path[t])
  <2>1. record' = [record EXCEPT ![t] = [st |-> s, path |-> path[t], got |-> got'[t], total |-> total'[t]]]
    BY <1>1, <1>3 DEF Saved
  <2> HIDE DEF Tasks
  <2> QED BY <1>1, <2>1 DEF Typed, Inv, Shape
<1> QED BY <1>2, <1>3

LEMMA OperationHolds ==
  ASSUME NEW t \in Tasks, Typed, Pause(t) \/ Cancel(t) \/ Resume(t) \/ Delete(t)
  PROVE  \A u \in Tasks : \A p : Holds(u, p)' => Holds(u, p)
<1>1. CASE UNCHANGED <<st, path, record, run>>
  BY <1>1 DEF Holds, Claims, Live
<1>2. CASE Pause(t) \/ Cancel(t)
  <2>1. PICK s, why : s \in {"paused", "canceled"} /\ Stop(t, s, why) /\ Live(t)
    BY <1>2 DEF Pause, Cancel, Live, Unfinished
  <2>2. /\ path' = path /\ run' = run /\ Reaches(t, s, got[t], total[t])
        /\ record' = record \/ Saved(t, path[t])
    BY <2>1 DEF Stop, Becomes, MaySave
  <2>3. s \in States
    BY <2>1 DEF States, Unfinished, Terminal
  <2> QED BY <2>1, <2>2, <2>3, SavedChange, ChangeHolds
<1>3. CASE Resume(t)
  <2>1. CASE Becomes(t, "queued", got[t]) /\ Saved(t, path[t])
    BY <1>3, <2>1, SavedChange, ChangeHolds DEF Resume, Becomes, runVars, States, Unfinished, Live
  <2> QED BY <1>1, <1>3, <2>1 DEF Resume, runVars
<1>4. CASE Delete(t)
  BY <1>1, <1>4 DEF Delete, taskVars, runVars
<1> QED BY <1>2, <1>3, <1>4

LEMMA ReturnHolds ==
  ASSUME Typed, PauseReturns \/ CancelReturns \/ DeleteReturns
  PROVE  \A u \in Tasks : \A p : Holds(u, p)' => Holds(u, p)
<1>1. CASE UNCHANGED <<st, path, record, run>>
  BY <1>1 DEF Holds, Claims, Live
<1>2. opTask \in Tasks
  BY DEF PauseReturns, CancelReturns, DeleteReturns, Typed, Inv, Waiting
<1>3. CASE PauseReturns
  <2>1. CASE Becomes(opTask, "paused", Length(work, path[opTask])) /\ MaySave(opTask)
    <3>1. Live(opTask) /\ "paused" \in States /\ run' = run /\ path' = path
      BY <1>3 DEF PauseReturns, Typed, Inv, Waiting, Live, Unfinished, States, runVars
    <3> QED BY <1>2, <2>1, <3>1, SavedChange, ChangeHolds DEF MaySave, Becomes
  <2> QED BY <1>1, <1>3, <2>1 DEF PauseReturns, runVars
<1>4. CASE DeleteReturns
  <2>1. CASE Forgets(opTask) /\ Saved(opTask, 0)
    <3>1. run[opTask] = "none" /\ run' = run
      BY <1>2, <1>4 DEF DeleteReturns, Typed, Inv, Waiting, RunsLive, Terminal, runVars
    <3> QED BY <1>2, <2>1, <3>1
         DEF Forgets, Reaches, Saved, Typed, Inv, Shape, TasksTyped, Holds, Claims, Live, Unfinished
  <2> QED BY <1>1, <1>4, <2>1 DEF DeleteReturns, taskVars, runVars
<1>5. CASE CancelReturns
  BY <1>1, <1>5 DEF CancelReturns, taskVars, runVars
<1> QED BY <1>3, <1>4, <1>5

LEMMA TransferHolds ==
  ASSUME NEW t \in Tasks, Typed, Transfer(t)
  PROVE  \A u \in Tasks : \A p : Holds(u, p)' => Holds(u, p)
<1>1. path' = path
  BY DEF Transfer, Start, CreateWorkFile, ReopenWorkFile, Opens, OpenFails, Answer, Write, Publish, Unlink, Fails,
     Finish, taskVars
<1>2. \A u \in Tasks : run'[u] # "none" => run[u] # "none" \/ (u = t /\ Live(t))
  BY DEF Transfer, Start, CreateWorkFile, ReopenWorkFile, Opens, OpenFails, Ends, Answer, Write, Publish,
     Unlink, Fails,
     Finish, Ended, Typed, RunsTyped, Live, Unfinished
<1>3. \/ UNCHANGED <<st, record>>
      \/ /\ Live(t)
         /\ \E s, n, len : s \in States /\ Reaches(t, s, n, len) /\ (record' = record \/ Saved(t, path[t]))
  BY DEF Transfer, Start, CreateWorkFile, ReopenWorkFile, Opens, OpenFails, Answer, Write, Publish, Report, Unlink,
     Fails, Finish, Becomes, MaySave, taskVars, Live, States, Unfinished, Terminal
<1>4. CASE UNCHANGED <<st, record>>
  BY <1>1, <1>2, <1>4 DEF Holds, Claims, Live
<1> QED BY <1>1, <1>2, <1>3, <1>4, SavedChange, ChangeHolds

LEMMA HoldsStep ==
  ASSUME Typed, [Next]_vars
  PROVE  \/ \E t \in Tasks : Create(t) \/ Retry(t)
         \/ \A u \in Tasks : \A p : Holds(u, p)' => Holds(u, p)
<1>1. CASE UNCHANGED <<st, path, record, run>>
  BY <1>1 DEF Holds, Claims, Live
<1>2. CASE Crash \/ ReconcileBreaks
  BY <1>2 DEF Crash, ReconcileBreaks, Down, Holds, Claims, Live, Unfinished
<1>3. CASE Reconcile
  <2>1. run' = run /\ run[next] = "none"
    BY <1>3, ReconcileFacts DEF Reconcile, runVars, Typed, Running
  <2>2. /\ \A u \in Tasks : u # next => record'[u] = record[u]
        /\ record'[next].st = Verdict(next).st /\ record'[next].path = record[next].path
    <3>1. /\ next \in Tasks
          /\ record' = [record EXCEPT ![next] = [st |-> Verdict(next).st, path |-> record[next].path,
                                                 got |-> Verdict(next).got, total |-> Verdict(next).total]]
      BY <1>3, ReconcileFacts
    <3> HIDE DEF Tasks
    <3> QED BY <3>1 DEF Typed, Inv, Shape
  <2> QED BY <1>3, <2>1, <2>2, ReconcileFacts DEF Holds, Claims, Live
<1>4. CASE Boot \/ Skip \/ ForeignFile \/ UserRemoves \/ UNCHANGED vars
  BY <1>1, <1>4 DEF Boot, Skip, ForeignFile, UserRemoves, vars, taskVars, runVars
<1> QED
  BY <1>2, <1>3, <1>4, OperationHolds, ReturnHolds, TransferHolds DEF Next, Operation

LEMMA SharedStep == ASSUME Typed, [Next]_vars PROVE shared \subseteq shared'
<1>1. CASE \E t \in Tasks : Create(t) \/ Retry(t)
  BY <1>1 DEF Create, Retry, Shares
<1>2. CASE UNCHANGED shared
  BY <1>2
<1> QED
  BY <1>1, <1>2 DEF Next, Operation, Pause, Cancel, Stop, Resume, Delete, PauseReturns, CancelReturns,
     DeleteReturns, Transfer, Start, CreateWorkFile, ReopenWorkFile, Opens, OpenFails, Answer, Write, Publish, Unlink,
     Fails, Finish, Crash, Boot, Reconcile, ReconcileBreaks, Down, Skip, ForeignFile, UserRemoves, vars

LEMMA ApartStep == ASSUME Typed, Apart, [Next]_vars PROVE Apart'
<1>1. ASSUME NEW t \in Tasks, Create(t) PROVE Apart'
  BY <1>1, CreateTakes, SharedStep DEF Takes, Apart
<1>2. ASSUME NEW t \in Tasks, Retry(t) PROVE Apart'
  BY <1>2, RetryTakes, SharedStep DEF Takes, Apart
<1> QED BY <1>1, <1>2, HoldsStep, SharedStep DEF Apart

-----------------------------------------------------------------------------
(* Names and open files.  Two names of one file are the work file and the  *)
(* final file of one path; an open file has no other name than the work    *)
(* name of its task's path, and what was published is not open any more,   *)
(* but on shared paths.                                                    *)

Links ==
  /\ \A p, q \in Paths : work[p] # 0 /\ work[p] = work[q] => p = q
  /\ \A p, q \in Paths : work[p] # 0 /\ work[p] = final[q] => p = q

Handles ==
  /\ \A t \in Tasks, p \in Paths : open[t] # 0 /\ open[t] = work[p] => path[t] = p
  /\ \A t, u \in Tasks : open[t] # 0 /\ open[t] = open[u] => path[t] = path[u]

NotFinal ==
  /\ \A t \in Tasks, p \in Paths : open[t] # 0 /\ open[t] = final[p] => p \in shared
  /\ \A t \in Tasks : open[t] # 0 /\ Exists(work, path[t]) /\ work[path[t]] = final[path[t]]
                        => path[t] \in shared

OpenKept == \A t \in Tasks : open'[t] \in {open[t], 0}

LEMMA OpenStep ==
  ASSUME Typed, [Next]_vars
  PROVE  OpenKept \/ \E t \in Tasks : CreateWorkFile(t) \/ ReopenWorkFile(t)
<1>1. CASE \E t \in Tasks : Transfer(t)
  <2>1. PICK t \in Tasks : Transfer(t)
    BY <1>1
  <2>2. open' = open \/ open' = [open EXCEPT ![t] = 0] \/ CreateWorkFile(t) \/ ReopenWorkFile(t)
    BY <2>1 DEF Transfer, Start, OpenFails, Answer, Write, Publish, Unlink, Fails, Finish, Ends
  <2> QED BY <2>2 DEF OpenKept, Typed, RunsTyped
<1>2. CASE Crash \/ ReconcileBreaks
  BY <1>2 DEF Crash, ReconcileBreaks, Down, OpenKept
<1>3. CASE open' = open
  BY <1>3 DEF OpenKept
<1> QED
  BY <1>1, <1>2, <1>3 DEF Next, Operation, Create, Pause, Cancel, Stop, Resume, Retry, Delete, PauseReturns,
     CancelReturns, DeleteReturns, Boot, Reconcile, Skip, ForeignFile, UserRemoves, vars, runVars

(* A task whose transfer goes on keeps its path.                           *)
LEMMA PathStep ==
  ASSUME Typed, [Next]_vars, NEW t \in Tasks, open[t] # 0, open'[t] # 0
  PROVE  path'[t] = path[t]
<1>1. run[t] \in {"request", "body"} /\ engine = "up" /\ st[t] # "absent"
  BY RunnerFacts DEF Typed, RunsTyped
<1>2. CASE \E u \in Tasks : Create(u)
  BY <1>1, <1>2 DEF Create, Typed, TasksTyped
<1>3. CASE DeleteReturns
  BY <1>1, <1>3 DEF DeleteReturns, Forgets, taskVars, Typed, TasksTyped, RunsLive, Inv, Waiting, Terminal
<1>4. CASE Crash \/ ReconcileBreaks
  BY <1>4 DEF Crash, ReconcileBreaks, Down
<1>5. CASE Reconcile
  BY <1>1, <1>5 DEF Reconcile
<1>6. CASE path' = path
  BY <1>6
<1> QED
  BY <1>2, <1>3, <1>4, <1>5, <1>6 DEF Next, Operation, Pause, Cancel, Stop, Resume, Retry, Delete, PauseReturns,
     CancelReturns, Transfer, Start, CreateWorkFile, ReopenWorkFile, Opens, OpenFails, Answer, Write, Publish, Unlink,
     Fails, Finish, Boot, Skip, ForeignFile, UserRemoves, vars, taskVars

LEMMA NamesStep ==
  ASSUME Typed, [Next]_vars
  PROVE  \/ \E t \in Tasks : CreateWorkFile(t) \/ ReopenWorkFile(t) \/ Publish(t)
         \/ ForeignFile
         \/ WorkKept /\ FinalKept /\ OpenKept
BY WorkStep, FinalStep, OpenStep

LEMMA ReopenFacts ==
  ASSUME NEW t \in Tasks, Typed, ReopenWorkFile(t)
  PROVE  /\ path[t] \in Paths /\ work[path[t]] # 0 /\ work[path[t]] \in Inodes /\ final[path[t]] = 0
         /\ run[t] = "open"
         /\ \A u \in Tasks :
              /\ open'[u] = IF u = t THEN work[path[t]] ELSE open[u]
              /\ pos'[u] = IF u = t THEN file[work[path[t]]].len ELSE pos[u]
              /\ run'[u] = IF u = t THEN "request" ELSE run[u]
         /\ UNCHANGED <<engineVars, taskVars, record, work, final, file, from, shared>>
<1>1. path[t] \in Paths /\ run[t] = "open" /\ from[t] # 0
  BY RunnerFacts DEF ReopenWorkFile, Typed, RunsTyped
<1>2. /\ work[path[t]] # 0 /\ final[path[t]] = 0
      /\ file[work[path[t]]].len = from[t]
  BY <1>1 DEF ReopenWorkFile, Openable, Exists, Length
<1>3. work[path[t]] \in Inodes
  BY <1>1, <1>2 DEF Typed, DiskTyped
<1>4. \A u \in Tasks :
        /\ open'[u] = IF u = t THEN work[path[t]] ELSE open[u]
        /\ pos'[u] = IF u = t THEN file[work[path[t]]].len ELSE pos[u]
        /\ run'[u] = IF u = t THEN "request" ELSE run[u]
  BY <1>2 DEF ReopenWorkFile, Opens, Typed, RunsTyped
<1> QED BY <1>1, <1>2, <1>3, <1>4 DEF ReopenWorkFile, Opens

LEMMA PublishFacts ==
  ASSUME NEW t \in Tasks, Typed, Publish(t)
  PROVE  /\ path[t] \in Paths /\ work[path[t]] # 0 /\ work[path[t]] \in Inodes /\ final[path[t]] = 0
         /\ run[t] \in {"request", "body"} /\ open[t] # 0 /\ open[t] \in Inodes
         /\ (Fetched(t) /\ pos[t] = from[t]) \/ Whole(t)
         /\ \A p \in Paths : final'[p] = IF p = path[t] THEN work[path[t]] ELSE final[p]
         /\ \A u \in Tasks :
              /\ open'[u] = IF u = t THEN 0 ELSE open[u]
              /\ run'[u] = IF u = t THEN "linked" ELSE run[u]
         /\ UNCHANGED <<engineVars, path, work, file, from, pos, shared>>
<1>1. /\ path[t] \in Paths /\ run[t] \in {"request", "body"} /\ open[t] # 0 /\ open[t] \in Inodes
      /\ (Fetched(t) /\ pos[t] = from[t]) \/ Whole(t)
  BY RunnerFacts DEF Publish, Typed, RunsTyped
<1>2. work[path[t]] # 0 /\ work[path[t]] \in Inodes /\ final[path[t]] = 0
  BY <1>1 DEF Publish, HardLinks, Exists, Typed, DiskTyped
<1>3. \A p \in Paths : final'[p] = IF p = path[t] THEN work[path[t]] ELSE final[p]
  BY <1>1 DEF Publish, HardLinks, Typed, DiskTyped
<1>4. \A u \in Tasks :
        /\ open'[u] = IF u = t THEN 0 ELSE open[u]
        /\ run'[u] = IF u = t THEN "linked" ELSE run[u]
  BY DEF Publish, Typed, RunsTyped
<1> QED BY <1>1, <1>2, <1>3, <1>4 DEF Publish

LEMMA OpenHolds ==
  ASSUME Typed, NEW t \in Tasks, open[t] # 0
  PROVE  path[t] \in Paths /\ Holds(t, path[t]) /\ run[t] \in {"request", "body"}
BY RunnerFacts DEF Typed, RunsTyped, Holds

LEMMA LinksStep == ASSUME Typed, Links, [Next]_vars PROVE Links'
<1>1. ASSUME NEW t \in Tasks, CreateWorkFile(t) PROVE Links'
  BY <1>1, CreateFileFacts DEF Links
<1>2. ASSUME NEW t \in Tasks, ReopenWorkFile(t) PROVE Links'
  BY <1>2, ReopenFacts DEF Links
<1>3. ASSUME NEW t \in Tasks, Publish(t) PROVE Links'
  BY <1>3, PublishFacts DEF Links
<1>4. CASE ForeignFile
  BY <1>4, ForeignFacts DEF Links
<1>5. CASE WorkKept /\ FinalKept
  BY <1>5 DEF WorkKept, FinalKept, Links
<1> QED BY <1>1, <1>2, <1>3, <1>4, <1>5, NamesStep

LEMMA HandlesStep == ASSUME Typed, Links, Handles, [Next]_vars PROVE Handles'
<1>1. ASSUME NEW t \in Tasks, CreateWorkFile(t) PROVE Handles'
  <2>1. path' = path
    BY <1>1, CreateFileFacts DEF taskVars
  <2>2. PICK i \in Unused :
          /\ \A p \in Paths : work[p] # i /\ work'[p] = IF p = path[t] THEN i ELSE work[p]
          /\ \A u \in Tasks : open[u] # i /\ open'[u] = IF u = t THEN i ELSE open[u]
    BY <1>1, CreateFileFacts
  <2> QED BY <2>1, <2>2 DEF Handles
<1>2. ASSUME NEW t \in Tasks, ReopenWorkFile(t) PROVE Handles'
  <2>1. /\ path' = path /\ work' = work
        /\ path[t] \in Paths /\ work[path[t]] # 0
        /\ \A u \in Tasks : open'[u] = IF u = t THEN work[path[t]] ELSE open[u]
    BY <1>2, ReopenFacts DEF taskVars
  <2> QED BY <2>1 DEF Links, Handles
<1>3. ASSUME NEW t \in Tasks, Publish(t) PROVE Handles'
  <2>1. /\ path' = path /\ work' = work
        /\ \A u \in Tasks : open'[u] = IF u = t THEN 0 ELSE open[u]
    BY <1>3, PublishFacts
  <2> QED BY <2>1 DEF Handles
<1>4. CASE ForeignFile
  BY <1>4, ForeignFacts DEF taskVars, runVars, Handles
<1>5. CASE WorkKept /\ OpenKept
  <2>1. \A t \in Tasks : open'[t] # 0 => open'[t] = open[t] /\ path'[t] = path[t]
    BY <1>5, PathStep DEF OpenKept
  <2> QED BY <1>5, <2>1 DEF WorkKept, Handles
<1> QED BY <1>1, <1>2, <1>3, <1>4, <1>5, NamesStep

LEMMA NotFinalStep ==
  ASSUME Typed, Apart, Links, Handles, NotFinal, [Next]_vars PROVE NotFinal'
<1>1. ASSUME NEW t \in Tasks, CreateWorkFile(t) PROVE NotFinal'
  <2>1. path' = path /\ final' = final /\ shared' = shared
    BY <1>1, CreateFileFacts DEF taskVars
  <2>2. PICK i \in Unused :
          /\ \A p \in Paths : final[p] # i /\ work'[p] = IF p = path[t] THEN i ELSE work[p]
          /\ \A u \in Tasks : open'[u] = IF u = t THEN i ELSE open[u]
          /\ path[t] \in Paths
    BY <1>1, CreateFileFacts
  <2>3. \A u \in Tasks : open[u] # 0 => path[u] \in Paths
    BY OpenHolds
  <2> QED BY <2>1, <2>2, <2>3 DEF NotFinal, Exists
<1>2. ASSUME NEW t \in Tasks, ReopenWorkFile(t) PROVE NotFinal'
  <2>1. /\ path' = path /\ work' = work /\ final' = final /\ shared' = shared
        /\ path[t] \in Paths /\ work[path[t]] # 0 /\ final[path[t]] = 0
        /\ \A u \in Tasks : open'[u] = IF u = t THEN work[path[t]] ELSE open[u]
    BY <1>2, ReopenFacts DEF taskVars
  <2> QED BY <2>1 DEF Links, NotFinal, Exists
<1>3. ASSUME NEW t \in Tasks, Publish(t) PROVE NotFinal'
  <2>1. /\ path' = path /\ work' = work /\ shared' = shared
        /\ path[t] \in Paths /\ work[path[t]] # 0
        /\ \A p \in Paths : final'[p] = IF p = path[t] THEN work[path[t]] ELSE final[p]
        /\ \A u \in Tasks : open'[u] = IF u = t THEN 0 ELSE open[u]
    BY <1>3, PublishFacts
  <2>2. ASSUME NEW u \in Tasks \ {t}, open[u] # 0, path[u] = path[t] PROVE path[t] \in shared
    <3>1. Holds(t, path[t])
      BY <1>3, PublishFacts, OpenHolds
    <3> QED BY <2>2, <3>1, OpenHolds DEF Apart
  <2>3. \A u \in Tasks : open[u] # 0 => path[u] \in Paths
    BY OpenHolds
  <2> QED BY <2>1, <2>2, <2>3 DEF Handles, NotFinal, Exists
<1>4. CASE ForeignFile
  <2>1. UNCHANGED <<path, work, open, shared>>
    BY <1>4, ForeignFacts DEF taskVars, runVars
  <2>2. PICK p \in Paths, i \in Unused :
          /\ \A q \in Paths : work[q] # i /\ final'[q] = IF q = p THEN i ELSE final[q]
          /\ \A u \in Tasks : open[u] # i
    BY <1>4, ForeignFacts
  <2>3. \A u \in Tasks : open[u] # 0 => path[u] \in Paths
    BY OpenHolds
  <2> QED BY <2>1, <2>2, <2>3 DEF NotFinal, Exists
<1>5. CASE WorkKept /\ FinalKept /\ OpenKept
  <2>1. \A t \in Tasks : open'[t] # 0 =>
          open'[t] = open[t] /\ path'[t] = path[t] /\ path[t] \in Paths
    BY <1>5, PathStep, OpenHolds DEF OpenKept
  <2> QED BY <1>5, <2>1, SharedStep DEF WorkKept, FinalKept, NotFinal, Exists
<1> QED BY <1>1, <1>2, <1>3, <1>4, <1>5, NamesStep

-----------------------------------------------------------------------------
(* Whose bytes they are.  On a path that is not shared, the work file is   *)
(* its holder's, and an open one is as long as its transfer has counted.   *)

OwnWork ==
  \A t \in Tasks : \A p \in Paths \ shared :
    Holds(t, p) /\ Exists(work, p) => file[work[p]].by = t

OwnOpen ==
  \A t \in Tasks : open[t] # 0 /\ path[t] \notin shared =>
    /\ file[open[t]].by = t /\ file[open[t]].len = pos[t]
    /\ Exists(work, path[t]) => work[path[t]] = open[t]

(* A final file of such a path is its holder's or the user's.              *)
OwnFinal ==
  \A t \in Tasks : \A p \in Paths \ shared :
    Holds(t, p) /\ Exists(final, p) => file[final[p]].by \in {t, Foreign}

(* What was told of a file that is still to be fetched is its length.  A   *)
(* completed task has the length of what was published instead.            *)
Informed ==
  /\ \A t \in Tasks : st[t] # "completed" => total[t] \in {Unknown, Size} /\ expected[t] \in {Unknown, Size}
  /\ \A t \in Tasks : record[t].st # "completed" => record[t].total \in {Unknown, Size}

Owned ==
  /\ Typed /\ Apart /\ Links /\ Handles /\ NotFinal
  /\ OwnWork /\ OwnOpen /\ OwnFinal /\ Informed

LEMMA OtherOpen ==
  ASSUME Owned, NEW t \in Tasks, NEW u \in Tasks, t # u, open[t] # 0, path[t] \notin shared,
         Holds(u, path[t])
  PROVE  FALSE
BY OpenHolds DEF Owned, Apart

(* What Write leaves in the file it writes to.                             *)
LEMMA WriteGrows ==
  ASSUME Owned, NEW t \in Tasks, Write(t)
  PROVE  /\ open[t] \in Inodes /\ open[t] # 0 /\ path[t] \in Paths /\ Holds(t, path[t])
         /\ \A i \in Inodes \ {open[t]} : file'[i] = file[i]
         /\ file[open[t]].by = t => file'[open[t]].by = t
         /\ file[open[t]].len = pos[t] => file'[open[t]].len = pos'[t]
         /\ \A u \in Tasks \ {t} : pos'[u] = pos[u]
         /\ UNCHANGED <<engineVars, path, work, final, run, from, open, shared>>
<1> USE DEF Owned
<1>1. open[t] \in Inodes /\ open[t] # 0 /\ path[t] \in Paths /\ Holds(t, path[t])
  BY WriteFacts, OpenHolds
<1> DEFINE author == IF file[open[t]].len = 0 \/ file[open[t]].by = t THEN t ELSE Several
           length == Grown(t, file[open[t]].len)
<1>2. file' = [file EXCEPT ![open[t]] = [by |-> author, len |-> length]]
  BY WriteFacts
<1>3. /\ \A i \in Inodes \ {open[t]} : file'[i] = file[i]
      /\ file'[open[t]].by = author /\ file'[open[t]].len = length
  <2> HIDE DEF author, length
  <2> QED BY <1>1, <1>2 DEF Typed, DiskTyped
<1>4. pos'[t] = pos[t] + 1 /\ \A u \in Tasks \ {t} : pos'[u] = pos[u]
  <2>1. pos' = [pos EXCEPT ![t] = pos[t] + 1] /\ pos \in [Tasks -> Nat]
    BY WriteFacts DEF Typed, RunsTyped
  <2> HIDE DEF Tasks
  <2> QED BY <2>1
<1>5. file[open[t]].len = pos[t] => Grown(t, file[open[t]].len) = pos[t] + 1
  BY DEF Grown, Typed, RunsTyped
<1> QED BY <1>1, <1>2, <1>3, <1>4, <1>5, WriteFacts

LEMMA TruncateFacts ==
  ASSUME Owned, NEW t \in Tasks, Truncates(t)
  PROVE  /\ path[t] \in Paths /\ Holds(t, path[t]) /\ work[path[t]] \in Inodes /\ work[path[t]] # 0
         /\ open[t] # 0 /\ open'[t] = 0
         /\ \A i \in Inodes \ {work[path[t]]} : file'[i] = file[i]
         /\ \A i \in Inodes : file'[i].by = file[i].by
         /\ work' = work
<1> USE DEF Owned
<1>1. path[t] \in Paths /\ Holds(t, path[t]) /\ open[t] # 0
  BY OpenHolds DEF Truncates, Typed, RunsTyped
<1>2. work[path[t]] \in Inodes /\ work[path[t]] # 0
  BY <1>1 DEF Truncates, Exists, Typed, DiskTyped
<1>3. /\ \A i \in Inodes \ {work[path[t]]} : file'[i] = file[i]
      /\ \A i \in Inodes : file'[i].by = file[i].by
  BY <1>2 DEF Truncates, Typed, DiskTyped
<1> QED BY <1>1, <1>2, <1>3 DEF Truncates

LEMMA PosStep ==
  ASSUME Typed, [Next]_vars, NEW t \in Tasks, open[t] # 0, open'[t] # 0
  PROVE  pos'[t] = pos[t] \/ Write(t)
<1>1. CASE \E u \in Tasks : Transfer(u)
  <2>1. PICK u \in Tasks : Transfer(u)
    BY <1>1
  <2>2. run[t] \in {"request", "body"}
    BY DEF Typed, RunsTyped
  <2>3. u = t => pos'[t] = pos[t] \/ Write(t)
    BY <2>1, <2>2, FailsFacts DEF Transfer, Start, CreateWorkFile, ReopenWorkFile, OpenFails, Answer, Publish, Unlink,
       Finish, Ended
  <2>4. u # t => pos'[t] = pos[t]
    BY <2>1 DEF Transfer, Start, CreateWorkFile, ReopenWorkFile, Opens, OpenFails, Ends, Answer, Write,
       Publish, Unlink,
       Fails, Finish, Typed, RunsTyped
  <2> QED BY <2>3, <2>4
<1>2. CASE Crash \/ ReconcileBreaks
  BY <1>2 DEF Crash, ReconcileBreaks, Down
<1>3. CASE pos' = pos
  BY <1>3
<1> QED
  BY <1>1, <1>2, <1>3 DEF Next, Operation, Create, Pause, Cancel, Stop, Resume, Retry, Delete, PauseReturns,
     CancelReturns, DeleteReturns, Boot, Reconcile, Skip, ForeignFile, UserRemoves, vars, runVars

(* The work file of a path that t held before the step.                    *)
LEMMA OwnWorkHeld ==
  ASSUME Owned, [Next]_vars, NEW t \in Tasks, NEW p \in Paths, Holds(t, p), p \notin shared', work'[p] # 0
  PROVE  file'[work'[p]].by = t
<1> USE DEF Owned
<1>1. p \notin shared /\ (work[p] # 0 => file[work[p]].by = t)
  BY SharedStep DEF OwnWork, Exists
<1>2. ASSUME NEW u \in Tasks, Holds(u, p) PROVE u = t
  BY <1>1, <1>2 DEF Apart
<1>3. ASSUME NEW u \in Tasks, CreateWorkFile(u) PROVE file'[work'[p]].by = t
  <2>1. PICK i \in Inodes :
          /\ i # work[p] /\ path[u] \in Paths /\ run[u] = "open"
          /\ work'[p] = IF p = path[u] THEN i ELSE work[p]
          /\ file' = [file EXCEPT ![i] = [by |-> u, len |-> 0]]
    BY <1>3, CreateFileFacts
  <2>2. CASE p = path[u]
    BY <1>2, <2>1, <2>2 DEF Holds, Typed, DiskTyped
  <2>3. CASE p # path[u]
    BY <1>1, <2>1, <2>3 DEF Typed, DiskTyped
  <2> QED BY <2>2, <2>3
<1>4. CASE WorkKept
  <2>1. work'[p] = work[p] /\ work[p] \in Inodes /\ file[work[p]].by = t
    BY <1>1, <1>4 DEF WorkKept, Typed, DiskTyped
  <2>2. ASSUME NEW u \in Tasks, Write(u) PROVE file'[work[p]].by = t
    <3>1. work[p] = open[u] => u = t
      BY <1>2, <2>1, <2>2, WriteGrows DEF Handles
    <3> QED BY <2>1, <2>2, <3>1, WriteGrows
  <2>3. ASSUME NEW u \in Tasks, Truncates(u) PROVE file'[work[p]].by = t
    BY <2>1, <2>3, TruncateFacts
  <2>4. CASE ForeignFile
    BY <2>1, <2>4, ForeignFacts DEF Typed, DiskTyped
  <2> QED BY <1>3, <2>1, <2>2, <2>3, <2>4, FileStep
<1> QED BY <1>3, <1>4, WorkStep

LEMMA OwnWorkStep == ASSUME Owned, [Next]_vars PROVE OwnWork'
<1> USE DEF Owned
<1> SUFFICES ASSUME NEW t \in Tasks, NEW p \in Paths, p \notin shared', Holds(t, p)', work'[p] # 0
             PROVE  file'[work'[p]].by = t
  BY DEF OwnWork, Exists
<1>1. CASE Holds(t, p)
  BY <1>1, OwnWorkHeld
<1>2. CASE ~ Holds(t, p) /\ Create(t)
  BY <1>2, CreateTakes DEF FreePath, Exists, Create, diskVars
<1>3. CASE ~ Holds(t, p) /\ Retry(t)
  <2>1. p = path[t] /\ file' = file
    BY <1>3, RetryTakes DEF Retry
  <2>2. work'[p] = work[p]
    BY <1>3, RemovedFacts DEF Retry, Typed, DiskTyped
  <2> QED BY <1>3, <2>1, <2>2, RetryTakes DEF Exists
<1>4. Holds(t, p) \/ Create(t) \/ Retry(t)
  BY HoldsStep, CreateTakes, RetryTakes
<1> QED BY <1>1, <1>2, <1>3, <1>4

LEMMA OwnOpenStep == ASSUME Owned, [Next]_vars PROVE OwnOpen'
<1> USE DEF Owned
<1> SUFFICES ASSUME NEW t \in Tasks, open'[t] # 0, path'[t] \notin shared'
             PROVE  /\ file'[open'[t]].by = t /\ file'[open'[t]].len = pos'[t]
                    /\ work'[path'[t]] # 0 => work'[path'[t]] = open'[t]
  BY DEF OwnOpen, Exists
<1>1. CASE CreateWorkFile(t)
  BY <1>1, CreateFileFacts DEF taskVars, Typed, DiskTyped
<1>2. CASE ReopenWorkFile(t)
  <2>1. Holds(t, path[t]) /\ path[t] \notin shared /\ path' = path
    BY <1>2, ReopenFacts DEF Holds, taskVars
  <2> QED BY <1>2, <2>1, ReopenFacts DEF OwnWork, Exists
<1>3. CASE ~ CreateWorkFile(t) /\ ~ ReopenWorkFile(t)
  <2>1. open'[t] = open[t]
    <3>1. ASSUME NEW u \in Tasks, CreateWorkFile(u) \/ ReopenWorkFile(u) PROVE open'[t] = open[t]
      BY <1>3, <3>1, CreateFileFacts, ReopenFacts
    <3> QED BY <3>1, OpenStep DEF OpenKept
  <2>2. path'[t] = path[t] /\ path[t] \in Paths /\ path[t] \notin shared /\ open[t] \in Inodes
    BY <2>1, PathStep, SharedStep, OpenHolds DEF Typed, RunsTyped
  <2>3. /\ file[open[t]].by = t /\ file[open[t]].len = pos[t]
        /\ work[path[t]] # 0 => work[path[t]] = open[t]
    BY <2>1, <2>2 DEF OwnOpen, Exists
  <2>4. ASSUME NEW u \in Tasks \ {t} PROVE ~ Holds(u, path[t])
    BY <2>1, <2>2, <2>4, OtherOpen
  <2>5. work'[path[t]] # 0 => work'[path[t]] = open[t]
    <3>1. ASSUME NEW u \in Tasks, CreateWorkFile(u) PROVE work'[path[t]] = work[path[t]]
      <4>1. u # t /\ Holds(u, path[u])
        BY <1>3, <3>1, CreateFileFacts DEF Holds
      <4> QED BY <2>2, <2>4, <3>1, <4>1, CreateFileFacts
    <3> QED BY <2>2, <2>3, <3>1, WorkStep DEF WorkKept
  <2>6. file'[open[t]].by = t /\ file'[open[t]].len = pos'[t]
    <3>1. CASE Write(t)
      BY <2>2, <2>3, <3>1, WriteGrows
    <3>2. CASE ~ Write(t)
      <4>1. pos'[t] = pos[t]
        BY <2>1, <3>2, PosStep
      <4>2. ASSUME NEW u \in Tasks, Write(u) PROVE file'[open[t]] = file[open[t]]
        <5>1. u # t /\ Holds(u, path[u]) /\ open[u] # 0
          BY <3>2, <4>2, WriteGrows
        <5>2. open[u] # open[t]
          BY <2>4, <5>1 DEF Handles
        <5> QED BY <2>2, <4>2, <5>2, WriteGrows
      <4>3. ASSUME NEW u \in Tasks, Truncates(u) PROVE file'[open[t]] = file[open[t]]
        <5>1. u # t /\ Holds(u, path[u])
          BY <2>1, <4>3, TruncateFacts
        <5>2. work[path[u]] # open[t]
          BY <2>1, <2>4, <4>3, <5>1, TruncateFacts DEF Handles
        <5> QED BY <2>2, <4>3, <5>2, TruncateFacts
      <4>4. ASSUME NEW u \in Tasks, CreateWorkFile(u) PROVE file'[open[t]] = file[open[t]]
        BY <2>2, <4>4, CreateFileFacts DEF Typed, DiskTyped
      <4>5. ASSUME ForeignFile PROVE file'[open[t]] = file[open[t]]
        <5>1. PICK i \in Unused, n \in Nat :
                i # open[t] /\ i \in Inodes /\ file' = [file EXCEPT ![i] = [by |-> Foreign, len |-> n]]
          BY <2>2, <4>5, ForeignFacts
        <5> QED BY <2>2, <5>1 DEF Typed, DiskTyped
      <4> QED BY <2>3, <4>1, <4>2, <4>3, <4>4, <4>5, FileStep
    <3> QED BY <3>1, <3>2
  <2> QED BY <2>1, <2>2, <2>5, <2>6
<1> QED BY <1>1, <1>2, <1>3

LEMMA OwnFinalStep == ASSUME Owned, [Next]_vars PROVE OwnFinal'
<1> USE DEF Owned
<1> SUFFICES ASSUME NEW t \in Tasks, NEW p \in Paths, p \notin shared', Holds(t, p)', final'[p] # 0
             PROVE  file'[final'[p]].by \in {t, Foreign}
  BY DEF OwnFinal, Exists
<1>1. p \notin shared
  BY SharedStep
<1>2. CASE ~ Holds(t, p)
  <2>1. CASE Create(t)
    BY <1>2, <2>1, CreateTakes DEF FreePath, Exists, Create, diskVars
  <2>2. CASE Retry(t)
    BY <1>2, <2>2, RetryTakes DEF Retry, Exists
  <2> QED BY <1>2, <2>1, <2>2, HoldsStep, CreateTakes, RetryTakes
<1>3. CASE Holds(t, p)
  <2>1. ASSUME NEW u \in Tasks, Publish(u) PROVE file'[final'[p]].by \in {t, Foreign}
    <3>1. CASE p = path[u]
      <4>1. Holds(u, p) /\ work[p] # 0 /\ final'[p] = work[p] /\ file' = file
        BY <2>1, <3>1, PublishFacts, OpenHolds
      <4>2. u = t
        BY <1>1, <1>3, <4>1 DEF Apart
      <4> QED BY <1>1, <4>1, <4>2 DEF OwnWork, Exists
    <3>2. CASE p # path[u]
      BY <1>1, <1>3, <2>1, <3>2, PublishFacts DEF OwnFinal, Exists
    <3> QED BY <3>1, <3>2
  <2>2. CASE ForeignFile
    <3>1. PICK q \in Paths, i \in Inodes, n \in Nat :
            /\ final'[p] = IF p = q THEN i ELSE final[p]
            /\ file' = [file EXCEPT ![i] = [by |-> Foreign, len |-> n]]
            /\ final[p] # i
      BY <2>2, ForeignFacts DEF Unused
    <3> QED BY <1>1, <1>3, <3>1 DEF OwnFinal, Exists, Typed, DiskTyped
  <2>3. CASE FinalKept
    <3>1. final'[p] = final[p] /\ final[p] \in Inodes /\ file[final[p]].by \in {t, Foreign}
      BY <1>1, <1>3, <2>3 DEF FinalKept, OwnFinal, Exists, Typed, DiskTyped
    <3>2. ASSUME NEW u \in Tasks, Write(u) PROVE file'[final[p]] = file[final[p]]
      <4>1. open[u] # final[p]
        BY <1>1, <3>2, WriteGrows DEF NotFinal
      <4> QED BY <3>1, <3>2, <4>1, WriteGrows
    <3>3. ASSUME NEW u \in Tasks, Truncates(u) PROVE file'[final[p]].by = file[final[p]].by
      BY <3>1, <3>3, TruncateFacts
    <3>4. ASSUME NEW u \in Tasks, CreateWorkFile(u) PROVE file'[final[p]] = file[final[p]]
      BY <3>1, <3>4, CreateFileFacts DEF Typed, DiskTyped
    <3> QED BY <2>2, <3>1, <3>2, <3>3, <3>4, FileStep
  <2> QED BY <2>1, <2>2, <2>3, FinalStep
<1> QED BY <1>2, <1>3

(* A task that is not completed is given a length that was told.           *)
LEMMA ChangeInformed ==
  ASSUME Typed, Informed, NEW t \in Tasks, NEW s, NEW n, NEW len, Reaches(t, s, n, len),
         record' = record \/ \E p : Saved(t, p),
         s # "completed" => len \in {Unknown, Size} /\ expected'[t] \in {Unknown, Size},
         \A u \in Tasks \ {t} : expected'[u] = expected[u]
  PROVE  Informed'
<1>1. \A u \in Tasks : st'[u] = (IF u = t THEN s ELSE st[u]) /\ total'[u] = (IF u = t THEN len ELSE total[u])
  BY DEF Reaches, Typed, Inv, Shape, TasksTyped
<1>2. \A u \in Tasks : record'[u] = record[u] \/ (u = t /\ record'[u].st = s /\ record'[u].total = len)
  <2>1. CASE record' = record
    BY <2>1
  <2>2. CASE \E p : Saved(t, p)
    BY <1>1, <2>2 DEF Saved, Typed, Inv, Shape
  <2> QED BY <2>1, <2>2
<1> QED BY <1>1, <1>2 DEF Informed

LEMMA InformedStep == ASSUME Typed, Informed, [Next]_vars PROVE Informed'
<1> DEFINE Heard == {Unknown, Size}
<1> USE DEF Typed
<1>1. CASE UNCHANGED <<st, total, expected, record>>
  BY <1>1 DEF Informed
<1>2. ASSUME NEW t \in Tasks, Create(t) PROVE Informed'
  <2>1. PICK len \in Heard : Reaches(t, "queued", 0, len) /\ Expects(t, len) /\ Saved(t, path'[t])
    BY <1>2 DEF Create
  <2> QED BY <2>1, ChangeInformed DEF Expects, TasksTyped
<1>3. ASSUME NEW t \in Tasks, Pause(t) \/ Cancel(t) \/ Start(t) PROVE Informed'
  <2>1. PICK s \in {"paused", "canceled", "downloading"} :
          Reaches(t, s, got[t], total[t]) /\ MaySave(t) /\ expected' = expected /\ st[t] # "completed"
    BY <1>3 DEF Pause, Cancel, Stop, Start, Becomes, Live, Unfinished
  <2> QED BY <2>1, ChangeInformed DEF MaySave, Informed
<1>4. ASSUME NEW t \in Tasks, Resume(t) PROVE Informed'
  <2>1. /\ expected' = [expected EXCEPT ![t] = total[t]] /\ total[t] \in Heard
        /\ \/ Reaches(t, "queued", got[t], total[t]) /\ Saved(t, path[t])
           \/ UNCHANGED <<st, total, record>>
    BY <1>4 DEF Resume, Expects, Becomes, Informed
  <2>2. \A u \in Tasks : expected'[u] = IF u = t THEN total[t] ELSE expected[u]
    BY <2>1 DEF TasksTyped
  <2> QED BY <2>1, <2>2, ChangeInformed DEF Informed
<1>5. ASSUME NEW t \in Tasks, Retry(t) PROVE Informed'
  <2>1. CASE UNCHANGED <<taskVars, record>>
    BY <1>1, <2>1 DEF taskVars
  <2>2. CASE ~ UNCHANGED <<taskVars, record>>
    <3>1. PICK n : /\ Reaches(t, "queued", n, total[t]) /\ Saved(t, path[t])
                   /\ expected' = [expected EXCEPT ![t] = total[t]] /\ total[t] \in Heard
      BY <1>5, <2>2 DEF Retry, Expects, Becomes, Informed
    <3>2. \A u \in Tasks : expected'[u] = IF u = t THEN total[t] ELSE expected[u]
      BY <3>1 DEF TasksTyped
    <3> QED BY <3>1, <3>2, ChangeInformed
  <2> QED BY <2>1, <2>2
<1>6. CASE PauseReturns
  <2>1. opTask \in Tasks /\ st[opTask] # "completed" /\ expected' = expected
    BY <1>6 DEF PauseReturns, Inv, Waiting
  <2>2. \/ UNCHANGED <<st, total, record>>
        \/ \E n : Reaches(opTask, "paused", n, total[opTask]) /\ MaySave(opTask)
    BY <1>6 DEF PauseReturns, Becomes
  <2> QED BY <1>1, <2>1, <2>2, ChangeInformed DEF MaySave, Informed
<1>7. CASE DeleteReturns
  <2>1. opTask \in Tasks
    BY <1>7 DEF DeleteReturns, Inv, Waiting
  <2>2. CASE Forgets(opTask) /\ Saved(opTask, 0)
    BY <2>1, <2>2, ChangeInformed DEF Forgets, Expects, TasksTyped
  <2> QED BY <1>1, <1>7, <2>2 DEF DeleteReturns, taskVars
<1>8. ASSUME NEW t \in Tasks, NEW n, NEW len \in Heard, Report(t, n, len), expected' = expected PROVE Informed'
  BY <1>1, <1>8, ChangeInformed DEF Report, MaySave, Informed
<1>9. ASSUME NEW t \in Tasks, Answer(t) \/ Write(t) \/ Publish(t) PROVE Informed'
  <2>1. answer[t] \in Heard
    BY DEF RunsTyped
  <2>2. \/ \E n : \E len \in Heard : Report(t, n, len) /\ expected' = expected
        \/ UNCHANGED <<st, total, expected, record>>
    BY <1>9, <2>1 DEF Answer, Write, Publish
  <2> QED BY <1>1, <1>8, <2>2
<1>10. ASSUME NEW t \in Tasks, Finish(t) PROVE Informed'
  <2>1. expected' = expected
    BY <1>10 DEF Finish
  <2>2. \/ UNCHANGED <<st, total, record>>
        \/ /\ st[t] = "downloading" /\ MaySave(t)
           /\ \E s, n, len : Reaches(t, s, n, len) /\ (s = "completed" \/ len = total[t])
    BY <1>10 DEF Finish, Becomes
  <2>3. st[t] = "downloading" => total[t] \in Heard /\ expected[t] \in Heard
    BY DEF Informed
  <2> QED BY <1>1, <2>1, <2>2, <2>3, ChangeInformed DEF MaySave
<1>11. CASE Crash \/ ReconcileBreaks
  BY <1>11 DEF Crash, ReconcileBreaks, Down, Informed
<1>12. CASE Reconcile
  <2>1. record[next].st # "completed" => record[next].total \in Heard
    BY <1>12, ReconcileFacts DEF Informed
  <2>2. Verdict(next).st # "completed" => Verdict(next).total \in Heard /\ record[next].total \in Heard
    <3>1. Verdict(next).st # "completed" =>
            record[next].st # "completed" /\ Verdict(next).total = record[next].total
      BY <1>12, ReconcileFacts DEF Verdict, Judged, States, Unfinished, Terminal
    <3> QED BY <2>1, <3>1
  <2>3. /\ Reaches(next, Verdict(next).st, Verdict(next).got, Verdict(next).total)
        /\ Saved(next, record[next].path)
    BY <1>12 DEF Reconcile
  <2> QED BY <1>12, <2>2, <2>3, ReconcileFacts, ChangeInformed
<1> QED
  BY <1>1, <1>2, <1>3, <1>4, <1>5, <1>6, <1>7, <1>9, <1>10, <1>11, <1>12 DEF Next, Operation, Delete,
     CancelReturns, Transfer, CreateWorkFile, ReopenWorkFile, Opens, OpenFails, Unlink, Fails, Boot, Skip,
     ForeignFile, UserRemoves, vars, taskVars

LEMMA AlwaysOwned == Spec => []Owned
<1>1. Init => Owned
  <2>1. Init => Apart /\ Links /\ Handles /\ NotFinal /\ OwnWork /\ OwnOpen /\ OwnFinal /\ Informed
    BY DEF Init, Apart, Holds, Claims, Live, Unfinished, Absent, Links, Handles, NotFinal, OwnWork, OwnOpen,
       OwnFinal, Informed, Exists
  <2> QED BY <2>1, InitTyped DEF Owned
<1>2. ASSUME Owned, [Next]_vars PROVE Owned'
  BY <1>2, TypedStep, ApartStep, LinksStep, HandlesStep, NotFinalStep, OwnWorkStep, OwnOpenStep,
     OwnFinalStep, InformedStep DEF Owned
<1> QED BY <1>1, <1>2, PTL DEF Spec

\* Tasks, records, names, files and transfers keep their types; a task has a path
\* exactly while there is one, and a transfer an open file exactly while it writes.
THEOREM FilesTypeCorrect == Spec => [](TasksTyped /\ DiskTyped /\ RunsTyped)
<1>1. Owned => TasksTyped /\ DiskTyped /\ RunsTyped
  BY DEF Owned, Typed
<1> QED BY <1>1, AlwaysOwned, PTL

\* No two transfers have one file open for writing.
OneWriter ==
  \A t, u \in Tasks : t # u /\ open[t] # 0 /\ open[t] = open[u] => path[t] \in shared

\* Two transfers write to one file only on a path that Retry took from another
\* task: not after a rename, a replaced work file, a canceled transfer that is
\* still running or a restart (openFreshHTTPPart, openResumedHTTPPart).
THEOREM FilesOneWriter == Spec => []OneWriter
<1>1. Owned => OneWriter
  <2> SUFFICES ASSUME Owned, NEW t \in Tasks, NEW u \in Tasks, t # u, open[t] # 0, open[t] = open[u]
               PROVE  path[t] \in shared
    BY DEF OneWriter
  <2>1. path[t] = path[u]
    BY DEF Owned, Handles
  <2>2. Holds(t, path[t]) /\ Holds(u, path[t])
    BY <2>1, OpenHolds DEF Owned
  <2> QED BY <2>2 DEF Owned, Apart
<1> QED BY <1>1, AlwaysOwned, PTL

\* Publication, the cleanup of failed transfers, retries and restarts leave every
\* file under a final name as it is, whoever wrote it (publishCompletedFile,
\* Download's deferred cleanup, prepareHTTPRetry, reconcileStoredTask).
THEOREM FilesKeepFinals == Spec => FinalsKept
<1> DEFINE Kept(p) == final'[p] = final[p] /\ file'[final[p]] = file[final[p]]
<1>1. ASSUME Owned, [Next]_vars, NEW p \in Paths \ shared, Exists(final, p), ~ Deletes, ~ UserRemoves
      PROVE  Kept(p)
  <2> USE <1>1 DEF Owned
  <2>1. final[p] # 0 /\ final[p] \in Inodes
    BY DEF Exists, Typed, DiskTyped
  <2>2. final' = final \/ ForeignFile \/ \E t \in Tasks : Publish(t)
    <3>1. CASE \E t \in Tasks : Operation(t)
      BY <3>1 DEF Operation, Create, Pause, Cancel, Stop, Resume, Retry, Delete, Idle, Deletes, diskVars
    <3>2. CASE \E t \in Tasks : Transfer(t)
      BY <3>2 DEF Transfer, Start, CreateWorkFile, ReopenWorkFile, Opens, OpenFails, Answer, Write, Unlink, Fails,
         Finish, diskVars
    <3> QED BY <3>1, <3>2 DEF Next, PauseReturns, CancelReturns, DeleteReturns, Crash, Boot, Reconcile,
       ReconcileBreaks, Down, Skip,
            vars, diskVars
  <2>3. final'[p] = final[p]
    BY <2>1, <2>2, ForeignFacts, PublishFacts
  <2>4. ASSUME NEW t \in Tasks, Write(t) PROVE file'[final[p]] = file[final[p]]
    <3>1. open[t] # final[p]
      BY <2>4, WriteGrows DEF NotFinal
    <3> QED BY <2>1, <2>4, <3>1, WriteGrows
  <2>5. ASSUME NEW t \in Tasks, Truncates(t) PROVE file'[final[p]] = file[final[p]]
    <3>1. work[path[t]] # final[p]
      BY <2>5, TruncateFacts DEF Links, NotFinal, Exists
    <3> QED BY <2>1, <2>5, <3>1, TruncateFacts
  <2>6. ASSUME NEW t \in Tasks, CreateWorkFile(t) PROVE file'[final[p]] = file[final[p]]
    BY <2>1, <2>6, CreateFileFacts DEF Typed, DiskTyped
  <2>7. ASSUME ForeignFile PROVE file'[final[p]] = file[final[p]]
    <3>1. PICK i \in Unused, n \in Nat :
            i # final[p] /\ i \in Inodes /\ file' = [file EXCEPT ![i] = [by |-> Foreign, len |-> n]]
      BY <2>7, ForeignFacts
    <3> QED BY <2>1, <3>1 DEF Typed, DiskTyped
  <2> QED BY <2>3, <2>4, <2>5, <2>6, <2>7, FileStep
<1>2. Owned /\ [Next]_vars =>
        [\A p \in Paths \ shared : Exists(final, p) /\ ~ Deletes /\ ~ UserRemoves => Kept(p)]_vars
  BY <1>1
<1> QED BY <1>2, AlwaysOwned, PTL DEF Spec, FinalsKept

LEMMA Publishers ==
  ASSUME Typed, [Next]_vars, NEW t \in Tasks, Publishes(t) PROVE Publish(t)
<1> USE DEF Publishes, Typed
<1>1. CASE \E u \in Tasks : Transfer(u)
  <2>1. PICK u \in Tasks : Transfer(u)
    BY <1>1
  <2>2. \A v \in Tasks \ {u} : run'[v] = run[v]
    BY <2>1 DEF Transfer, Start, CreateWorkFile, ReopenWorkFile, Opens, OpenFails, Ends, Answer, Write, Publish,
       Unlink, Fails, Finish, RunsTyped
  <2>3. run'[u] = "linked" => run[u] = "linked" \/ Publish(u)
    BY <2>1 DEF Transfer, Start, CreateWorkFile, ReopenWorkFile, Opens, OpenFails, Ends, Answer, Write, Unlink,
       Fails, Finish, RunsTyped
  <2> QED BY <2>2, <2>3
<1>2. CASE Crash \/ ReconcileBreaks
  BY <1>2 DEF Crash, ReconcileBreaks, Down
<1>3. CASE run' = run
  BY <1>3
<1> QED
  BY <1>1, <1>2, <1>3 DEF Next, Operation, Create, Pause, Cancel, Stop, Resume, Retry, Delete, PauseReturns,
     CancelReturns, DeleteReturns, Boot, Reconcile, Skip, ForeignFile, UserRemoves, vars, runVars

\* What a transfer publishes is its own file and as long as it has counted, and the
\* whole remote one if its length was told, through resumptions, retries, failed
\* saves and restarts, on every path that Retry did not take from another task
\* (Downloader.Download, publishCompletedFile).
THEOREM FilesPublishOwn == Spec => PublishesOwn
<1>1. ASSUME Owned, [Next]_vars, NEW t \in Tasks, path[t] \notin shared, Publishes(t)
      PROVE  LET f == file[final'[path[t]]]
             IN f.by = t /\ f.len = pos[t] /\ (Told(t) => f.len = Size)
  <2> USE <1>1 DEF Owned
  <2>1. Publish(t)
    BY Publishers
  <2>2. final'[path[t]] = open[t] /\ file[open[t]].by = t /\ file[open[t]].len = pos[t]
    BY <2>1, PublishFacts DEF OwnOpen, Exists
  <2>3. Told(t) => pos[t] = Size
    <3>1. expected[t] \in {Unknown, Size} /\ answer[t] \in {Unknown, Size}
      <4>1. st[t] # "completed"
        BY <2>1, PublishFacts DEF Typed, RunsLive, Inv, Waiting
      <4> QED BY <4>1 DEF Informed, Typed, RunsTyped
    <3>2. Unknown < 0 /\ Size \in Nat \ {0} /\ Unknown \in Int
      BY FilesAssumption DEF Unknown
    <3> QED BY <2>1, <3>1, <3>2, PublishFacts DEF Told, Fetched, Whole
  <2> QED BY <2>2, <2>3
<1>2. Owned /\ [Next]_vars => [\A t \in Tasks : path[t] \notin shared => OwnFile(t)]_vars
  BY <1>1 DEF OwnFile
<1> QED BY <1>2, AlwaysOwned, PTL DEF Spec, PublishesOwn

(* While records are read, only Reconcile gives the next one a task.       *)
LEMMA LoadingSteps ==
  ASSUME Typed, [Next]_vars, engine = "loading", st'[next] # st[next] PROVE Reconcile
<1> USE DEF Typed
<1>1. st[next] = "absent" /\ next \in Tasks
  BY DEF Inv, Loading
<1>2. ASSUME NEW u \in Tasks, Operation(u) \/ Transfer(u) PROVE FALSE
  BY <1>2 DEF Operation, Create, Pause, Cancel, Resume, Retry, Delete, Idle, Transfer, Start, CreateWorkFile,
     ReopenWorkFile, OpenFails, Answer, Write, Publish, Unlink, Fails, Finish, Ended, Running
<1>3. ~ PauseReturns /\ ~ CancelReturns /\ ~ DeleteReturns
  BY DEF PauseReturns, CancelReturns, DeleteReturns, Inv, Waiting
<1> QED BY <1>1, <1>2, <1>3 DEF Next, Crash, ReconcileBreaks, Down, Boot, Skip, ForeignFile, UserRemoves, vars,
        taskVars

\* A restart completes a task with its own file or with a file of the user that has
\* the stored length, and never with another task's (completedFileMatches,
\* reconcileInterruptedTask), on every path that is not shared.
THEOREM FilesRestoredOwn == Spec => RestoredIsOwn
<1> DEFINE Completes(t) ==
             /\ engine = "loading" /\ next = t /\ record[t].st \in Unfinished
             /\ record[t].path \notin shared /\ st'[t] = "completed"
           Rightly(t) ==
             LET f == file[final[record[t].path]]
             IN f.by = t \/ (f.by = Foreign /\ f.len = record[t].total)
<1>1. ASSUME Owned, [Next]_vars, NEW t \in Tasks, Completes(t) PROVE Rightly(t)
  <2> USE <1>1 DEF Owned
  <2> DEFINE p == record[t].path
  <2>1. st[t] = "absent"
    BY DEF Typed, Inv, Loading
  <2>2. Reconcile
    BY <2>1, LoadingSteps
  <2>3. p \in Paths /\ Holds(t, p) /\ Verdict(t).st = "completed"
    BY <2>2, ReconcileFacts DEF Holds, Claims
  <2>4. Exists(final, p) /\ Matches(t, p)
    BY <2>3 DEF Verdict, Judged, Unfinished, Terminal
  <2>5. file[final[p]].by \in {t, Foreign}
    BY <2>3, <2>4 DEF OwnFinal
  <2>6. CASE record[t].total > 0
    BY <2>4, <2>5, <2>6 DEF Matches
  <2>7. CASE ~ record[t].total > 0
    BY <2>3, <2>4, <2>7 DEF Matches, OwnWork
  <2> QED BY <2>6, <2>7
<1>2. Owned /\ [Next]_vars =>
        [\A t \in Tasks :
           LET r == record[t]
               f == file[final[r.path]]
           IN engine = "loading" /\ next = t /\ r.st \in Unfinished /\ r.path \notin shared
                /\ st'[t] = "completed"
              => f.by = t \/ (f.by = Foreign /\ f.len = r.total)]_vars
  BY <1>1
<1> QED BY <1>2, AlwaysOwned, PTL DEF Spec, RestoredIsOwn

-----------------------------------------------------------------------------
(* What a start leaves behind.                                             *)

(* The records that have been judged agree with the disk while the rest is *)
(* still to come: an unfinished verdict takes no file away, and a finished *)
(* one only the file of its own path.                                      *)
LoadedParts == engine = "loading" => PartsAgree

LEMMA VerdictAgrees ==
  ASSUME Typed, Reconcile, Verdict(next).st = "paused"
  PROVE  /\ Verdict(next).drops = FALSE
         /\ Verdict(next).got = Length(work, record[next].path)
         /\ Verdict(next).total = record[next].total
<1> USE DEF Typed
<1>1. record[next].st \in Unfinished
  BY ReconcileFacts DEF Unfinished
<1>2. record[next].st \notin Terminal /\ record[next].got \in Nat
  BY <1>1, ReconcileFacts DEF Unfinished, Terminal, TasksTyped
<1>3. ~ Exists(final, record[next].path)
  BY <1>1, <1>2 DEF Verdict, Judged
<1>4. CASE Exists(work, record[next].path)
  BY <1>1, <1>2, <1>3, <1>4 DEF Verdict, Judged
<1>5. CASE ~ Exists(work, record[next].path)
  BY <1>1, <1>2, <1>3, <1>5 DEF Verdict, Judged, Length
<1> QED BY <1>4, <1>5

LEMMA ReconcileAgrees == ASSUME Typed, PartsAgree, Reconcile PROVE PartsAgree'
<1> USE DEF Typed
<1> SUFFICES ASSUME NEW t \in Tasks, st'[t] = "paused", Alone(t)'
             PROVE  got'[t] = Length(work, path[t])'
  BY DEF PartsAgree
<1>1. file' = file /\ next \in Tasks
  BY ReconcileFacts DEF Reconcile
<1>2. path'[t] \in Paths
  BY ReconcileFacts, PathTyped
<1>3. CASE t = next
  <2>1. work' = work
    BY <1>3, ReconcileFacts, VerdictAgrees DEF Reconcile
  <2> QED BY <1>1, <1>3, <2>1, ReconcileFacts, VerdictAgrees DEF Length, Exists
<1>4. CASE t # next
  <2>1. /\ st[t] = "paused" /\ got'[t] = got[t] /\ path'[t] = path[t]
        /\ \A u \in Tasks \ {next} : path'[u] = path[u]
        /\ path[next] = 0
    BY <1>4, ReconcileFacts DEF TasksTyped
  <2>2. Alone(t)
    BY <1>2, <1>4, <2>1, FilesAssumption DEF Alone, Reconcile
  <2>3. work'[path[t]] = work[path[t]]
    <3>1. path[t] # record[next].path
      BY <1>1, <1>4, <2>1, ReconcileFacts DEF Alone
    <3> QED BY <1>2, <2>1, <3>1, RemovedFacts DEF Reconcile, DiskTyped
  <2> QED BY <1>1, <2>1, <2>2, <2>3 DEF PartsAgree, Length, Exists
<1> QED BY <1>3, <1>4

LEMMA LoadedPartsStep ==
  ASSUME Typed, LoadedParts, [Next]_vars
  PROVE  LoadedParts' /\ (engine = "loading" /\ engine' = "up" => PartsAgree')
<1> USE DEF Typed
<1>1. CASE engine = "loading"
  <2> USE <1>1
  <2>1. CASE Reconcile
    BY <2>1, ReconcileAgrees DEF LoadedParts
  <2>2. CASE Skip \/ UserRemoves \/ UNCHANGED vars
    BY <2>2 DEF Skip, UserRemoves, vars, taskVars, diskVars, LoadedParts, PartsAgree, Alone, Length, Exists
  <2>3. ASSUME ForeignFile PROVE PartsAgree'
    <3>1. UNCHANGED <<st, path, got, work, shared>>
      BY <2>3, ForeignFacts DEF taskVars
    <3>2. ASSUME NEW t \in Tasks, st[t] = "paused"
          PROVE  Length(work, path[t])' = Length(work, path[t])
      <4>1. path[t] \in Paths
        BY <3>2, PathTyped
      <4>2. PICK i \in Unused, n \in Nat :
              i # work[path[t]] /\ i \in Inodes /\ file' = [file EXCEPT ![i] = [by |-> Foreign, len |-> n]]
        BY <2>3, <4>1, ForeignFacts
      <4> QED BY <3>1, <4>1, <4>2 DEF DiskTyped, Length, Exists
    <3> QED BY <3>1, <3>2 DEF LoadedParts, PartsAgree, Alone
  <2>4. CASE Crash \/ ReconcileBreaks
    BY <2>4 DEF Crash, ReconcileBreaks, Down, LoadedParts
  <2>5. ASSUME NEW u \in Tasks, Operation(u) \/ Transfer(u) PROVE FALSE
    BY <2>5 DEF Operation, Create, Pause, Cancel, Resume, Retry, Delete, Idle, Transfer, Start, CreateWorkFile,
       ReopenWorkFile, OpenFails, Answer, Write, Publish, Unlink, Fails, Finish, Ended, Running
  <2>6. ~ PauseReturns /\ ~ CancelReturns /\ ~ DeleteReturns /\ ~ Boot
    BY DEF PauseReturns, CancelReturns, DeleteReturns, Boot, Inv, Waiting
  <2>7. ForeignFile => engine' = "loading"
    BY DEF ForeignFile, engineVars
  <2> QED BY <2>1, <2>2, <2>3, <2>4, <2>5, <2>6 DEF Next, LoadedParts
<1>2. CASE engine # "loading"
  <2>1. CASE Boot
    BY <1>2, <2>1 DEF Boot, taskVars, Inv, Loading, LoadedParts, PartsAgree
  <2>2. CASE engine' # "loading"
    BY <1>2, <2>2 DEF LoadedParts
  <2>3. engine' = "loading" => Boot
    BY <1>2 DEF Next, Operation, Create, Pause, Cancel, Stop, Resume, Retry, Delete, PauseReturns, CancelReturns,
       DeleteReturns, Transfer, Start, CreateWorkFile, ReopenWorkFile, Opens, OpenFails, Answer, Write,
          Publish, Unlink,
       Fails, Finish, Crash, Reconcile, ReconcileBreaks, Down, Skip, ForeignFile, UserRemoves, vars, engineVars
  <2> QED BY <1>2, <2>1, <2>2, <2>3
<1> QED BY <1>1, <1>2

\* When a start ends, however many starts before it were cut short, every paused
\* task that is alone on its path has the progress that its work file has, so that
\* Resume accepts it (Manager.restore, reconcileStoredTask).
THEOREM FilesRestartAgrees == Spec => RestartAgrees
<1>1. Init => LoadedParts
  BY DEF Init, LoadedParts
<1>2. Typed /\ LoadedParts /\ [Next]_vars =>
        LoadedParts' /\ [engine = "loading" /\ engine' = "up" => PartsAgree']_vars
  BY LoadedPartsStep
<1>3. Owned => Typed
  BY DEF Owned
<1> QED BY <1>1, <1>2, <1>3, AlwaysOwned, PTL DEF Spec, RestartAgrees

\* A start that is cut short and repeated does not change its mind: what it has
\* stored of a task, with the work file gone or not, is judged to be the same.
JudgedOnce ==
  [][\A t \in Tasks : Reconcile /\ next = t =>
       Verdict(t)'.st = st'[t] /\ Verdict(t)'.got = got'[t] /\ Verdict(t)'.total = total'[t]]_vars

LEMMA ReconcileTwice ==
  ASSUME Typed, NEW t \in Tasks, Reconcile, next = t
  PROVE  Verdict(t)'.st = st'[t] /\ Verdict(t)'.got = got'[t] /\ Verdict(t)'.total = total'[t]
<1> USE DEF Typed
<1>1. /\ record'[t] = [st |-> Verdict(t).st, path |-> record[t].path, got |-> Verdict(t).got,
                        total |-> Verdict(t).total]
      /\ st'[t] = Verdict(t).st /\ got'[t] = Verdict(t).got /\ total'[t] = Verdict(t).total
      /\ Verdict(t).st \in States \ {"absent"}
      /\ record[t].st \in States \ {"absent"} /\ record[t].path \in Paths
  BY ReconcileFacts DEF Inv, Shape
<1>2. CASE Verdict(t).st \in Terminal
  <2>1. record'[t].st = Verdict(t).st /\ record'[t].got = Verdict(t).got /\ record'[t].total = Verdict(t).total
    BY <1>1
  <2>2. /\ Verdict(t)'.st = record'[t].st /\ Verdict(t)'.got = record'[t].got
        /\ Verdict(t)'.total = record'[t].total
    BY <1>2, <2>1 DEF Verdict, Judged, Terminal, Unfinished
  <2> QED BY <1>1, <2>1, <2>2
<1>3. CASE Verdict(t).st \notin Terminal
  <2>1. record[t].st \in Unfinished /\ ~ Exists(final, record[t].path) /\ Verdict(t).st = "paused"
    BY <1>1, <1>3 DEF Verdict, Judged, States, Terminal
  <2>2. UNCHANGED <<work, final, file>>
    BY <2>1, VerdictAgrees DEF Reconcile
  <2>3. record'[t].st = "paused" /\ record'[t].path = record[t].path /\ record'[t].total = record[t].total
        /\ record'[t].got = Length(work, record[t].path)
    BY <1>1, <2>1, VerdictAgrees
  <2>4. CASE Exists(work, record[t].path)
    <3>1. ~ (record[t].total > 0 /\ Length(work, record[t].path) > record[t].total)
      BY <2>1, <2>4 DEF Verdict, Judged, Terminal, Unfinished
    <3> QED BY <1>1, <2>1, <2>2, <2>3, <2>4, <3>1 DEF Verdict, Judged, Exists, Length, Terminal, Unfinished
  <2>5. CASE ~ Exists(work, record[t].path)
    <3>1. Length(work, record[t].path) = 0
      BY <2>5 DEF Length
    <3>2. /\ record'[t].got = 0 /\ st'[t] = "paused" /\ got'[t] = 0
          /\ total'[t] = record'[t].total
      BY <1>1, <2>1, <2>3, <3>1
    <3> QED BY <2>1, <2>2, <2>3, <2>5, <3>2 DEF Verdict, Judged, Exists, Terminal, Unfinished
  <2> QED BY <2>4, <2>5
<1> QED BY <1>2, <1>3 DEF States

\* Starts cut short between two records cost nothing: the next one finds in the
\* records it had stored what it would store again (reconcileStoredTask,
\* reconcileInterruptedTask).
THEOREM FilesJudgedOnce == Spec => JudgedOnce
<1>1. Typed /\ [Next]_vars =>
        [\A t \in Tasks : Reconcile /\ next = t =>
           Verdict(t)'.st = st'[t] /\ Verdict(t)'.got = got'[t] /\ Verdict(t)'.total = total'[t]]_vars
  BY ReconcileTwice
<1>2. Owned => Typed
  BY DEF Owned
<1> QED BY <1>1, <1>2, AlwaysOwned, PTL DEF Spec, JudgedOnce
=============================================================================
