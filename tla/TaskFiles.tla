------------------------------- MODULE TaskFiles -------------------------------
(***************************************************************************)
(* Several HTTP tasks on one file system: which path a task gets           *)
(* (selectHTTPDestination), what the single-connection transfer does to    *)
(* the work file and the final file (Downloader.Download, protocol/http/   *)
(* downloader.go), what Pause, Resume, Retry, Cancel and Delete do to them *)
(* (manager.go), and how a restart judges what it finds (persistence.go).  *)
(*                                                                         *)
(* Names are directory entries of inodes, so that a hard link, a name that *)
(* is used again and an open file behave as they do.  A file is known by   *)
(* who wrote it and its length in cells; every remote file has Size cells, *)
(* which a request or an answer may tell or not, and is too small to be    *)
(* fetched in segments.  Queue, slots, plans and retry deadlines are       *)
(* TaskManager's: a task that waits for any of them is "queued" here, and  *)
(* no plan lies in the future.  A failed task that may be retried is       *)
(* "retryable".                                                            *)
(***************************************************************************)
EXTENDS Integers

CONSTANTS
  Last,       \* identifiers are 1..Last, in the order of creation (bound)
  Paths,      \* names of final files
  Size,       \* cells of every remote file
  Sized,      \* tasks whose size is told when they are created
  Validated,  \* tasks with a validator for If-Range
  Inodes,     \* enough for all names and open files (bound)
  Faults      \* failed saves and changes by other programs (bound)

Tasks == 1..Last

ASSUME FilesAssumption ==
  /\ Last \in Nat /\ Size \in Nat \ {0} /\ 0 \notin Paths /\ Inodes \subseteq Nat \ {0} /\ Faults \in Nat
  /\ Sized \subseteq Tasks /\ Validated \subseteq Tasks

VARIABLES
  engine,   \* "down", "loading" or "up"
  next,     \* the next record to reconcile
  op,       \* the operation that holds operationMu
  opTask,
  st,       \* Task.State
  path,     \* Task.FilePath; its work path is a function of it
  got,      \* Task.Downloaded
  total,    \* Task.Total
  expected, \* TransferRequest.ExpectedSize
  record,   \* the stored tasks
  work,     \* the inode of a path's work file, 0 if there is none
  final,    \* the inode of a path's final file
  file,     \* the files, by inode
  run,      \* where a task's transfer is
  from,     \* TransferRequest.Offset of the transfer
  open,     \* the inode it writes to
  answer,   \* its total, which the answer told or not
  pos,      \* its downloaded
  cause,    \* why its context is canceled
  shared,   \* paths taken by a task although another task, its record or its
            \* work file was still there (history)
  faults    \* Faults that are left

engineVars == <<engine, next, op, opTask>>
taskVars   == <<st, path, got, total, expected>>
diskVars   == <<work, final, file>>
runVars    == <<run, from, open, answer, pos, cause>>
vars == <<engineVars, taskVars, record, diskVars, runVars, shared, faults>>

Unfinished == {"queued", "downloading", "paused"}
Terminal   == {"completed", "failed", "retryable", "canceled"}
Ended      == {"ok", "temporary", "fatal"}

\* Authors of a file who are no single task: none yet, the user, several tasks.
Nobody  == 0
Foreign == -1
Several == -2

\* A length nobody has told.
Unknown == -1

Absent == [st |-> "absent", path |-> 0, got |-> 0, total |-> Unknown]

Live(t) == st[t] \in Unfinished

InUse == {work[p] : p \in Paths} \cup {final[p] : p \in Paths} \cup {open[t] : t \in Tasks}

Init ==
  /\ engine = "up" /\ next = 1 /\ op = "none" /\ opTask = 0
  /\ st = [t \in Tasks |-> "absent"]
  /\ path = [t \in Tasks |-> 0]
  /\ got = [t \in Tasks |-> 0]
  /\ total = [t \in Tasks |-> Unknown] /\ expected = [t \in Tasks |-> Unknown]
  /\ record = [t \in Tasks |-> Absent]
  /\ work = [p \in Paths |-> 0] /\ final = [p \in Paths |-> 0]
  /\ file = [i \in Inodes |-> [by |-> Nobody, len |-> 0]]
  /\ run = [t \in Tasks |-> "none"]
  /\ from = [t \in Tasks |-> 0]
  /\ open = [t \in Tasks |-> 0]
  /\ answer = [t \in Tasks |-> Unknown]
  /\ pos = [t \in Tasks |-> 0]
  /\ cause = [t \in Tasks |-> "none"]
  /\ shared = {} /\ faults = Faults

\* The task is given a state, a count and a length, and its record follows.
Reaches(t, s, n, len) ==
  /\ st' = [st EXCEPT ![t] = s]
  /\ got' = [got EXCEPT ![t] = n]
  /\ total' = [total EXCEPT ![t] = len]

Becomes(t, s, n) == Reaches(t, s, n, total[t])

Saved(t, p) ==
  record' = [record EXCEPT ![t] = [st |-> st'[t], path |-> p, got |-> got'[t], total |-> total'[t]]]

\* The length the next transfer of t has to find.
Expects(t, len) == expected' = [expected EXCEPT ![t] = len]

Fault == faults > 0 /\ faults' = faults - 1

\* Most callers ignore the error of persistTaskLocked.
MaySave(t) ==
  \/ Saved(t, path[t]) /\ UNCHANGED faults
  \/ Fault /\ UNCHANGED record

Exists(dir, p) == dir[p] # 0

\* os.Remove, which is no error when there is nothing to remove.
Removed(dir, p) == [dir EXCEPT ![p] = 0]

Idle == engine = "up" /\ op = "none"

-----------------------------------------------------------------------------
(* Operations of the task service.                                         *)

\* Changed: a paused task does not occupy its path.
FreePathOfPaused(p) ==
  /\ \A t \in Tasks : Live(t) /\ st[t] # "paused" => path[t] # p
  /\ ~ Exists(final, p) /\ ~ Exists(work, p)

\* Changed: a final file does not occupy its name.
FreePathOfFinal(p) ==
  /\ \A t \in Tasks : Live(t) => path[t] # p
  /\ ~ Exists(work, p)

\* selectHTTPDestination: a path is free when no unfinished task and no file has it.
FreePath(p) ==
  /\ \A t \in Tasks : Live(t) => path[t] # p
  /\ ~ Exists(final, p) /\ ~ Exists(work, p)

\* A record that was not brought up to date has the path.
Outdated(p) == \E t \in Tasks : ~ Live(t) /\ record[t].st \in Unfinished /\ record[t].path = p

\* Retry may find that another task has the path, or what it left there.
Occupied(t, p) ==
  \/ \E u \in Tasks \ {t} : path[u] = p /\ (Live(u) \/ record[u].st \in Unfinished)
  \/ Exists(work, p) /\ file[work[p]].by # t

Shares(p, why) == shared' = IF why THEN shared \cup {p} ELSE shared

\* Create: a request may ask for any name, and the uniquify policy picks a copy of
\* it that is free.  A task that cannot be saved does not exist.
Create(t) ==
  /\ Idle /\ \A u \in Tasks : u >= t => st[u] = "absent"
  /\ \E p \in Paths : FreePath(p) /\ path' = [path EXCEPT ![t] = p]
  /\ LET told == IF t \in Sized THEN Size ELSE Unknown IN
       Reaches(t, "queued", 0, told) /\ Expects(t, told)
  /\ Saved(t, path'[t]) /\ Shares(path'[t], Outdated(path'[t]))
  /\ UNCHANGED <<engineVars, diskVars, runVars, faults>>

\* Pause and Cancel change the state, cancel the context and wait for the run.
Stop(t, s, why) ==
  /\ Becomes(t, s, got[t]) /\ MaySave(t)
  /\ cause' = [cause EXCEPT ![t] = IF run[t] = "none" THEN "none" ELSE why]
  /\ UNCHANGED <<engine, next, path, expected, diskVars, run, from, open, answer, pos, shared>>

Pause(t) ==
  /\ Idle /\ st[t] \in {"queued", "downloading"}
  /\ Stop(t, "paused", "pause")
  /\ IF run[t] = "none" THEN UNCHANGED <<op, opTask>> ELSE op' = "pause" /\ opTask' = t

Cancel(t) ==
  /\ Idle /\ Live(t)
  /\ Stop(t, "canceled", "cancel")
  /\ op' = "cancel" /\ opTask' = t

Return == op' = "none" /\ opTask' = 0

Length(dir, p) == IF Exists(dir, p) THEN file[dir[p]].len ELSE 0

Excess(t) == total[t] > 0 /\ Length(work, path[t]) > total[t]

\* A work file is of use when it is empty or the server can be asked for the rest.
Usable(t) == t \in Validated \/ Length(work, path[t]) = 0

\* reconciledPartialProgress: the work file says what is there.
PauseReturns ==
  /\ op = "pause" /\ run[opTask] = "none" /\ Return
  /\ \/ /\ Becomes(opTask, "paused", Length(work, path[opTask])) /\ MaySave(opTask)
     \/ Excess(opTask) /\ UNCHANGED <<st, got, total, record, faults>>
  /\ UNCHANGED <<engine, next, path, expected, diskVars, runVars, shared>>

CancelReturns ==
  /\ op = "cancel" /\ run[opTask] = "none" /\ Return
  /\ work' = Removed(work, path[opTask])
  /\ UNCHANGED <<engine, next, taskVars, record, final, file, runVars, shared, faults>>

\* Resume: the work file must be as long as it was left.  If the record cannot be
\* saved the task stays paused (and the request changed).
Resume(t) ==
  /\ Idle /\ st[t] = "paused" /\ ~ Exists(final, path[t])
  /\ got[t] = Length(work, path[t]) /\ ~ Excess(t) /\ Usable(t)
  /\ work' = IF got[t] = 0 THEN Removed(work, path[t]) ELSE work
  /\ Expects(t, total[t])
  /\ \/ Becomes(t, "queued", got[t]) /\ Saved(t, path[t])
     \/ UNCHANGED <<st, got, total, record>>
  /\ UNCHANGED path
  /\ UNCHANGED <<engineVars, final, file, runVars, shared, faults>>

\* Retry and prepareHTTPRetry: the path was free when the task was created, and
\* only the final file is looked for again.
Retry(t) ==
  /\ Idle /\ st[t] = "retryable" /\ ~ Exists(final, path[t])
  /\ ~ Excess(t)
  /\ work' = IF Usable(t) THEN work ELSE Removed(work, path[t])
  /\ \/ /\ Becomes(t, "queued", IF Usable(t) THEN Length(work, path[t]) ELSE 0)
        /\ path' = path /\ Saved(t, path[t]) /\ Expects(t, total[t])
     \/ UNCHANGED <<taskVars, record>>
  /\ Shares(path[t], Occupied(t, path[t]))
  /\ UNCHANGED <<engineVars, final, file, runVars, faults>>

\* Delete takes the file away first, if it is asked to, whatever file it is by now;
\* then the record, and only then the task.
Delete(t) ==
  /\ Idle /\ st[t] \in Terminal
  /\ op' = "delete" /\ opTask' = t
  /\ \/ UNCHANGED final
     \/ st[t] = "completed" /\ final' = Removed(final, path[t])
  /\ UNCHANGED <<engine, next, taskVars, record, work, file, runVars, shared, faults>>

\* Task and request are forgotten.
Forgets(t) ==
  /\ Reaches(t, "absent", 0, Unknown) /\ Expects(t, Unknown)
  /\ path' = [path EXCEPT ![t] = 0]

\* Changed: the task is forgotten although its record could not be deleted.
DeleteForgets ==
  /\ op = "delete" /\ Return
  /\ Forgets(opTask)
  /\ Saved(opTask, 0) \/ UNCHANGED record
  /\ UNCHANGED <<engine, next, diskVars, runVars, shared, faults>>

DeleteReturns ==
  /\ op = "delete" /\ Return
  /\ \/ Forgets(opTask) /\ Saved(opTask, 0)
     \/ UNCHANGED <<taskVars, record>>
  /\ UNCHANGED <<engine, next, diskVars, runVars, shared, faults>>

-----------------------------------------------------------------------------
(* A transfer.                                                             *)

Start(t) ==
  /\ engine = "up" /\ st[t] = "queued" /\ run[t] = "none"
  /\ Becomes(t, "downloading", got[t]) /\ MaySave(t)
  /\ run' = [run EXCEPT ![t] = "open"]
  /\ from' = [from EXCEPT ![t] = got[t]]
  /\ UNCHANGED <<engineVars, path, expected, diskVars, open, answer, pos, cause, shared>>

\* The work file is there as the request needs it.
Openable(t) ==
  /\ ~ Exists(final, path[t])
  /\ IF from[t] = 0 THEN ~ Exists(work, path[t])
     ELSE Exists(work, path[t]) /\ Length(work, path[t]) = from[t]

Unused == Inodes \ InUse

Opens(t, i) ==
  /\ run' = [run EXCEPT ![t] = "request"]
  /\ open' = [open EXCEPT ![t] = i]
  /\ pos' = [pos EXCEPT ![t] = from[t]]
  /\ UNCHANGED <<engineVars, taskVars, record, final, from, answer, cause, shared, faults>>

\* O_CREATE|O_EXCL
CreateWorkFile(t) ==
  /\ run[t] = "open" /\ Openable(t) /\ from[t] = 0
  /\ \E i \in Unused :
       /\ work' = [work EXCEPT ![path[t]] = i]
       /\ file' = [file EXCEPT ![i] = [by |-> t, len |-> 0]]
       /\ Opens(t, i)

\* O_APPEND
ReopenWorkFile(t) ==
  /\ run[t] = "open" /\ Openable(t) /\ from[t] > 0
  /\ Opens(t, work[path[t]])
  /\ UNCHANGED <<work, file>>

\* Download returns; its request and count are of no use any more.
Ends(t, e) ==
  /\ run' = [run EXCEPT ![t] = e]
  /\ from' = [from EXCEPT ![t] = 0] /\ pos' = [pos EXCEPT ![t] = 0]
  /\ open' = [open EXCEPT ![t] = 0] /\ answer' = [answer EXCEPT ![t] = Unknown]
  /\ UNCHANGED cause

\* Nothing was opened, and nothing is cleaned up.
OpenFails(t) ==
  /\ run[t] = "open" /\ ~ Openable(t)
  /\ Ends(t, "fatal")
  /\ UNCHANGED <<engineVars, taskVars, record, diskVars, shared, faults>>

\* Manager.run's callback: a task that does not download any more takes no report.
\* What the task knew of its size is replaced by what this answer tells.
Report(t, n, len) ==
  IF st[t] = "downloading" THEN Reaches(t, "downloading", n, len) /\ MaySave(t)
                           ELSE UNCHANGED <<st, got, total, record, faults>>

\* All bytes that were expected are there: the server is not asked.
Fetched(t) == expected[t] > 0 /\ from[t] = expected[t]

\* The answer arrives, with Content-Length or a total in Content-Range, or without;
\* the first report follows.
Answer(t) ==
  /\ run[t] = "request" /\ ~ Fetched(t) /\ from[t] < Size
  /\ \E len \in {Unknown, Size} :
       answer' = [answer EXCEPT ![t] = len] /\ Report(t, from[t], len)
  /\ run' = [run EXCEPT ![t] = "body"]
  /\ UNCHANGED <<engineVars, path, expected, diskVars, from, open, pos, cause, shared>>

\* Only a file that was opened again is opened for appending.
Grown(t, len) == IF from[t] = 0 /\ pos[t] < len THEN len
                 ELSE IF from[t] = 0 THEN pos[t] + 1 ELSE len + 1

\* A cell arrives; progress is reported from time to time.
Write(t) ==
  /\ run[t] = "body" /\ pos[t] < Size
  /\ pos' = [pos EXCEPT ![t] = @ + 1]
  /\ file' = [file EXCEPT ![open[t]] =
                [by |-> IF @.len = 0 \/ @.by = t THEN t ELSE Several, len |-> Grown(t, @.len)]]
  /\ Report(t, pos'[t], answer[t]) \/ UNCHANGED <<st, got, total, record, faults>>
  /\ UNCHANGED <<engineVars, path, expected, work, final, run, from, open, answer, cause, shared>>

\* Changed: only the length the task expected is compared.
WholeAsExpected(t) == expected[t] > 0 => pos[t] = expected[t]

\* The body has ended where it should: where the answer said and where the task
\* expected.  If neither is known it may have ended anywhere.
Whole(t) ==
  /\ answer[t] >= 0 => pos[t] = answer[t]
  /\ expected[t] > 0 => pos[t] = expected[t]

\* Changed: the file is renamed over whatever has the final name.
Renames(t) ==
  /\ Exists(work, path[t])
  /\ final' = [final EXCEPT ![path[t]] = work[path[t]]]

\* publishCompletedFile: the check and the hard link, which replaces nothing.
HardLinks(t) ==
  /\ ~ Exists(final, path[t]) /\ Exists(work, path[t])
  /\ final' = [final EXCEPT ![path[t]] = work[path[t]]]

\* Sync, Close, and publishCompletedFile up to the link, after the last report.
Publish(t) ==
  /\ \/ run[t] = "request" /\ Fetched(t) /\ UNCHANGED <<st, got, total, record, faults>>
     \/ run[t] = "body" /\ Whole(t) /\ Report(t, pos[t], answer[t])
  /\ HardLinks(t)
  /\ run' = [run EXCEPT ![t] = "linked"]
  /\ open' = [open EXCEPT ![t] = 0]
  /\ UNCHANGED <<engineVars, path, expected, work, file, from, answer, pos, cause, shared>>

\* The work name goes, and Download returns the size.
Unlink(t) ==
  /\ run[t] = "linked"
  /\ work' = Removed(work, path[t])
  /\ run' = [run EXCEPT ![t] = "ok"]
  /\ UNCHANGED <<engineVars, taskVars, record, final, file, from, open, answer, pos, cause, shared, faults>>

\* Any other end of Download after the file was opened (an answer that is not the
\* requested range, an error of the network, the file system or the context, a
\* final file that is in the way) and its deferred cleanup.
Fails(t) ==
  /\ run[t] \in {"request", "body"}
  /\ \E e \in {"temporary", "fatal"} : Ends(t, e)
  /\ LET p == path[t] IN
     CASE cause[t] = "pause" -> UNCHANGED <<work, file>>
       [] cause[t] # "pause" /\ (cause[t] = "cancel" \/ from[t] = 0) ->
            work' = Removed(work, p) /\ UNCHANGED file
       [] cause[t] = "none" /\ from[t] > 0 ->
            /\ file' = IF Exists(work, p) THEN [file EXCEPT ![work[p]].len = from[t]] ELSE file
            /\ UNCHANGED work
  /\ UNCHANGED <<engineVars, taskVars, record, final, shared, faults>>

\* The rest of Manager.run, and scheduleRetryLocked when there are retries left.
Finish(t) ==
  /\ run[t] \in Ended
  /\ run' = [run EXCEPT ![t] = "none"]
  /\ from' = [from EXCEPT ![t] = 0] /\ pos' = [pos EXCEPT ![t] = 0]
  /\ answer' = [answer EXCEPT ![t] = Unknown]
  /\ cause' = [cause EXCEPT ![t] = "none"]
  /\ \/ st[t] # "downloading" /\ UNCHANGED <<st, got, total, record, work, faults>>
     \/ /\ st[t] = "downloading" /\ run[t] = "ok"
        /\ Reaches(t, "completed", pos[t], pos[t]) /\ MaySave(t) /\ UNCHANGED work
     \/ /\ st[t] = "downloading" /\ run[t] = "temporary"
        /\ Becomes(t, "queued", IF Usable(t) THEN Length(work, path[t]) ELSE 0) /\ MaySave(t)
        /\ work' = IF Usable(t) THEN work ELSE Removed(work, path[t])
     \/ /\ st[t] = "downloading" /\ run[t] # "ok"
        /\ Becomes(t, IF run[t] = "fatal" THEN "failed" ELSE "retryable", got[t])
        /\ MaySave(t) /\ UNCHANGED work
  /\ UNCHANGED <<engineVars, path, expected, final, file, open, shared>>

-----------------------------------------------------------------------------
(* The end of the process, and the next start.                             *)

\* Nothing of the process is left.
Down ==
  /\ engine' = "down" /\ next' = 1 /\ op' = "none" /\ opTask' = 0
  /\ st' = [t \in Tasks |-> "absent"]
  /\ path' = [t \in Tasks |-> 0]
  /\ got' = [t \in Tasks |-> 0]
  /\ total' = [t \in Tasks |-> Unknown] /\ expected' = [t \in Tasks |-> Unknown]
  /\ run' = [t \in Tasks |-> "none"]
  /\ from' = [t \in Tasks |-> 0]
  /\ open' = [t \in Tasks |-> 0]
  /\ answer' = [t \in Tasks |-> Unknown]
  /\ pos' = [t \in Tasks |-> 0]
  /\ cause' = [t \in Tasks |-> "none"]
  /\ UNCHANGED <<record, final, file, shared, faults>>

Crash == engine # "down" /\ Down /\ UNCHANGED work

Boot ==
  /\ engine = "down"
  /\ engine' = IF Last = 0 THEN "up" ELSE "loading"
  /\ UNCHANGED <<next, op, opTask, taskVars, record, diskVars, runVars, shared, faults>>

\* completedFileMatches: by the stored length, or else as the work file itself.
Matches(t, p) ==
  IF record[t].total > 0 THEN file[final[p]].len = record[t].total
                         ELSE Exists(work, p) /\ final[p] = work[p]

\* Changed: an interrupted task keeps the count that was stored.
JudgedTrusting(s, n, len, drops) ==
  [st |-> s, got |-> IF s = "paused" THEN record[next].got ELSE n, total |-> len, drops |-> drops]

Judged(s, n, len, drops) == [st |-> s, got |-> n, total |-> len, drops |-> drops]

\* reconcileStoredTask and reconcileInterruptedTask: the state, the count and the
\* length a record is given, and whether its work file is removed.
Verdict(t) ==
  LET r == record[t]
      p == r.path
      keeps(s, drops) == Judged(s, r.got, r.total, drops)
  IN CASE r.st \in Terminal -> keeps(r.st, TRUE)
       [] r.st \in Unfinished /\ Exists(final, p) /\ Matches(t, p) ->
            LET len == file[final[p]].len IN Judged("completed", len, len, TRUE)
       [] r.st \in Unfinished /\ Exists(final, p) /\ ~ Matches(t, p) -> keeps("failed", TRUE)
       [] r.st \in Unfinished /\ ~ Exists(final, p) /\ ~ Exists(work, p) ->
            keeps(IF r.got > 0 THEN "failed" ELSE "paused", FALSE)
       [] r.st \in Unfinished /\ ~ Exists(final, p) /\ Exists(work, p) ->
            IF r.total > 0 /\ Length(work, p) > r.total THEN keeps("failed", FALSE)
            ELSE Judged("paused", Length(work, p), r.total, FALSE)

Loads == next' = IF next = Last THEN 1 ELSE next + 1
Loaded == engine' = IF next = Last THEN "up" ELSE "loading"

\* restore takes the records by their keys.
Reconcile ==
  /\ engine = "loading" /\ record[next].st # "absent"
  /\ LET v == Verdict(next) IN
       /\ Reaches(next, v.st, v.got, v.total) /\ Expects(next, record[next].total)
       /\ path' = [path EXCEPT ![next] = record[next].path]
       /\ work' = IF v.drops THEN Removed(work, record[next].path) ELSE work
       /\ Saved(next, record[next].path)
  /\ Loads /\ Loaded
  /\ UNCHANGED <<op, opTask, final, file, runVars, shared, faults>>

\* The process ends after the removal of a work file and before the save, or the
\* save fails and ends the start.
ReconcileBreaks ==
  /\ engine = "loading" /\ record[next].st # "absent" /\ Verdict(next).drops
  /\ work' = Removed(work, record[next].path)
  /\ Down

Skip ==
  /\ engine = "loading" /\ record[next].st = "absent"
  /\ Loads /\ Loaded
  /\ UNCHANGED <<op, opTask, taskVars, record, diskVars, runVars, shared, faults>>

-----------------------------------------------------------------------------
(* Other programs.                                                         *)

\* A file of the user appears under a final name, or one goes away.
ForeignFile ==
  /\ Fault
  /\ \E p \in Paths, i \in Unused, n \in {1, Size} :
       /\ ~ Exists(final, p)
       /\ final' = [final EXCEPT ![p] = i]
       /\ file' = [file EXCEPT ![i] = [by |-> Foreign, len |-> n]]
  /\ UNCHANGED <<engineVars, taskVars, record, work, runVars, shared>>

UserRemoves ==
  /\ Fault
  /\ \E p \in Paths : Exists(final, p) /\ final' = Removed(final, p)
  /\ UNCHANGED <<engineVars, taskVars, record, work, file, runVars, shared>>

Operation(t) == Create(t) \/ Pause(t) \/ Cancel(t) \/ Resume(t) \/ Retry(t) \/ Delete(t)

Transfer(t) ==
  \/ Start(t) \/ CreateWorkFile(t) \/ ReopenWorkFile(t) \/ OpenFails(t)
  \/ Answer(t) \/ Write(t) \/ Publish(t) \/ Unlink(t) \/ Fails(t) \/ Finish(t)

Next ==
  \/ \E t \in Tasks : Operation(t) \/ Transfer(t)
  \/ PauseReturns \/ CancelReturns \/ DeleteReturns
  \/ Crash \/ Boot \/ Reconcile \/ ReconcileBreaks \/ Skip
  \/ ForeignFile \/ UserRemoves

Spec == Init /\ [][Next]_vars

-----------------------------------------------------------------------------
(* Properties.                                                             *)

Deletes == op' = "delete" /\ op # "delete"

\* A file under a final name is never replaced, changed or removed, whoever it is
\* from, but by Delete and the user: publication, cleanup, retries and restarts
\* keep away from it (README.md:372), although it may appear between any two of
\* their steps.
FinalsKept ==
  [][\A p \in Paths \ shared :
       Exists(final, p) /\ ~ Deletes /\ ~ UserRemoves =>
         final'[p] = final[p] /\ file'[final[p]] = file[final[p]]]_vars

Publishes(t) == run[t] # "linked" /\ run'[t] = "linked"

\* The length was told, by the request, an earlier answer or this one.
Told(t) == expected[t] > 0 \/ answer[t] > 0

\* What t publishes is its own file, as long as t has counted, and the whole of the
\* remote one if its length was told.
OwnFile(t) ==
  Publishes(t) => LET f == file[final'[path[t]]] IN
                  f.by = t /\ f.len = pos[t] /\ (Told(t) => f.len = Size)

\* What a transfer publishes is its own file, with every byte it has counted and no
\* other: no bytes of another task or of an earlier attempt that was cut short,
\* through resumptions, retries and restarts, except where Retry took another
\* task's path or work file.  It is the whole remote file if the length was told.
PublishesOwn == [][\A t \in Tasks : path[t] \notin shared => OwnFile(t)]_vars

\* README.md:348 says of Retry that it checks the work file again and keeps only
\* verified bytes, so that no wrong content is spliced.
NeverSpliced == [][\A t \in Tasks : OwnFile(t)]_vars

\* Two unfinished tasks have one path only where Retry put them together or where a
\* record that could not be saved still had the path when it was chosen: the choice
\* of a destination, retries of a transfer and restarts never do.
OnePathOneTask ==
  \A t, u \in Tasks : t # u /\ Live(t) /\ Live(u) /\ path[t] = path[u] => path[t] \in shared

\* A restart completes a task with a file that the task wrote and nobody else: not
\* with what another task published under the name before or after, and not with a
\* file of the user, unless that has the length that was stored.
RestoredIsOwn ==
  [][\A t \in Tasks :
       LET r == record[t]
           f == file[final[r.path]]
       IN engine = "loading" /\ next = t /\ r.st \in Unfinished /\ r.path \notin shared
            /\ st'[t] = "completed"
          => f.by = t \/ (f.by = Foreign /\ f.len = r.total)]_vars

\* README.md:374 says that a start restores a task as completed if the process ended
\* after the file was published and before the completed state was stored.
PublishedIsCompleted ==
  [][\A t \in Tasks :
       LET r == record[t]
       IN engine = "loading" /\ next = t /\ r.st \in Unfinished
            /\ Exists(final, r.path) /\ file[final[r.path]].by = t
          => st'[t] \in {"completed", "absent"}]_vars

\* README.md:372 says that a pause keeps the parts for a later continuation, and
\* README.md:374 that a start returns the task as one that can be continued.
PartsSurvive ==
  [][\A t \in Tasks :
       LET p == record[t].path
       IN engine = "loading" /\ record[t].st = "paused"
            /\ Exists(work, p) /\ file[work[p]].by = t /\ ~ Exists(final, p)
          => work'[p] = work[p]]_vars

\* No other task, finished ones included, has the path of t.
Alone(t) == path[t] \notin shared /\ \A u \in Tasks \ {t} : path[u] # path[t]

PartsAgree ==
  \A t \in Tasks : st[t] = "paused" /\ Alone(t) => got[t] = Length(work, path[t])

\* When a start ends, however often the ones before it were cut short, a paused task
\* has the progress its work file has (README.md:374), so that Resume accepts it: no
\* clean-up of another record took the file away after the task was judged.  The
\* record of a finished task of the same path does (persistence.go:94).
RestartAgrees == [][engine = "loading" /\ engine' = "up" => PartsAgree']_vars

\* A running engine has a task exactly for every record, whatever saves and deletions
\* failed: a deleted task does not come back with the next start, and none is lost.
NoGhosts ==
  engine = "up" => \A t \in Tasks : st[t] = "absent" <=> record[t].st = "absent"
=============================================================================
