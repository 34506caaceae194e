----------------------------- MODULE MCTaskFiles -----------------------------
(* Instances of TaskFiles for TLC. *)
EXTENDS TaskFiles

OnePath    == {1}
FourInodes == 1..4
FirstTwo   == {1, 2}
Outer      == {1, 3}

(* The properties say nothing more of a path that tasks share, and there is one. *)
Exclusive == shared = {}

(* States that differ only in what nothing depends on are one: the number of an  *)
(* inode, a file without a name that is not open, and the count of a task and of  *)
(* a record of an exclusive path where nothing compares it with anything but 0.   *)
Name(i) ==
  CASE i = 0 -> 0
    [] i # 0 /\ \E p \in Paths : work[p] = i -> 10 + CHOOSE p \in Paths : work[p] = i
    [] i # 0 /\ ~ (\E p \in Paths : work[p] = i) /\ (\E p \in Paths : final[p] = i) ->
         20 + CHOOSE p \in Paths : final[p] = i
    [] OTHER -> 30 + CHOOSE t \in Tasks : open[t] = i

Content(i) == IF i = 0 THEN [by |-> Nobody, len |-> 0] ELSE file[i]

Count(t) ==
  IF st[t] \in {"queued", "paused"} THEN got[t]
  ELSE IF st[t] = "downloading" /\ got[t] > 0 THEN 1 ELSE 0

\* Of a length, only whether it is known, and only while something may ask.
Known(s, len) == s \in Unfinished \cup {"retryable"} /\ len > 0

Wanted(t) == (st[t] \in {"queued", "downloading"} \/ run[t] # "none") /\ expected[t] > 0

Visible ==
  <<engineVars, st, path, [t \in Tasks |-> <<Count(t), Known(st[t], total[t]), Wanted(t)>>],
    [t \in Tasks |-> LET r == record[t]
                     IN <<r.st, r.path, r.st \in Unfinished /\ r.got > 0, Known(r.st, r.total)>>],
    [p \in Paths |-> <<Name(work[p]), Content(work[p]), Name(final[p]), Content(final[p])>>],
    [t \in Tasks |-> <<Name(open[t]), Content(open[t])>>],
    run, from, answer, pos, cause, shared, faults>>
=============================================================================
