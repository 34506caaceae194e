--------------------------- MODULE DownloadContract ---------------------------
(***************************************************************************)
(* What a user may rely on for the file of one download, through pauses,   *)
(* failures, crashes and restarts: it appears once, as a whole, and no     *)
(* state contradicts it.                                                   *)
(***************************************************************************)

VARIABLES
  task,  \* the state of the task, "retryable" for a failure that may be retried
  file   \* the final file

vars == <<task, file>>

Init == task = "queued" /\ file = "none"

Moves(from, to) == task = from /\ task' = to /\ UNCHANGED file

\* A transfer starts and starts over while there is no file.
Start == file = "none" /\ Moves("queued", "downloading")

\* An operation that comes too late does not stop the publication.
Publish ==
  /\ task \in {"downloading", "paused", "canceled"}
  /\ file = "none" /\ file' = "complete"
  /\ UNCHANGED task

End ==
  \/ file = "complete" /\ Moves("downloading", "completed")
  \/ file = "none" /\ \E to \in {"queued", "failed", "retryable"} : Moves("downloading", to)

User ==
  \/ \E from \in {"queued", "downloading"} : Moves(from, "paused")
  \/ \E from \in {"queued", "downloading", "paused"} : Moves(from, "canceled")
  \/ file = "none" /\ \E from \in {"paused", "retryable"} : Moves(from, "queued")

\* A restart ends what was going on, and recognizes the file.
Restart ==
  \E from \in {"queued", "downloading", "paused"} :
    \/ file = "complete" /\ Moves(from, "completed")
    \/ file = "none" /\ \E to \in {"paused", "failed"} : Moves(from, to)

Next == Start \/ Publish \/ End \/ User \/ Restart

Spec == Init /\ [][Next]_vars
=============================================================================
