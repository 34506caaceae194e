---------------------------- MODULE TaskLifecycle ----------------------------
(***************************************************************************)
(* What the task service promises its clients about the states of tasks,   *)
(* whatever the queue, the slots, the retries and the transfers behind     *)
(* them do: the moves a client may observe, and that closing the engine    *)
(* brings every active task to rest and freezes all states.                *)
(***************************************************************************)
CONSTANT Tasks

VARIABLES state, closed

Active == {"queued", "downloading", "retrying"}

\* A task that is queued may be seen as downloading at once, if a slot is free.
Moves ==
  ({"absent", "retrying", "paused", "failed"} \X {"queued", "downloading"})
  \cup {<<"queued", "downloading">>}
  \cup ({"downloading"} \X {"retrying", "completed", "failed"})
  \cup (Active \X {"paused"})
  \cup ((Active \cup {"paused"}) \X {"canceled"})
  \cup ({"completed", "failed", "canceled"} \X {"absent"})

Init == state = [t \in Tasks |-> "absent"] /\ closed = FALSE

Step ==
  /\ ~ closed /\ closed' = FALSE
  /\ \A t \in Tasks : state'[t] # state[t] => <<state[t], state'[t]>> \in Moves

Close ==
  /\ ~ closed /\ closed' = TRUE
  /\ \A t \in Tasks :
       /\ state'[t] # state[t] => state[t] \in Active /\ state'[t] = "paused"
       /\ state'[t] \notin {"downloading", "retrying"}

Spec == Init /\ [][Step \/ Close]_<<state, closed>>
=============================================================================
