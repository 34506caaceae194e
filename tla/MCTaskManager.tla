---------------------------- MODULE MCTaskManager ----------------------------
(* Instances of TaskManager for TLC. *)
EXTENDS TaskManager, TLC

CONSTANTS h1, h2, h3, b1

HttpTasks  == {h1, h2}
ThreeTasks == {h1, h2, h3}
MixedTasks == {h1, b1}
BTTasks    == {b1}
NoBT       == {}

\* Sound: HTTP tasks enter the specification only through Tasks.
Symmetry3  == Permutations(ThreeTasks)

OneLimit   == {1}
TwoLimits  == {1, 2}
NoRetry    == {0}
OneRetry   == {0, 1}
JustOneRetry == {1}
TwoStamps  == {1, 2}
OneStamp   == {1}
=============================================================================
