----------------------------- MODULE MCTaskEvents -----------------------------
(* An instance of TaskEvents for TLC. *)
EXTENDS TaskEvents

CONSTANTS a, b

TwoTasks == {a, b}

\* The tasks are alike, so one of two initial states that differ by their names does.
Rank(kind) == CHOOSE i \in 1..4 : kind = <<"none", "waiting", "running", "completed">>[i]
MCInit == Init /\ Rank(task[a].kind) <= Rank(task[b].kind)
MCSpec == MCInit /\ [][Next]_vars /\ Fairness

\* The shutdown begins when no answer is under way: what an answer changes is the
\* client's list, of which nothing is asked from then on.
AnswersFirst == engine = "serving" \/ answer = NoAnswer
=============================================================================
