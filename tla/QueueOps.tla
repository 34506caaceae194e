------------------------------- MODULE QueueOps -------------------------------
(* Operators on a queue, which is a sequence. *)
EXTENDS Integers, Sequences, SequencesExt

\* The elements of q that are in S, in their order.  It is SelectSeq with a set
\* for its test, as a recursive function: a proof cannot expand SelectSeq.
KeepOnly(q, S) ==
  LET kept[n \in 0..Len(q)] ==
        IF n = 0 THEN <<>>
        ELSE IF q[n] \in S THEN Append(kept[n - 1], q[n]) ELSE kept[n - 1]
  IN  kept[Len(q)]

\* No element of q is at two places.
Distinct(q) == \A i, j \in 1..Len(q) : q[i] = q[j] => i = j

\* a stands in q, and b does not stand before it.
WaitsAhead(q, a, b) == \E i \in 1..Len(q) : q[i] = a /\ \A j \in 1..i : q[j] # b
=============================================================================
