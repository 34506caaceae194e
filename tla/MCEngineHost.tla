----------------------------- MODULE MCEngineHost -----------------------------
(* Instances of EngineHost for TLC. *)
EXTENDS EngineHost

CONSTANTS c1, c2, c3, r1, r2

TwoCallers   == {c1, c2}
ThreeCallers == {c1, c2, c3}

\* A caller refers to one run at most: with two runs, two callers may hold up
\* the launch of a third one until they have returned.
TwoRuns == {r1, r2}
=============================================================================
