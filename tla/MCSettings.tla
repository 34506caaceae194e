------------------------------ MODULE MCSettings ------------------------------
(* Instances of Settings for TLC. *)
EXTENDS Settings

CONSTANTS p1, p2, d1, d2, s1, s2, x1, x2, f, bt, w

TwoPuts == {p1, p2}

\* Two directories, two values of the scheduler and of the proxy.
TwoValues == [directory |-> {d1, d2}, policy |-> {f}, scheduler |-> {s1, s2}, proxy |-> {x1, x2}, bt |-> {bt}]
FirstStart == [directory |-> d1, policy |-> f, scheduler |-> s1, proxy |-> x1, bt |-> bt]
=============================================================================
