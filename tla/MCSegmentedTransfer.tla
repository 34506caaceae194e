-------------------------- MODULE MCSegmentedTransfer --------------------------
(* Instances of SegmentedTransfer for TLC. *)
EXTENDS SegmentedTransfer, TLC

CONSTANTS s1, s2, s3

TwoSegments   == {s1, s2}
ThreeSegments == {s1, s2, s3}
OneCell       == [s \in TwoSegments |-> 1]
UnevenCells   == [s \in ThreeSegments |-> IF s = s1 THEN 2 ELSE 1]

\* Sound: the two segments have the same length.
Symmetry == Permutations({s2, s3})
=============================================================================
