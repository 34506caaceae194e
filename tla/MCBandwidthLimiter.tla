-------------------------- MODULE MCBandwidthLimiter --------------------------
(* Instance of BandwidthLimiter for TLC. *)
EXTENDS BandwidthLimiter

CONSTANTS c1, c2

TwoConns == {c1, c2}

\* No limit, a limit below the least burst, and one above it.
ThreeRates == {0, 1, 3}
=============================================================================
