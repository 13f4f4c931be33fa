---------------------------- MODULE MCStatistics ----------------------------
(* Statistics for TLC.                                                      *)
EXTENDS Statistics

\* Below, at, between and above the ends of the scale.
AskedFor == {-1, 0, 10, 333, 500, 950, 999, 1000, 1001}
=============================================================================
