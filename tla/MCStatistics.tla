---------------------------- MODULE MCStatistics ----------------------------
(* Values of the constants of Statistics for TLC.  On short inputs the 95th *)
(* percentile is the largest number; lower ones reach the other ranges.     *)
EXTENDS Statistics

MixedSigns  == {-1, 2, 3}
Positive    == {1, 2}
LowAndHigh  == {20, 50, 95}
=============================================================================
