------------------------------ MODULE MCAlert ------------------------------
(* Values for Alert under TLC: a metric reads 0 or 1 against a threshold   *)
(* that is off (0) or 1; a breach must last 2 seconds or none.             *)
EXTENDS Alert

MCMetrics    == {"cpu", "mem"}
MCValues     == {0, 1}
MCThresholds == {0, 1}
MCSustains   == {-1, 2}
=============================================================================
