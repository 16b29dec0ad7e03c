--------------------------- MODULE MCLocalMonitor ---------------------------
(* Values for LocalMonitor under TLC: refreshes every half second to two   *)
(* seconds, a breach that must last a second or none at all.               *)
EXTENDS LocalMonitor

MCIntervals  == {1, 2}
OneSortMode  == {"SORT_CPU"}
MCReadings   == {0, 1}
MCThresholds == {0, 1}
MCSustains   == {0, 1}
=============================================================================
