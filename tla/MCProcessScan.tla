--------------------------- MODULE MCProcessScan ---------------------------
(* Values for ProcessScan under TLC: two pids, running or sleeping.        *)
EXTENDS ProcessScan, TLC

CONSTANTS p1, p2

MCPids     == {p1, p2}
MCStates   == {"R", "S"}
MCFilters  == SUBSET MCStates
MCLimits   == {0, 1}
MCSymmetry == Permutations(MCPids)
=============================================================================
