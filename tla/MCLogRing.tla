----------------------------- MODULE MCLogRing -----------------------------
(* Values for LogRing under TLC: entries are errors or information, and    *)
(* log_init may leave only errors.                                         *)
EXTENDS LogRing, TLC

CONSTANTS t1, t2, s1, s2

MCThreads == {t1, t2}
TwoSinks  == {s1, s2}
MCLevels  == {0, 2}

\* Threads and sinks are interchangeable: no definition tells them apart.
MCSymmetry == Permutations(MCThreads) \cup Permutations(TwoSinks)
=============================================================================
