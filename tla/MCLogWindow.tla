---------------------------- MODULE MCLogWindow ----------------------------
(* Values for LogWindow under TLC: the UI thread and one background thread *)
(* (a remote action); entries are errors or information.                  *)
EXTENDS LogWindow

CONSTANTS ui, worker

MCThreads == {ui, worker}
MCSinks   == {bridge}
MCLevels  == {0, 2}
=============================================================================
