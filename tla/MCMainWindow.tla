---------------------------- MODULE MCMainWindow ----------------------------
(* Values for MainWindow under TLC: two orders of the table.               *)
EXTENDS MainWindow

MCSortModes  == {"SORT_CPU", "SORT_MEM"}
=============================================================================
