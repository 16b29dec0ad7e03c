--------------------------- MODULE MCSavedTargets ---------------------------
(* Values for SavedTargets under TLC: two names, one with all characters   *)
(* that are escaped, a target with a port and a password and one without.  *)
EXTENDS SavedTargets

const_DefaultPort == [p \in Protocols |-> IF p = "telnet" THEN 23 ELSE 21]

\* Names with the characters that are escaped, and with letters of an escape.
Plain  == <<"a", "n">>
Quoted == <<BS, DQ, "LF", "TAB", "t">>
const_Names == {Plain, Quoted}

Files == [protocol |-> "ftp", port |-> 7, password |-> "pw"]
Login == [protocol |-> "telnet", port |-> 0, password |-> ""]
const_RunTargets == {Files, Login}

A == [name |-> Plain, target |-> Files]
B == [name |-> Quoted, target |-> Login]
const_FirstLists == {<<A>>, <<A, B>>}
=============================================================================
