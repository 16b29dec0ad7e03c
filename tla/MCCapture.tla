------------------------------ MODULE MCCapture ------------------------------
(***************************************************************************)
(* Half a second is a unit.  The CLI captures for 1.5 s, or until it is    *)
(* stopped, at an interval of 1.5 s.  The Qt program has timers of 1.5 s   *)
(* and 1 s, and the user may set both to half a second; a timer may be     *)
(* half a second early or late, and one refresh or reading may fail.       *)
(***************************************************************************)
EXTENDS Capture
=============================================================================
