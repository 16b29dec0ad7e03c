---------------------------- MODULE MCRunCommand ----------------------------
(* Values for RunCommand under TLC: two runs at once.                      *)
EXTENDS RunCommand, TLC

CONSTANTS r1, r2

MCRuns        == {r1, r2}
MCAssignments == {r1 :> "ssh" @@ r2 :> "telnet"}
MCTexts       == {"row"}
MCDescriptors == 0 .. 7
=============================================================================
