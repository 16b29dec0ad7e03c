------------------------------ MODULE AlertOps ------------------------------
(***************************************************************************)
(* The arithmetic of monitoring_alert.c on one metric (CPU or memory):     *)
(* the fields of NeoAlertState that belong to the metric, and what         *)
(* evaluate_one does to them.  No state of its own; Alert and LocalMonitor *)
(* build their actions from it.                                            *)
(***************************************************************************)
EXTENDS Integers

\* The three fields NeoAlertState keeps for one metric.
AlertState == [breached : BOOLEAN, start : Nat, fired : BOOLEAN]

\* Mutant: the start time is initialised to a sentinel.
AlertStateInitSentinel == [breached |-> FALSE, start |-> -1, fired |-> FALSE]

\* alert_state_init: memset of the whole structure.
AlertStateInit == [breached |-> FALSE, start |-> 0, fired |-> FALSE]

\* A negative --alert-duration counts as zero.
SustainOf(seconds) == IF seconds > 0 THEN seconds ELSE 0

\* The reading counts against an enabled threshold (zero or less is "off").
IsOver(value, threshold) == threshold > 0 /\ value >= threshold

\* Mutant: a new breach does not restart the window.
EvaluateOneStaleStart(s, value, threshold, sustain, now) ==
    IF IsOver(value, threshold)
    THEN [breached |-> TRUE, start |-> s.start,
          fired |-> (s.breached /\ s.fired) \/ now - s.start >= sustain]
    ELSE [breached |-> FALSE, start |-> s.start, fired |-> FALSE]

\* Mutant: every reading over the threshold restarts the window.
EvaluateOneRestarts(s, value, threshold, sustain, now) ==
    IF IsOver(value, threshold)
    THEN [breached |-> TRUE, start |-> now,
          fired |-> (s.breached /\ s.fired) \/ 0 >= sustain]
    ELSE [breached |-> FALSE, start |-> s.start, fired |-> FALSE]

\* Mutant: the end of an episode does not clear the fired flag.
EvaluateOneStaysFired(s, value, threshold, sustain, now) ==
    LET start == IF s.breached THEN s.start ELSE now
        fired == s.breached /\ s.fired
    IN  IF IsOver(value, threshold)
        THEN [breached |-> TRUE, start |-> start,
              fired |-> fired \/ now - start >= sustain]
        ELSE [breached |-> FALSE, start |-> s.start, fired |-> s.fired]

(***************************************************************************)
(* evaluate_one.  A reading under the threshold, or a disabled threshold,  *)
(* ends the episode; the first reading over it starts one at `now`; an     *)
(* episode that already fired stays fired; one that lasted `sustain`       *)
(* whole seconds fires.  The start of an ended episode is left as it was.  *)
(***************************************************************************)
EvaluateOne(s, value, threshold, sustain, now) ==
    LET start == IF s.breached THEN s.start ELSE now
        fired == s.breached /\ s.fired
    IN  IF IsOver(value, threshold)
        THEN [breached |-> TRUE,
              start    |-> start,
              fired    |-> fired \/ now - start >= sustain]
        ELSE [breached |-> FALSE, start |-> s.start, fired |-> FALSE]

\* Mutant: the bit is returned for as long as the alert stands.
NewlyFiredWhileStanding(s, t) == t.fired

\* Mutant: only an episode that began earlier can fire.
NewlyFiredNotAtOnce(s, t) == t.fired /\ s.breached /\ ~s.fired

\* The value evaluate_one returns for the change from s to t: t has just fired.
NewlyFired(s, t) == t.fired /\ ~(s.breached /\ s.fired)
=============================================================================
