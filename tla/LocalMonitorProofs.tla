------------------------- MODULE LocalMonitorProofs -------------------------
(***************************************************************************)
(* What run_local_monitor promises for any intervals, sort modes, readings *)
(* and thresholds and any number of signals: it leaves the terminal as it  *)
(* found it and its exit code never hides an alert, it shows the order     *)
(* last asked for, and it begins no refresh once told to stop.             *)
(*                                                                         *)
(* The invariant adds what the handlers rely on: until ui_setup has run    *)
(* nothing is to be restored and nothing has fired, alert_ever_fired and   *)
(* the calls of alert_dispatch agree at every step, not only at the exit,  *)
(* and the screen already is in the configured order when a wait is due.   *)
(***************************************************************************)
EXTENDS LocalMonitor, TLAPS

-----------------------------------------------------------------------------
(* The invariant.                                                          *)

\* Where the loop is, and what became of the terminal.
ControlInv ==
    /\ pc \in {"start", "check", "refresh", "alert", "output", "wait", "waiting",
               "leave", "exit"}
    /\ running \in BOOLEAN
    /\ interrupted \in BOOLEAN
    /\ signals \in 0 .. MaxSignals
    /\ terminal \in {Cooked, Raw}
    /\ pc = "start" => terminal = Cooked
    /\ TerminalRestored

\* The configuration stays within the limits and is what the screen shows.
Config == [interval : MIN_INTERVAL .. MAX_INTERVAL, sort_mode : SortModes,
           reverse : BOOLEAN]
ConfigInv ==
    /\ config \in Config
    /\ interval \in MIN_INTERVAL .. MAX_INTERVAL
    /\ pc \in {"wait", "waiting"} => screen = <<config.sort_mode, config.reverse>>

\* The clock does not go back.
ClockInv ==
    /\ clock \in Nat
    /\ until \in Nat
    /\ last_refresh \in Nat \cup {-1}
    /\ last_refresh <= clock
    /\ pc = "start" => last_refresh = -1
    /\ failed \in BOOLEAN
    /\ elapsed \in Nat \cup {-1}

\* The alerts, and what became of them in the exit code.
AlertsInv ==
    /\ threshold \in [Metrics -> Nat]
    /\ sustain \in Nat
    /\ alert \in [Metrics -> AlertState]
    /\ ever_fired \in BOOLEAN
    /\ exit_code \in {EXIT_SUCCESS, EXIT_FAILURE, NEO_EXIT_ALERT}
    /\ dispatched \subseteq Metrics
    /\ ever_fired <=> dispatched # {}
    /\ pc = "start" => ~ever_fired
    /\ ExitTellsFiredAlerts

IInv == ControlInv /\ ConfigInv /\ ClockInv /\ AlertsInv

LEMMA InvIsEnough == ASSUME IInv PROVE LeavesInOrder /\ ScreenFollowsKeys
  <1>1. TypeOK
    <2>1. pc \in {"start", "check", "refresh", "alert", "output", "wait", "waiting",
                  "leave", "exit"}
          /\ running \in BOOLEAN /\ interrupted \in BOOLEAN /\ signals \in 0 .. MaxSignals
          /\ terminal \in {Cooked, Raw}
      BY DEF IInv, ControlInv
    <2>2. /\ config \in [interval : MIN_INTERVAL .. MAX_INTERVAL, sort_mode : SortModes,
                         reverse : BOOLEAN]
          /\ interval \in MIN_INTERVAL .. MAX_INTERVAL
      BY DEF IInv, ConfigInv, Config
    <2>3. /\ clock \in Nat /\ until \in Nat /\ elapsed \in Nat \cup {-1}
          /\ failed \in BOOLEAN
      BY DEF IInv, ClockInv
    <2>4. /\ alert \in [Metrics -> AlertState] /\ ever_fired \in BOOLEAN
          /\ exit_code \in {EXIT_SUCCESS, EXIT_FAILURE, NEO_EXIT_ALERT}
          /\ dispatched \subseteq Metrics
      BY DEF IInv, AlertsInv
    <2> QED
      BY <2>1, <2>2, <2>3, <2>4 DEF TypeOK
  <1>2. TerminalRestored /\ ExitTellsFiredAlerts /\ ScreenFollowsKeys
    BY DEF IInv, ControlInv, ConfigInv, AlertsInv, ScreenFollowsKeys
  <1> QED
    BY <1>1, <1>2 DEF LeavesInOrder

-----------------------------------------------------------------------------
(* Control and terminal.                                                   *)

\* However it was set up, ui_restore leaves the terminal cooked.
LEMMA RestoreCooks ==
    ASSUME terminal \in {Cooked, Raw}, UiRestore
    PROVE  terminal' = Cooked
  <1>1. CASE terminal.configured
    BY <1>1 DEF UiRestore
  <1>2. CASE ~terminal.configured
    <2>1. Raw.configured
      BY DEF Raw
    <2>2. terminal = Cooked
      BY <1>2, <2>1
    <2> QED
      BY <1>2, <2>2 DEF UiRestore
  <1> QED
    BY <1>1, <1>2

LEMMA ControlKept ==
    ASSUME ControlInv, [Next]_vars
    PROVE  ControlInv'
  <1> USE DEF ControlInv, TerminalRestored
  <1>1. CASE Start
    BY <1>1 DEF Start
  <1>2. CASE Check
    BY <1>2 DEF Check
  <1>3. CASE Refresh
    BY <1>3 DEF Refresh
  <1>4. CASE \E reading \in [Metrics -> Readings] : Alerts(reading)
    BY <1>4 DEF Alerts
  <1>5. CASE Output
    BY <1>5, RestoreCooks DEF Output
  <1>6. CASE BeginWait
    BY <1>6 DEF BeginWait
  <1>7. CASE WaitEnds
    BY <1>7 DEF WaitEnds
  <1>8. CASE Leave
    BY <1>8, RestoreCooks DEF Leave
  <1>9. CASE KeyQuit \/ KeyForce \/ KeyUnknown
    BY <1>9 DEF KeyQuit, KeyForce, KeyUnknown, KeyArrives
  <1>10. CASE Signal
    <2>1. signals' \in 0 .. MaxSignals
      <3>1. signals < MaxSignals /\ signals' = signals + 1
        BY <1>10 DEF Signal
      <3>2. MaxSignals \in Nat
        BY MonitorAssumption
      <3> QED
        BY <3>1, <3>2
    <2>2. interrupted' \in BOOLEAN
      BY <1>10, Zenon DEF Signal
    <2> QED
      BY <1>10, <2>1, <2>2 DEF Signal
  <1>11. CASE UNCHANGED vars
    BY <1>11 DEF vars
  <1> QED
    BY <1>1, <1>2, <1>3, <1>4, <1>5, <1>6, <1>7, <1>8, <1>9, <1>10, <1>11 DEF Next, Program

-----------------------------------------------------------------------------
(* The configuration.                                                      *)

\* A key doubles or halves the interval within its limits.
LEMMA ForcedInLimits ==
    ASSUME config \in Config, NEW c \in ForcedConfigs
    PROVE  c \in Config
  <1>1. /\ MIN_INTERVAL \in Nat \ {0} /\ MAX_INTERVAL \in Nat
        /\ config.interval \in MIN_INTERVAL .. MAX_INTERVAL
        /\ config.sort_mode \in SortModes /\ config.reverse \in BOOLEAN
    BY MonitorAssumption DEF Config
  <1>2. CASE c = config
    BY <1>2
  <1>3. CASE c = Slower
    <2>1. PICK i : i = IF config.interval * 2 > MAX_INTERVAL THEN MAX_INTERVAL
                                                             ELSE config.interval * 2
      OBVIOUS
    <2>2. i \in MIN_INTERVAL .. MAX_INTERVAL
      BY <1>1, <2>1
    <2>3. c = [config EXCEPT !.interval = i]
      BY <1>3, <2>1, Zenon DEF Slower
    <2> QED
      BY <2>2, <2>3 DEF Config
  <1>4. CASE c = Faster
    <2>1. PICK i : i = IF config.interval \div 2 < MIN_INTERVAL THEN MIN_INTERVAL
                                                                ELSE config.interval \div 2
      OBVIOUS
    <2>2. i \in MIN_INTERVAL .. MAX_INTERVAL
      BY <1>1, <2>1
    <2>3. c = [config EXCEPT !.interval = i]
      BY <1>4, <2>1, Zenon DEF Faster
    <2> QED
      BY <2>2, <2>3 DEF Config
  <1>5. CASE c = [config EXCEPT !.reverse = ~@]
    BY <1>5 DEF Config
  <1>6. CASE \E m \in SortModes : c = [config EXCEPT !.sort_mode = m]
    BY <1>6 DEF Config
  <1> QED
    BY <1>2, <1>3, <1>4, <1>5, <1>6 DEF ForcedConfigs

LEMMA ConfigKept ==
    ASSUME ConfigInv, [Next]_vars
    PROVE  ConfigInv'
  <1> USE DEF ConfigInv
  <1>1. CASE Start
    BY <1>1 DEF Start, history
  <1>2. CASE Check \/ Refresh \/ Leave
    BY <1>2 DEF Check, Refresh, Leave, history
  <1>3. CASE \E reading \in [Metrics -> Readings] : Alerts(reading)
    BY <1>3 DEF Alerts
  <1>4. CASE Output
    BY <1>4 DEF Output
  <1>5. CASE BeginWait
    BY <1>5 DEF BeginWait, history
  <1>6. CASE WaitEnds \/ KeyUnknown \/ KeyQuit
    BY <1>6 DEF WaitEnds, KeyUnknown, KeyQuit, KeyArrives, history, Config
  <1>7. CASE KeyForce
    <2>1. config' \in Config
      BY <1>7, ForcedInLimits DEF KeyForce
    <2> QED
      BY <1>7, <2>1 DEF KeyForce, KeyArrives
  <1>8. CASE Signal \/ UNCHANGED vars
    BY <1>8 DEF Signal, vars, history
  <1> QED
    BY <1>1, <1>2, <1>3, <1>4, <1>5, <1>6, <1>7, <1>8 DEF Next, Program

-----------------------------------------------------------------------------
(* Time.                                                                   *)

LEMMA ClockKept ==
    ASSUME ClockInv, ConfigInv, [Next]_vars
    PROVE  ClockInv'
  <1> USE DEF ClockInv
  <1>1. CASE Start \/ Check \/ Leave \/ Signal \/ UNCHANGED vars
    BY <1>1 DEF Start, Check, Leave, Signal, vars, history
  <1>2. CASE Refresh
    BY <1>2 DEF Refresh
  <1>3. CASE \E reading \in [Metrics -> Readings] : Alerts(reading)
    BY <1>3 DEF Alerts
  <1>4. CASE Output
    BY <1>4 DEF Output
  <1>5. CASE BeginWait
    <2>1. config.interval \in Nat
      BY MonitorAssumption DEF ConfigInv, Config
    <2>2. until' \in Nat
      <3>1. PICK i \in Nat : i = config.interval
        BY <2>1
      <3>2. (i \div Second) * Second \in Nat /\ Second \in Nat
        BY DEF Second
      <3>3. \E d \in Nat : until' = clock + d
        BY <1>5, <3>1, <3>2 DEF BeginWait
      <3> QED
        BY <3>3
    <2> QED
      BY <1>5, <2>2 DEF BeginWait, history
  <1>6. CASE WaitEnds
    BY <1>6 DEF WaitEnds, history
  <1>7. CASE KeyQuit \/ KeyForce \/ KeyUnknown
    BY <1>7 DEF KeyQuit, KeyForce, KeyUnknown, KeyArrives, history
  <1> QED
    BY <1>1, <1>2, <1>3, <1>4, <1>5, <1>6, <1>7 DEF Next, Program

-----------------------------------------------------------------------------
(* The alerts.                                                             *)

\* evaluate_one makes a metric's state from a metric's state.
LEMMA EvaluateOneType ==
    ASSUME NEW s \in AlertState, NEW value \in Nat, NEW limit \in Nat,
           NEW window \in Nat, NEW now \in Nat
    PROVE  EvaluateOne(s, value, limit, window, now) \in AlertState
  BY DEF EvaluateOne, AlertState, IsOver

LEMMA AlertsKeptByAlerts ==
    ASSUME AlertsInv, ClockInv, NEW reading \in [Metrics -> Readings], Alerts(reading)
    PROVE  AlertsInv'
  <1> DEFINE next == [m \in Metrics |-> EvaluateOne(alert[m], reading[m], threshold[m],
                                                    sustain, clock \div Second)]
             mask == {m \in Metrics : NewlyFired(alert[m], next[m])}
  <1>1. clock \div Second \in Nat
    BY DEF ClockInv, Second
  <1>2. next \in [Metrics -> AlertState]
    <2>1. \A m \in Metrics : reading[m] \in Nat /\ threshold[m] \in Nat
                                                /\ alert[m] \in AlertState
      BY MonitorAssumption DEF AlertsInv
    <2>2. sustain \in Nat
      BY DEF AlertsInv
    <2> QED
      BY <1>1, <2>1, <2>2, EvaluateOneType
  <1>3. mask \subseteq Metrics
    OBVIOUS
  <1>4. \/ /\ alert' = next /\ (ever_fired' <=> ever_fired \/ mask # {})
           /\ ever_fired' \in BOOLEAN /\ dispatched' = dispatched \cup mask
        \/ UNCHANGED <<alert, ever_fired, dispatched>>
    BY DEF Alerts, AlertsInv
  <1>5. UNCHANGED <<threshold, sustain, exit_code>> /\ pc' = "output"
    BY DEF Alerts, settings
  <1> HIDE DEF next, mask
  <1> QED
    BY <1>2, <1>3, <1>4, <1>5 DEF AlertsInv, ExitTellsFiredAlerts

LEMMA AlertsKept ==
    ASSUME AlertsInv, ClockInv, [Next]_vars
    PROVE  AlertsInv'
  <1> USE DEF AlertsInv, ExitTellsFiredAlerts, EXIT_SUCCESS, EXIT_FAILURE, NEO_EXIT_ALERT
  <1>1. CASE Start
    BY <1>1 DEF Start, settings, history, ClockInv
  <1>2. CASE Check \/ Refresh
    BY <1>2 DEF Check, Refresh, settings, history
  <1>3. CASE \E reading \in [Metrics -> Readings] : Alerts(reading)
    BY <1>3, AlertsKeptByAlerts
  <1>4. CASE Output
    BY <1>4 DEF Output, ExitCode, settings
  <1>5. CASE Leave
    BY <1>5 DEF Leave, ExitCode, settings, history
  <1>6. CASE BeginWait \/ WaitEnds
    BY <1>6 DEF BeginWait, WaitEnds, settings, history
  <1>7. CASE KeyQuit \/ KeyForce \/ KeyUnknown
    BY <1>7 DEF KeyQuit, KeyForce, KeyUnknown, KeyArrives, settings, history
  <1>8. CASE Signal \/ UNCHANGED vars
    BY <1>8 DEF Signal, vars, settings, history
  <1> QED
    BY <1>1, <1>2, <1>3, <1>4, <1>5, <1>6, <1>7, <1>8 DEF Next, Program

-----------------------------------------------------------------------------
(* The theorems.                                                           *)

LEMMA InitIInv == ASSUME Init PROVE IInv
  <1>1. ControlInv
    <2>1. signals \in 0 .. MaxSignals
      BY MonitorAssumption DEF Init
    <2> QED
      BY <2>1 DEF Init, ControlInv, TerminalRestored
  <1>2. ConfigInv
    BY MonitorAssumption DEF Init, ConfigInv, Config
  <1>3. ClockInv
    <2>1. failed \in BOOLEAN
      BY Zenon DEF Init
    <2> QED
      BY <2>1 DEF Init, ClockInv
  <1>4. AlertsInv
    BY MonitorAssumption DEF Init, AlertsInv, ExitTellsFiredAlerts, AlertStateInit, AlertState
  <1> QED
    BY <1>1, <1>2, <1>3, <1>4 DEF IInv

LEMMA NextIInv == ASSUME IInv, [Next]_vars PROVE IInv'
  BY ControlKept, ConfigKept, ClockKept, AlertsKept DEF IInv

\* The invariant holds in every reachable state.
LEMMA Invariance == Spec => []IInv
  BY InitIInv, NextIInv, PTL DEF Spec

\* Whichever way run_local_monitor ends - --once, q, a failed refresh, a signal
\* between any two of its steps, a terminal that cannot be set up - the terminal
\* is as it was found, and the keys have kept the interval within its limits; code
\* 0 is never an alert's, an alert has code 2 unless a refresh failed, and without
\* an alert or a breach there is no code 2.
THEOREM MonitorLeavesInOrder == Spec => []LeavesInOrder
  <1>1. IInv => LeavesInOrder
    BY InvIsEnough
  <1> QED
    BY <1>1, Invariance, PTL

\* While ui_wait blocks, the screen shows the order the last key asked for.
THEOREM ScreenShowsOrderAsked == Spec => []ScreenFollowsKeys
  <1>1. IInv => ScreenFollowsKeys
    BY InvIsEnough
  <1> QED
    BY <1>1, Invariance, PTL

\* No step begins a refresh once a signal or q has cleared `running`, wherever
\* in the loop it came.
THEOREM StopsBeforeNextRefresh == Spec => NoRefreshAfterStop
  <1>1. [Next]_vars => [~running => pc' # "refresh" \/ pc = "refresh"]_pc
    BY DEF Next, Program, Start, Check, Refresh, Alerts, Output, BeginWait, WaitEnds, Leave,
           KeyQuit, KeyForce, KeyUnknown, Signal, vars
  <1> QED
    BY <1>1, PTL DEF Spec, NoRefreshAfterStop
=============================================================================
