---------------------------- MODULE LocalMonitor ----------------------------
(***************************************************************************)
(* run_local_monitor: the CLI's refresh loop with its terminal, its keys,  *)
(* its alerts, its exit code, and SIGINT/SIGTERM, which may arrive between *)
(* any two steps and only clear the flag `running`.                        *)
(*                                                                         *)
(* Time is counted in half seconds, so that sleep() and time(NULL), which  *)
(* know whole seconds, differ from the interval, which does not.  It       *)
(* passes in the wait; a refresh takes none.  What a scan computes is the  *)
(* subject of ProcessScan, here it succeeds or fails.                      *)
(***************************************************************************)
EXTENDS AlertOps, FiniteSets

CONSTANTS
    Intervals,     \* the values --interval is given, in half seconds
    MIN_INTERVAL,
    MAX_INTERVAL,
    SortModes,     \* NeoSortMode
    Readings,      \* the values of a system-wide metric
    Thresholds,    \* --alert-cpu and --alert-mem; 0 is "off"
    Sustains,      \* --alert-duration, in seconds
    MaxClock,      \* bound: no refresh begins later
    MaxSignals     \* bound on the signals

ASSUME MonitorAssumption ==
    /\ MIN_INTERVAL \in Nat \ {0}
    /\ MAX_INTERVAL \in Nat
    /\ Intervals \subseteq MIN_INTERVAL .. MAX_INTERVAL
    /\ Readings \subseteq Nat
    /\ Thresholds \subseteq Nat
    /\ Sustains \subseteq Nat
    /\ MaxClock \in Nat
    /\ MaxSignals \in Nat

EXIT_SUCCESS   == 0
EXIT_FAILURE   == 1
NEO_EXIT_ALERT == 2

Metrics == {"cpu", "mem"}
Second  == 2                 \* half seconds in a second

VARIABLES
    pc,            \* where run_local_monitor is
    options,       \* the command line: [tty, once, batch, stream]
    config,        \* what the keys change: [interval, sort_mode, reverse]
    threshold,     \* config->alert_cpu_percent, config->alert_mem_percent
    sustain,       \* config->alert_sustain_seconds
    running,       \* cleared by the signal handler
    terminal,      \* [raw, cursor_hidden, configured]
    interval,      \* the local variable passed to scan_processes
    alert,         \* alert_state
    ever_fired,    \* alert_ever_fired
    exit_code,     \* returned; meaningful at "exit"
    clock,         \* half seconds since the start
    until,         \* when the wait in progress times out
    interrupted,   \* a signal arrived during the wait in progress
    signals,       \* how many signals arrived
    last_refresh,  \* history: when the last refresh began, -1 before the first
    elapsed,       \* history: time between the last two refreshes, -1 if none
    screen,        \* history: the order the table was last printed in
    dispatched,    \* history: the metrics alert_dispatch was called for
    failed         \* history: the last refresh failed

settings == <<options, threshold, sustain>>
history  == <<last_refresh, elapsed, screen, dispatched, failed>>
vars == <<pc, settings, config, running, terminal, interval, alert, ever_fired,
          exit_code, clock, until, interrupted, signals, history>>

Cooked == [raw |-> FALSE, cursor_hidden |-> FALSE, configured |-> FALSE]
Raw    == [raw |-> TRUE, cursor_hidden |-> TRUE, configured |-> TRUE]

\* ui_is_interactive() && !batch && !csv && !json; csv and json are "stream".
Interactive == options.tty /\ ~options.batch /\ ~options.stream

AlertingEnabled == \E m \in Metrics : threshold[m] > 0

Init ==
    /\ pc = "start"
    /\ options \in [tty : BOOLEAN, once : BOOLEAN, batch : BOOLEAN, stream : BOOLEAN]
    /\ config \in [interval : Intervals, sort_mode : SortModes, reverse : BOOLEAN]
    /\ threshold \in [Metrics -> Thresholds]
    /\ sustain \in Sustains
    /\ running = TRUE
    /\ terminal = Cooked
    /\ interval = config.interval
    /\ alert = [m \in Metrics |-> AlertStateInit]
    /\ ever_fired = FALSE
    /\ exit_code = EXIT_SUCCESS
    /\ clock = 0
    /\ until = 0
    /\ interrupted = FALSE
    /\ signals = 0
    /\ last_refresh = -1
    /\ elapsed = -1
    /\ screen = <<>>
    /\ dispatched = {}
    /\ failed = FALSE

\* ui_restore: the terminal and the cursor as they were found.
UiRestore == terminal' = IF terminal.configured THEN Cooked ELSE terminal

\* return alert_ever_fired ? NEO_EXIT_ALERT : EXIT_SUCCESS
ExitCode == IF ever_fired THEN NEO_EXIT_ALERT ELSE EXIT_SUCCESS

-----------------------------------------------------------------------------
(* The loop.                                                               *)

\* ui_setup and ui_hide_cursor; a terminal that cannot be set up is fatal.
Start ==
    /\ pc = "start"
    /\ \/ /\ Interactive
          /\ terminal' = Raw
          /\ pc' = "check"
          /\ UNCHANGED exit_code
       \/ /\ Interactive
          /\ exit_code' = EXIT_FAILURE
          /\ pc' = "exit"
          /\ UNCHANGED terminal
       \/ /\ ~Interactive
          /\ pc' = "check"
          /\ UNCHANGED <<terminal, exit_code>>
    /\ UNCHANGED <<settings, config, running, interval, alert, ever_fired, clock,
                   until, interrupted, signals, history>>

\* while (running)
Check ==
    /\ pc = "check"
    /\ IF running THEN clock <= MaxClock /\ pc' = "refresh"
                  ELSE pc' = "leave"
    /\ UNCHANGED <<settings, config, running, terminal, interval, alert,
                   ever_fired, exit_code, clock, until, interrupted, signals,
                   history>>

\* read_system_info, scan_processes and sort_processes.  A failure breaks.
Refresh ==
    /\ pc = "refresh"
    /\ failed' \in BOOLEAN
    /\ pc' = IF failed' THEN "leave" ELSE "alert"
    /\ last_refresh' = clock
    /\ elapsed' = IF last_refresh = -1 THEN -1 ELSE clock - last_refresh
    /\ UNCHANGED <<settings, config, running, terminal, interval, alert,
                   ever_fired, exit_code, clock, until, interrupted, signals,
                   screen, dispatched>>

\* The first reading of the CPU has no sample before it and is 0.
FirstReading(reading) == elapsed = -1 => reading["cpu"] = 0

\* capture_read_system, alert_evaluate and alert_dispatch.
Alerts(reading) ==
    LET next == [m \in Metrics |-> EvaluateOne(alert[m], reading[m], threshold[m],
                                               sustain, clock \div Second)]
        mask == {m \in Metrics : NewlyFired(alert[m], next[m])}
    IN  /\ pc = "alert"
        /\ FirstReading(reading)
        /\ pc' = "output"
        /\ IF AlertingEnabled
           THEN /\ alert' = next
                /\ ever_fired' = (ever_fired \/ mask # {})
                /\ dispatched' = dispatched \cup mask
           ELSE UNCHANGED <<alert, ever_fired, dispatched>>
        /\ UNCHANGED <<settings, config, running, terminal, interval, exit_code,
                       clock, until, interrupted, signals, last_refresh,
                       elapsed, screen, failed>>

\* Mutant: the --once path returns without ui_restore.
OutputOnceLeavesRaw ==
    /\ pc = "output"
    /\ screen' = <<config.sort_mode, config.reverse>>
    /\ IF options.once \/ (options.batch /\ ~Interactive)
       THEN pc' = "exit" /\ exit_code' = ExitCode
       ELSE pc' = "wait" /\ UNCHANGED exit_code
    /\ UNCHANGED <<settings, config, running, terminal, interval, alert,
                   ever_fired, clock, until, interrupted, signals,
                   last_refresh, elapsed, dispatched, failed>>

\* The table is printed; --once and a batch run return here.
Output ==
    /\ pc = "output"
    /\ screen' = <<config.sort_mode, config.reverse>>
    /\ IF options.once \/ (options.batch /\ ~Interactive)
       THEN pc' = "exit" /\ UiRestore /\ exit_code' = ExitCode
       ELSE pc' = "wait" /\ UNCHANGED <<terminal, exit_code>>
    /\ UNCHANGED <<settings, config, running, interval, alert, ever_fired, clock,
                   until, interrupted, signals, last_refresh, elapsed,
                   dispatched, failed>>

\* ui_wait(config->interval) blocks in select, or sleep in whole seconds, at
\* least one.  A signal that came before this step does not shorten it.
BeginWait ==
    /\ pc = "wait"
    /\ pc' = "waiting"
    /\ until' = clock + (IF Interactive THEN config.interval
                         ELSE IF config.interval > Second
                              THEN (config.interval \div Second) * Second
                              ELSE Second)
    /\ interrupted' = FALSE
    /\ UNCHANGED <<settings, config, running, terminal, interval, alert,
                   ever_fired, exit_code, clock, signals, history>>

\* The wait times out, or ends early with EINTR; either way the next scan gets
\* the configured interval.
WaitEnds ==
    /\ pc = "waiting"
    /\ \E now \in clock .. until :
          /\ now = until \/ interrupted
          /\ clock' = now
    /\ interval' = config.interval
    /\ pc' = "check"
    /\ UNCHANGED <<settings, config, running, terminal, alert, ever_fired,
                   exit_code, until, interrupted, signals, history>>

-----------------------------------------------------------------------------
(* ui_handle_key: what a key makes of the configuration.                   *)

Slower == [config EXCEPT !.interval = IF @ * 2 > MAX_INTERVAL THEN MAX_INTERVAL
                                                              ELSE @ * 2]
Faster == [config EXCEPT !.interval = IF @ \div 2 < MIN_INTERVAL THEN MIN_INTERVAL
                                                                 ELSE @ \div 2]

\* The keys that force a refresh: r, v, +, - and the sort keys.
ForcedConfigs ==
    {config, Slower, Faster, [config EXCEPT !.reverse = ~@]}
        \cup {[config EXCEPT !.sort_mode = m] : m \in SortModes}

KeyArrives ==
    /\ pc = "waiting"
    /\ Interactive
    /\ ~interrupted
    /\ clock' \in clock .. until
    /\ UNCHANGED <<settings, terminal, alert, ever_fired, exit_code, until,
                   interrupted, signals, history>>

KeyQuit ==
    /\ KeyArrives
    /\ running' = FALSE
    /\ pc' = "leave"
    /\ UNCHANGED <<config, interval>>

\* Mutant: the forced refresh goes straight to the scan.
KeyForceJumps ==
    /\ KeyArrives
    /\ config' \in ForcedConfigs
    /\ pc' = "refresh"
    /\ UNCHANGED <<running, interval>>

\* Mutant: the change of order shows only at the next timeout.
KeyForceLater ==
    /\ KeyArrives
    /\ config' \in ForcedConfigs
    /\ pc' = "wait"
    /\ UNCHANGED <<running, interval>>

\* force_refresh: `continue`, past the assignment of interval.
KeyForce ==
    /\ KeyArrives
    /\ config' \in ForcedConfigs
    /\ pc' = "check"
    /\ UNCHANGED <<running, interval>>

KeyUnknown ==
    /\ KeyArrives
    /\ interval' = config.interval
    /\ pc' = "check"
    /\ UNCHANGED <<running, config>>

\* Behind the loop, reached by break or by the loop's condition.
Leave ==
    /\ pc = "leave"
    /\ UiRestore
    /\ exit_code' = ExitCode
    /\ pc' = "exit"
    /\ UNCHANGED <<settings, config, running, interval, alert, ever_fired, clock,
                   until, interrupted, signals, history>>

\* Mutant: the flag is looked at only where a wait was interrupted.
SignalDuringWaitOnly ==
    /\ pc # "exit"
    /\ signals < MaxSignals
    /\ signals' = signals + 1
    /\ running' = (running /\ pc # "waiting")
    /\ interrupted' = (interrupted \/ pc = "waiting")
    /\ UNCHANGED <<pc, settings, config, terminal, interval, alert, ever_fired,
                   exit_code, clock, until, history>>

\* SIGINT or SIGTERM: signal_handler, between any two steps.
Signal ==
    /\ pc # "exit"
    /\ signals < MaxSignals
    /\ signals' = signals + 1
    /\ running' = FALSE
    /\ interrupted' = (interrupted \/ pc = "waiting")
    /\ UNCHANGED <<pc, settings, config, terminal, interval, alert, ever_fired,
                   exit_code, clock, until, history>>

Program ==
    \/ Start \/ Check \/ Refresh \/ Output \/ BeginWait \/ WaitEnds \/ Leave
    \/ \E reading \in [Metrics -> Readings] : Alerts(reading)

Next == Program \/ KeyQuit \/ KeyForce \/ KeyUnknown \/ Signal

Spec == Init /\ [][Next]_vars

\* The program runs and time passes; nobody has to press a key.
FairSpec == Spec /\ WF_vars(Program)

-----------------------------------------------------------------------------

TypeOK ==
    /\ pc \in {"start", "check", "refresh", "alert", "output", "wait", "waiting",
               "leave", "exit"}
    /\ config \in [interval : MIN_INTERVAL .. MAX_INTERVAL, sort_mode : SortModes,
                   reverse : BOOLEAN]
    /\ running \in BOOLEAN
    /\ terminal \in {Cooked, Raw}
    /\ interval \in MIN_INTERVAL .. MAX_INTERVAL
    /\ alert \in [Metrics -> AlertState]
    /\ ever_fired \in BOOLEAN
    /\ exit_code \in {EXIT_SUCCESS, EXIT_FAILURE, NEO_EXIT_ALERT}
    /\ clock \in Nat
    /\ until \in Nat
    /\ interrupted \in BOOLEAN
    /\ signals \in 0 .. MaxSignals
    /\ elapsed \in Nat \cup {-1}
    /\ dispatched \subseteq Metrics
    /\ failed \in BOOLEAN

\* Whichever way the monitor ends - --once, q, a signal, a failed refresh - the
\* terminal is left as it was found.
TerminalRestored == pc = "exit" => terminal = Cooked

\* "the process exits with code 2 instead of 0 if any alert fired during the
\* run" (CLI_REFERENCE.md:143), and without one there is no code 2; a terminal that
\* cannot be set up is the only failure.  Two cases are left out, in which the
\* documents promise something else than the code does: a refresh that failed is
\* to exit with 1 (app_top_monitoring.1.in:282), and exits with 2 or 0, of which
\* all that is said is that 0 hides no alert; a breach that is there at the exit
\* but has not fired is to exit with 2 (the manual's :287-291,
\* monitoring_alert.h:58-63, the usage text), and exits with 0.
ExitTellsFiredAlerts ==
    LET breached == \E m \in Metrics : alert[m].breached
    IN  pc = "exit" =>
            /\ exit_code = EXIT_SUCCESS => dispatched = {}
            /\ ~failed =>
                  /\ exit_code = EXIT_FAILURE => last_refresh = -1
                  /\ dispatched # {} => exit_code = NEO_EXIT_ALERT
                  /\ dispatched = {} /\ ~breached => exit_code # NEO_EXIT_ALERT

\* There are four ways out, the signal's among them between any two steps; on
\* each the terminal and the configuration are left in order, and the exit code
\* tells what it can.
LeavesInOrder == TypeOK /\ TerminalRestored /\ ExitTellsFiredAlerts

\* While it waits, the screen shows the order last asked for.
ScreenFollowsKeys ==
    pc = "waiting" => screen = <<config.sort_mode, config.reverse>>

\* Once asked to stop, the monitor finishes the refresh it is in and begins no
\* other: running is read again before each.
NoRefreshAfterStop == [][~running => pc' # "refresh" \/ pc = "refresh"]_pc

\* A signal ends the program, even one that arrives just before the wait.
SignalEnds == signals > 0 ~> pc = "exit"
=============================================================================
