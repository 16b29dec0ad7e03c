---------------------------- MODULE CaptureWindow ----------------------------
(***************************************************************************)
(* Sampling in the Qt program: the two timers that refresh, the handler of *)
(* processesUpdated that reads the usage once for everything that shows    *)
(* it, and the capture window with its tick timer, its buttons and its     *)
(* reports.  The user may pause, filter, sort and change the interval      *)
(* meanwhile.                                                              *)
(***************************************************************************)
EXTENDS CaptureSeries

CONSTANTS
    StartInterval,  \* DEFAULT_INTERVAL, in units: the controller's at first
    StartRefresh,   \* the window's at first
    Intervals,      \* what the user may set both to
    Limits,         \* durations, in seconds; 0 is until stopped
    MaxNow,         \* bound on the time
    MaxActs,        \* bound on what the user does but open the window
    MaxFails,       \* bound on the refreshes and readings that fail
    Early,          \* how early a timer may be: a coarse QTimer, up to 5 %
    MaxLag          \* bound on the time timers are late

ASSUME CaptureWindowAssumption ==
    /\ {StartInterval, StartRefresh} \cup Intervals \subseteq Nat \ {0}
    /\ Limits \subseteq Nat
    /\ {MaxNow, MaxActs, MaxFails, MaxLag, Early} \subseteq Nat
    /\ Early < PerSecond

Off == -1    \* a timer that is stopped, a session that was not started

VARIABLES
    monitoring,  \* m_monitoring
    interval,    \* m_config.interval
    refresh,     \* the interval of m_refreshTimer
    due,         \* when each timer fires next
    window,      \* there is a capture window
    capturing,   \* m_capturing
    elapsed,     \* m_elapsedSeconds
    limit,       \* m_durationLimit
    saved,       \* the label says that both files were saved
    acts, lag, fails,
    begun,       \* history: when Start was clicked in this window
    updates,     \* history: the updates since
    atStop       \* history: those of them before the capture stopped

qt == <<monitoring, interval, refresh, due, window, capturing, elapsed, limit, saved,
        acts, lag, fails, begun, updates, atStop>>
session == <<begun, updates, atStop>>
view == <<window, capturing, elapsed, limit, saved, fails, session>>

-----------------------------------------------------------------------------
(* QTimer.                                                                 *)

\* A time a bit early, but not at once.
About(time) == {t \in now + 1 .. time : time - t <= Early}

Started(length) == About(now + length)

\* A timer that has fired keeps to its schedule, unless it is late by a whole
\* period or more.
Again(t, length) ==
    About(IF due[t] + length > now THEN due[t] + length ELSE now + length)

-----------------------------------------------------------------------------

\* The constructors, with the first refresh of start(): no window yet to feed.
QtInit ==
    /\ monitoring = TRUE
    /\ interval = StartInterval
    /\ refresh = StartRefresh
    /\ \E c \in Started(StartInterval), r \in Started(StartRefresh) :
          due = [controller |-> c, refresh |-> r, tick |-> Off]
    /\ window = FALSE
    /\ capturing = FALSE
    /\ elapsed = 0 /\ limit = 0
    /\ saved = FALSE
    /\ acts = 0 /\ lag = 0
    /\ begun = Off /\ updates = 0 /\ atStop = 0

-----------------------------------------------------------------------------
(* The handler of processesUpdated.                                        *)

\* feedSample.
Feed(ok) ==
    IF window /\ capturing THEN AddTo(ok) ELSE UNCHANGED <<series, start_time>>

Fail == fails < MaxFails /\ fails' = fails + 1

\* capture_read_system for the labels, the alerts, the graphs and the capture.
ProcessesUpdated ==
    /\ \E ok \in BOOLEAN :
          Feed(ok) /\ Read(ok) /\ IF ok THEN UNCHANGED fails ELSE Fail
    /\ updates' = IF begun = Off THEN 0 ELSE updates + 1

\* NeoQtMonitorController::refresh: without the system's information nothing is
\* scanned, and a scan that fails tells nobody.
Refresh ==
    \/ Scan /\ ProcessesUpdated
    \/ /\ Fail
       /\ FailedScan \/ UNCHANGED list
       /\ UNCHANGED <<prev, series, start_time, updates>>

\* The timers.  One that is late fires once.
ControllerTimeout ==
    /\ due.controller # Off /\ due.controller <= now
    /\ \E t \in Again("controller", interval) : due' = [due EXCEPT !.controller = t]
    /\ Refresh
    /\ UNCHANGED <<machine, monitoring, interval, refresh, window, capturing, elapsed,
                   limit, saved, acts, lag, begun, atStop>>

RefreshTimeout ==
    /\ due.refresh # Off /\ due.refresh <= now
    /\ \E t \in Again("refresh", refresh) : due' = [due EXCEPT !.refresh = t]
    /\ Refresh
    /\ UNCHANGED <<machine, monitoring, interval, refresh, window, capturing, elapsed,
                   limit, saved, acts, lag, begun, atStop>>

\* Time passes between timeouts; while the UI thread is kept busy, past them.
QtClock ==
    /\ now < MaxNow
    /\ IF \A t \in DOMAIN due : due[t] = Off \/ due[t] > now
       THEN UNCHANGED lag
       ELSE lag < MaxLag /\ lag' = lag + 1
    /\ Pass
    /\ UNCHANGED <<capture, monitoring, interval, refresh, due, acts, view>>

-----------------------------------------------------------------------------
(* The user.                                                               *)

Act == acts < MaxActs /\ acts' = acts + 1

\* The refresh button, a filter or an option: monitoring or not.
RefreshNow ==
    /\ Act
    /\ Refresh
    /\ UNCHANGED <<machine, monitoring, interval, refresh, due, window, capturing, elapsed,
                   limit, saved, lag, begun, atStop>>

\* setSortMode, setReverse: processesUpdated without a scan, with the list there is.
Resort ==
    /\ Act
    /\ UNCHANGED list
    /\ ProcessesUpdated
    /\ UNCHANGED <<machine, monitoring, interval, refresh, due, window, capturing,
                   elapsed, limit, saved, lag, begun, atStop>>

\* Mutant: Pause stops every timer there is.
TogglePausesTick ==
    /\ Act
    /\ monitoring' = ~monitoring
    /\ IF monitoring
       THEN /\ due' = [t \in DOMAIN due |-> Off]
            /\ UNCHANGED <<capture, updates, fails>>
       ELSE /\ \E c \in Started(interval), r \in Started(refresh) :
                  due' = [due EXCEPT !.controller = c, !.refresh = r]
            /\ Refresh
    /\ UNCHANGED <<machine, interval, refresh, window, capturing, elapsed, limit, saved,
                   lag, begun, atStop>>

\* toggleMonitoring: Resume refreshes twice, by start() and by itself; the second
\* time is a RefreshNow that follows at once.
Toggle ==
    /\ Act
    /\ monitoring' = ~monitoring
    /\ IF monitoring
       THEN /\ due' = [due EXCEPT !.controller = Off, !.refresh = Off]
            /\ UNCHANGED <<capture, updates, fails>>
       ELSE /\ \E c \in Started(interval), r \in Started(refresh) :
                  due' = [due EXCEPT !.controller = c, !.refresh = r]
            /\ Refresh
    /\ UNCHANGED <<machine, interval, refresh, window, capturing, elapsed, limit, saved,
                   lag, begun, atStop>>

\* The interval box: both timers start over if they run.
SetInterval ==
    /\ Act
    /\ \E i \in Intervals \ {refresh} :
          /\ interval' = i
          /\ refresh' = i
          /\ \E c \in Started(i), r \in Started(i) :
                due' = [due EXCEPT !.controller = IF @ = Off THEN Off ELSE c,
                                   !.refresh = IF @ = Off THEN Off ELSE r]
    /\ UNCHANGED <<machine, capture, monitoring, lag, view>>

\* showCaptureWindow.
OpenWindow ==
    /\ ~window
    /\ window' = TRUE
    /\ capturing' = FALSE
    /\ elapsed' = 0 /\ limit' = 0
    /\ ClearSeries
    /\ UNCHANGED <<machine, prev, list, monitoring, interval, refresh, due, saved, acts,
                   lag, fails, session>>

\* Closing it deletes it, the series too.
CloseWindow ==
    /\ Act
    /\ window
    /\ window' = FALSE
    /\ capturing' = FALSE
    /\ elapsed' = 0 /\ limit' = 0
    /\ saved' = FALSE
    /\ due' = [due EXCEPT !.tick = Off]
    /\ begun' = Off /\ updates' = 0 /\ atStop' = 0
    /\ ClearSeries
    /\ UNCHANGED <<machine, prev, list, monitoring, interval, refresh, lag, fails>>

\* Mutant: the series of the session before is kept.
StartCaptureAppends ==
    /\ Act
    /\ window /\ ~capturing
    /\ capturing' = TRUE
    /\ elapsed' = 0
    /\ limit' \in Limits
    /\ saved' = FALSE
    /\ \E t \in Started(PerSecond) : due' = [due EXCEPT !.tick = t]
    /\ begun' = now /\ updates' = 0 /\ atStop' = 0
    /\ UNCHANGED <<series, start_time>>
    /\ UNCHANGED <<machine, prev, list, monitoring, interval, refresh, window, lag, fails>>

StartCapture ==
    /\ Act
    /\ window /\ ~capturing
    /\ capturing' = TRUE
    /\ elapsed' = 0
    /\ limit' \in Limits
    /\ saved' = FALSE
    /\ \E t \in Started(PerSecond) : due' = [due EXCEPT !.tick = t]
    /\ begun' = now /\ updates' = 0 /\ atStop' = 0
    /\ ClearSeries
    /\ UNCHANGED <<machine, prev, list, monitoring, interval, refresh, window, lag, fails>>

\* stopCapture.
Stop ==
    /\ capturing' = FALSE
    /\ due' = [due EXCEPT !.tick = Off]
    /\ atStop' = updates

StopCapture ==
    /\ Act
    /\ window /\ capturing
    /\ Stop
    /\ UNCHANGED <<machine, capture, monitoring, interval, refresh, window, elapsed, limit,
                   saved, lag, fails, begun, updates>>

\* tick: it counts timeouts, not time.
Tick ==
    /\ due.tick # Off /\ due.tick <= now
    /\ elapsed' = elapsed + 1
    /\ IF limit > 0 /\ elapsed + 1 >= limit THEN Stop
       ELSE /\ \E t \in Again("tick", PerSecond) : due' = [due EXCEPT !.tick = t]
            /\ UNCHANGED <<capturing, atStop>>
    /\ UNCHANGED <<machine, capture, monitoring, interval, refresh, window, limit, saved,
                   acts, lag, fails, begun, updates>>

\* saveReport: both files are written, or one is not; meanwhile updates feed nothing.
SaveReport ==
    /\ Act
    /\ window /\ ~capturing /\ series # <<>>
    /\ saved' \in BOOLEAN
    /\ UNCHANGED <<machine, capture, monitoring, interval, refresh, due, window, capturing,
                   elapsed, limit, lag, fails, session>>

QtNext ==
    \/ ControllerTimeout \/ RefreshTimeout \/ Tick \/ QtClock
    \/ RefreshNow \/ Resort \/ Toggle \/ SetInterval
    \/ OpenWindow \/ CloseWindow \/ StartCapture \/ StopCapture \/ SaveReport

-----------------------------------------------------------------------------

QtTypeOK ==
    /\ {monitoring, window, capturing, saved} \subseteq BOOLEAN
    /\ {interval, refresh} \subseteq {StartInterval, StartRefresh} \cup Intervals
    /\ \A t \in DOMAIN due : due[t] = Off \/ due[t] > 0
    /\ elapsed \in Nat
    /\ limit \in Limits \cup {0}

\* "Stopped. N samples captured over M s": the series holds every update from
\* Start to the end of the capture, those of a pause or of a change of the filters
\* among them, none of the session before and none after; the seconds run ahead
\* of the clock by no more than the timer's tolerance, and never past the limit.
SeriesIsSession ==
    window =>
        /\ Len(series) = IF capturing THEN updates ELSE atStop
        /\ \A k \in DOMAIN series : begun <= series[k].when
        /\ capturing => (PerSecond - Early) * elapsed <= now - begun
        /\ limit > 0 => elapsed <= limit

\* A sample adds up the list of a scan made right before it; after a mere sort,
\* the list of the sample before, or what a failed scan has left of it since.  No
\* sample goes back to an older list.
ListsFollow ==
    \A k \in 1 .. Len(series) - 1 :
        series[k + 1].list \in {series[k + 1].when, series[k].list, Unfinished}
=============================================================================
