# TLA+ specifications of app_top_monitoring

`app_top_monitoring` is a top-like process monitor for Linux: a C core, a CLI
around it (`src/src/monotoring_services.c`) and a Qt application around it
(`src/src/qt/`). This directory specifies the parts whose correctness depends
on the order of events, checks them with TLC on small instances and proves the
main results with TLAPS for every instance. Paths below are relative to the
repository; `PROJECT.json` names, for every definition, the lines it stands
for.

## 1. The system

| Component | State it keeps | Operations | Hard because |
|---|---|---|---|
| Threshold alerts (`monitoring_alert.c`) | `NeoAlertState`: breach, start time, fired flag per metric | `alert_state_init`, `alert_evaluate`, `alert_state_is_active`, `alert_dispatch` | long sequences of readings; whole seconds of a wall clock |
| Log (`monitoring_log.c`) | `g_log` under one mutex: threshold, ring of 500 entries, table of 4 sinks | `log_write`, `log_init`, `log_copy_recent`, `log_add_sink`, `log_remove_sink` | any thread; sinks run outside the mutex on a copied table and may log |
| Qt Logs window (`qt_log_window.cpp`) | singleton bridge, queued events, entries, view | open, close, filter, clear, delivery | history is copied in one step and the subscription made in another |
| Process scan (`monitoring_services_core.c`, `_process.c`, `_filter.c`, `_metrics.c`) | `NeoPreviousList`: a baseline per pid; the table | `scan_processes`, `process_matches`, `update_metrics`, `previous_set` | the kernel moves on while `/proc` is read; pids are reused; filters change |
| CLI local monitor, terminal (`monotoring_services.c`, `monitoring_ui.c`) | `running`, terminal mode, interval, alert state, exit code | the refresh loop, keys, signals | a signal between any two steps; several ways out |
| Qt main window, controller (`qt_main_window.cpp`, `qt_monitor_controller.cpp`, `qt_process_model.cpp`) | pause, two timers, table, remote view, alerts | refresh, pause, filter, sort, remote and back, context menu | nested event loops; results from worker threads; two timers |
| Qt remote dialog (`qt_remote_dialog.cpp`) | dialog, busy flag, workers; the form and its list of targets | fetch, deploy, close; pick, save, delete a target | an answer may come after its dialog is gone; filling the form fires its own handlers |
| Sorting (`monitoring_services_core.c`) | `sort_mode_global` | `sort_processes` | the global is shared between threads |
| Remote transport (`monitoring_remote.c`) | child process, pipes, deadline | `run_command`, SSH, Telnet, FTP, TFTP, CSV parsing | fork, pipe inheritance, timeout, late exit |
| Saved targets (`monitoring_targets.c`) | a JSON file; the list each program loads | load, save, upsert, remove | CLI and GUI rewrite one file, in place, block by block |
| Capture (`monitoring_capture.c`, `qt_capture_window.cpp`, `run_capture_mode`) | series, start time, the static CPU reading | sample, append, write; start, stop, tick | the static reading is shared with labels, alerts and graphs; two refresh timers feed one series |
| Command line (`config_parse`, `main`) | `NeoConfig`, which options were given, the targets files | options, `--target`, `--save-target`, `--delete-target`, patterns, `--user` | options give each other meaning in any order |
| CLI remote and deploy modes (`monotoring_services.c`) | `running`, exit status | `run_remote_monitor`, `run_deploy` | partial failure, signal |
| Output, process control, graphs, theme, settings | none of their own | printing, `kill`, drawing | little state |

How they meet. The refresh is the same in both front ends: `read_system_info`,
`scan_processes`, `sort_processes`, then output. The CLI drives it with a loop
and a wait, Qt with two timers and the handlers of its widgets. A refresh
evaluates the alerts; alerts, refresh errors, remote runs and process actions
write to the log; the log's only sink is the bridge of the Qt Logs window,
which carries entries to the UI thread. The remote dialog starts one detached
thread per action; the thread runs `run_command`, sorts what it got with the
process-wide `sort_processes` and posts the result to the UI thread, where the
main window stops its polling and shows the fetched table.

What makes each part correct:

* alerts: fire exactly on a sustained breach, once per episode;
* log: every registered sink gets every entry once, the history is the newest
  entries, nobody blocks for ever;
* Logs window: shows the filter of what was logged, without gaps or repetitions;
* scan: a row's usage is what the process consumed since the previous refresh,
  and no tick is counted twice;
* CLI: it stops when told to, leaves the terminal as it was and reports in its
  exit code what happened;
* main window: pause means pause, a remote table stays remote, actions on
  processes reach local ones only, alerts are watched;
* remote: each run ends, its result goes to who asked for it;
* saved targets: a file that can be read is a whole list, a save or delete
  has its own effect only, a file that cannot be read is not overwritten;
* capture: samples cover the time without gaps or overlaps, a session holds
  its own, and one with a duration ends;
* command line: explicit options win wherever they stand, and the exit status
  tells what was done.

## 2. Modules

| Module | Stands for | Uses |
|---|---|---|
| `AlertOps` | `evaluate_one` and the state of one metric, as operators | |
| `Alert` | a session of `alert_evaluate` calls with the settings dialog | `AlertOps` |
| `RecentLog` | abstract: a bounded list of the newest entries | |
| `LogRing` | `monitoring_log.c` | implements `RecentLog` |
| `LogWindow` | the Qt Logs window and its bridge | composes with `LogRing` |
| `ProcessScan` | `scan_processes` and the baselines against a running kernel | |
| `LocalMonitor` | `run_local_monitor`, terminal, keys, signals, exit code | `AlertOps` |
| `MainWindow` | Qt main window, controller, remote dialog, workers, sorting | |
| `RunCommand` | `run_command` and the transports above it, several at once | |
| `TargetsFile` | the list of targets, the document written for it, what is read back, strings and escapes, as operators | |
| `TargetStore` | abstract: a table from names to targets that each request changes at once | |
| `SavedTargets` | CLI runs and remote dialogs over one file | `TargetsFile`, implements `TargetStore` |
| `Filters` | `process_matches` and its parts, as operators | |
| `CommandLine` | the CLI from `config_parse` to exit, with its remote and deploy modes; several runs one after the other | `Filters` |
| `CaptureSeries` | clock, kernel counters, the static reading and the series of `monitoring_capture.c` | |
| `CaptureMode` | `run_capture_mode` of the CLI | `CaptureSeries` |
| `CaptureWindow` | the Qt capture window under the two refresh timers | `CaptureSeries` |
| `Capture` | either of the two, in one specification | `CaptureMode`, `CaptureWindow` |
| `AlertProofs`, `MeasurementProofs` (of `ProcessScan` and `Capture`), `MainWindowProofs`, `LogProofs`, `LocalMonitorProofs`, `RunCommandProofs`, `SavedTargetsProofs`, `CommandLineProofs` | theorems | |
| `MC...` | values for TLC, one module for each of the above that is run | |

Definitions whose comment begins with "Mutant:" are not part of a
specification. Each is a plausible bug in the definition that follows it; with
the bug in place of the definition a run reports the property it names in
`PROJECT.json`, which shows that the property depends on the code.

### Alert

`EvaluateOne` is `evaluate_one` on a record of the three fields a metric has in
`NeoAlertState`; `NewlyFired` is the value it returns. `Alert` calls it for each
metric as `alert_evaluate` does, with `ChangeSettings` for the dialog of the
main window, which stores the new settings and clears the state. The history
variables `samples` and `reports` hold what the properties speak of: all
readings since the settings were made, and which of them returned the bit.
Real time is `second` and `tick`; the code sees only `second`.

### LogRing, RecentLog

A thread in `log_write` is a stack of activations with a program counter each
(`calls`): before the mutex, holding it, between two sinks, inside a sink. Lock,
the early return for a level below the threshold (`Reject`), the rest of the
critical section (`Accept`), each sink call and its return are steps of their
own, since other threads run between them; what happens under the mutex is one
step, because nothing else touches `g_log` without it. `todo` of a call is the
copy of the sinks made under the mutex, a function on the slots still to be
visited. `CopyRecent` is
`log_copy_recent`. `RecentLog` is what the header promises of the history: what
a caller is given for each size of array. `ImplementsRecentLog` maps the ring to
it by reading it with `CopyRecent` at every size.

### LogWindow

Extends `LogRing` with the UI thread. The constructor is two steps, the copy of
the history (`OpenWindow`) and the rest (`ConnectWindow`), because workers log
between them; nothing else runs on the UI thread in between (`UIIdle`).
`BridgeSink` queues a functor, `DeliverEvent` is the event loop running it.
There is one sink and the bridge is never removed, as in the program. In the run of
this module a sink may log itself (nesting 2), so that `log_write` is entered by a
thread that is inside one already.

### ProcessScan

`kernel` is the machine: processes with a life of their own (`life` tells apart
two processes with one pid), CPU ticks and a state letter. `BeginScan` is
`opendir`, `VisitEntry` one turn of the `readdir` loop with everything it calls,
and the kernel moves between the turns. Of the filters the state letter stands
for all attributes, being one that changes while a process runs; of the
thresholds the CPU threshold, the one that depends on the baseline. `visit`,
`last_visit` and `charged` are history: what each scan read, and the ticks all
scans have measured for a process.

### LocalMonitor

One action per stretch of the loop between two points where a signal or a key
makes a difference. Time is counted in half seconds and passes in the wait;
`BeginWait` computes when `select` or `sleep` ends, and a signal that arrives
before that step shortens nothing. The keys are those of `ui_handle_key`.
`Refresh` may fail, which `failed` remembers: the exit code is an ordinary stop's.
The scan's numbers belong to `ProcessScan`.

### MainWindow

Handlers on the UI thread are atomic; a menu or a message box is a state
(`modal`) in which the user can do nothing else but timers and posted events go
on, as in Qt's nested event loops. `table` records whose processes are shown
and in which order. A worker is a phase; while it is in "sort" a sort on the UI
thread with another mode may leave both lists in an order nobody asked for
(the order `mixed`), which is all the race on `sort_mode_global` can do to the
properties. Events are taken in the order they were posted; a closed dialog is
deleted by such an event, and `dialog` numbers tell a dialog from its successor.
A deploy and a failed fetch post an event that only ends the busy state.

### RunCommand

What the workers of `MainWindow` do. `table` is the descriptor table of the one
process they share; `pipe` takes the lowest free numbers and `close` works on
numbers, so a number closed twice can be another run's by then. `own` are the
local pipe arrays and `fds` the numbers of the poll loop, which forgets what it
closed while the arrays do not. A fork copies every end the process has open
(`holds`), and a pipe reaches its end of file only when no process holds its
write end. The client is the environment: it writes, closes its output, exits
or lingers as it likes. The deadline may pass at any turn of the loop. `hit`
records the runs whose descriptors another run closed, and those whose output
another run read through a number that had been its own: the promises to the
caller are stated for the others, that everything is closed in the end for all.
The script telnet is given is not data, so a run that polls the number of
another's script pipe does not read it.

### SavedTargets, TargetsFile, TargetStore

`TargetsFile` has the pure part of `monitoring_targets.c`. A document is a
sequence of tokens, one per entry with or without its comma; `Readable` is what
`targets_load` accepts, a `Hole` being what a write past the end of a truncated
file leaves. The name of an entry is spelled out character by character, so that
`Escape` and `Unescape` are what the writer and the reader do; the other fields
are a record. The loops of the writer, of `json_read_string` (`ReadByte` is one turn)
and of `json_read_targets_array` (`AddToken`) are recursive functions on positions. `SavedTargets` runs a CLI and a dialog over one file: `Load` (with
what its caller makes of the result; it sees one version of the file, where
`targets_load` takes the size first and reads afterwards, in several reads; a save from
what was read of two versions is one from a list that is no longer the file's, which the
properties leave out anyway), the dialog's question (`Answer`),
`Truncate`, then one `WriteBlock` per block of stdio. `LoadNothing` is a failing
`fopen` taken for an absent file, `DiskFull` and `Crash` may happen anywhere.
The form of the dialog is modelled as far as it is saved: picking a target sets
the protocol, whose handler sets the port, and then port and password. `fresh`,
`whole`, `tangled`, `damaged` and `stored` are history: whether a program's list
is still the file's, whose document the file begins with, whether two writes of
several blocks overlapped, and whether a write was cut short or based on an old
list. `TargetStore` promises that each request takes effect at once or not at
all, until the store is damaged; `ImplementsTargetStore` maps `stored` to it, so
a save or delete must change just its own entry even when programs load, ask
and write across each other.

### CommandLine, Filters

An argument is an option with its value. `phase` is the statement of
`config_parse` or of a mode that is next: the options one by one, the path of
the targets file, the commands on targets, `--target`, patterns, `--user`,
`--save-target`, then `main` and the mode. A local monitor and a capture leave
the module (`LocalMonitor` and `CaptureMode` have them); the remote monitor and
the deploy are played to their end, the transport's result being a choice.
Options that only set one value of their own are in `Flags` and `Settings`, and a
few stand for all of them. `explicit` (what was given last for each field),
`outcome` and `reached` (the peer a saving run had) are history. Runs follow one
another on the same files, so that a target saved by one is used by the next. The
argument of `--user` is in `Numbers` if it reads as a number, which is then a uid
whether or not an account has it (`UidOf`), or in `Accounts`, or in neither. A
path leads to a `File` with a table of targets, to one that is `Broken`, or to
`NoFile`.

### Capture

Time is counted in units, two to a second, so that `time(NULL)` drops a part of
it. A reading of `/proc/stat` is the kernel's two counters; in a unit of work the
idle counter may go back by one, as `iowait` does. `prev` is the static reading,
with the time it was made; a reading that fails gives 0.0 and leaves it. `list` is
the process list, as the time of the scan that filled it: `scan_processes` empties it
first, so that a scan that fails leaves it `Unfinished`. What of a process's I/O its row
shows depends on the baselines, which are the subject of `ProcessScan`; the rate is
divided by the configured interval, and nothing is claimed of it here.

In the Qt program `ProcessesUpdated` reads the statics once and feeds the window
if it captures; it is reached from both timers, from the buttons and options,
and from a change of the order, which announces the list without a scan. The timers
are coarse `QTimer`s (`About`, `Started`, `Again`): one may be early by up to `Early`,
keeps to its schedule when it is late by less than a period, and fires once for what it
missed. `Early` is a parameter, below a second, that stands for the 5 % Qt allows.
`SaveReport` may fail on either file. `begun`, `updates` and `atStop` are
history: when the session began, the updates since, and those before it stopped.

## 3. What is checked

Properties marked (T) are also proved.

| Run | Shows | Bounds |
|---|---|---|
| `alert` | `FiredOnlyIfSustained` (T), `FiredWhenSustained` (T), `OneReportPerEpisode` (T), `FiredMeansReported` (T), `NeverASecondEarly` (T), `TypeOK` (T) | 2 metrics, 4 readings, 3 seconds of 2 ticks, durations negative and 2 s |
| `log_ring` | `ExactlyOnce` (T), `SinkKeepsThreadOrder` (T), `ImplementsRecentLog` (T) | 2 threads, 2 sinks that may log (nesting 2), 2 levels, 3 writes, ring of 2 |
| `log_window` | `ViewIsRight` (T), `ReopenedWindowIsComplete` (T), `EntriesArrive`, `WriteReturns` | UI and one worker, a sink that may log (nesting 2), 3 writes, ring of 2, 2 levels |
| `scan` | `TypeOK` (T), `MatchedTwiceIsExact` (T), `NoTickMeasuredTwice` (T) | 2 pids, 2 lives, 2 ticks each, 3 refreshes, 4 filters, threshold on and off |
| `local_monitor` | `LeavesInOrder` (T), `ScreenFollowsKeys` (T), `NoRefreshAfterStop` (T), `SignalEnds` | all modes, intervals from half a second to two seconds, refreshes up to 1.5 s, one signal |
| `main_window` | `TimersFollowPause` (T), `SignalsStayLocal` (T), `BusyMatchesRun` (T), `OverloadIsNoticed` | 2 dialogs, 2 workers, 2 sort modes |
| `run_command` | `TableIsSound` (T), `SuccessIsOwn` (T), `RunsReturn` | an ssh and a telnet client at once, 8 descriptors (they want 10), one line of output each, exit code 0 or 1, SIGPIPE not ignored |
| `saved_targets` | `FileIsSound` (T), `UnreadableIsKept` (T), `SavingAgainChangesNothing` (T), `ImplementsTargetStore` (T) | a CLI and a dialog, 2 names (one with all the characters that are escaped), 2 operations, blocks of 3 tokens, one fault |
| `command_line` | `ConnectionIsResolved` (T), `ReusedTargetConnectsAlike` (T), `UserMeansOneThing` (T), `ExitTellsOutcome` (T), `OnlyNamedEntryChanges` (T) | 2 runs of up to 3 arguments out of 31, 2 files, 2 names |
| `capture` | `SeriesIsSound` (T), `KeepsDuration` (T), `SeriesIsSession` (T), `TimedCaptureEnds` | the CLI with 1.5 s or without a limit; 1.5 s of the Qt program with 2 actions of the user, timers half a second early or late, one refresh or reading that fails |

`ExactlyOnce`, `ViewIsRight`, `LeavesInOrder`, `BusyMatchesRun`, `TableIsSound`,
`FileIsSound`, `ExitTellsOutcome` and `SeriesIsSound` contain the type invariant
of their module.

Why the bounds are enough to meet the interesting cases: four readings contain
an episode, its end and a second one; three writes wrap a ring of two around and let
a sink log while another thread is between two sinks; three refreshes
with two lives contain a rejected refresh between two matching ones and a
reused pid; two dialogs with two workers contain an answer to a dialog that is
gone while its successor waits for its own; an ssh and a telnet run contain a
number reused while the other still has it in its arrays, write ends inherited
through a fork, a pipe or fork that fails and a script nobody reads. Blocks of
three tokens let a list of one entry be written at once and one of two in two
blocks, and two operations are all that can cross each other. Three arguments
hold a command on a target, `--targets-file` and an option in every order, and
two runs let the second use what the first has saved. A second and a half
hold a timed capture of one second in which all three timers fire, with its start and
one more action: a pause, a sort, a change of the interval. Half a second is more than
5 %, as a unit is the least there is. The runs of the next table reach their cases with smaller bounds still.

Runs that end in a violation, each a disagreement between the code and what the
repository says of it (`PROJECT.json`, "findings", quotes the line):

| Run | Property | What happens |
|---|---|---|
| `log_window_first` | `WindowIsComplete` | an entry logged while the first Logs window is being built is lost to it |
| `window_overwritten` | `ViewingShowsRemote` | filter and sort edits replace a remote table by the local one |

Other disagreements met while modelling, most of which the models reproduce:

* an alert may be reported up to a second before the breach lasted
  `alert_sustain_seconds` (`monitoring_alert.h:50`), since `time(NULL)` drops
  fractions; `NeverASecondEarly` states what does hold;
* a reopened Logs window lists entries twice that were queued when it copied the
  history (`QT_GUI_GUIDE.md:66`); `LaterEntriesShownOnce` states what does hold;
* a process that a structural filter rejected keeps its old baseline
  (`monitoring_services_core.c:1435`): when it matches again it shows several
  intervals' usage as one, where `ARCHITECTURE.md:69` speaks of the delta since
  the last refresh, and its I/O likewise; a new process with a reused pid is measured against the
  counter of the dead one (`monitoring_metrics.h:9`). `MatchedTwiceIsExact`
  states what does hold;
* two sorts at once share `sort_mode_global` (`monitoring_services_core.c:1611`), so
  a fetched table may be in no order, where `qt_remote_dialog.cpp:400` sorts it by
  its own mode;
* a failed read of `/proc` ends the CLI monitor with 0 or 2, where the manual page
  promises 1 (`app_top_monitoring.1.in:282`); a breach still active at exit that has
  not fired exits 0, where the manual page (`:287`), `monitoring_alert.h:58` and the
  usage text (`monitoring_services_core.c:604`) promise 2, and `CLI_REFERENCE.md:143`
  does not. `ExitTellsFiredAlerts` names both cases and leaves them out;
* usage is "based on elapsed wall-clock time" (`monitoring_metrics.c:234`), but a
  scan divides by the configured interval, while `sleep` waits whole seconds
  and a forced refresh cuts the wait short;
* `run_command` "enforces an overall wall-clock timeout"
  (`monitoring_remote.c:95`), but the `waitpid` after a client has closed its
  output has none; `RunsReturn` names this case;
* after a timeout the pipes are closed by the numbers in the arrays
  (`monitoring_remote.c:304`), also one that the loop has closed and another
  run was given since, whose output is then lost. A run that then
  reads a number another was given takes that one's output in turn, so that of four
  runs a third may report success without its output; `hit` covers both;
* the Qt program does not ignore SIGPIPE, so a telnet client that ends before
  its script is written ends the program (`dead`);
* no alert is evaluated while a remote table is shown, where the guide says
  "every refresh regardless" (`QT_GUI_GUIDE.md:75`). `OverloadIsNoticed` is
  stated for the time the local table is polled;
* `--interval` is "also used as the per-sample interval for `--capture`"
  (`docs/CLI_REFERENCE.md:11`), but the sleep takes whole seconds
  (`monotoring_services.c:534`); `KeepsDuration` states what holds of the time a
  capture takes;
* the first CPU share of a capture in the Qt program covers the time since the
  last update before Start; a change of the order adds a sample with the I/O of
  the one before, or with none and no process if the scan since failed; a reading of
  `/proc/stat` that fails is a sample of 0 %; a capture by the CLI exits 0 although a scan or a report
  failed; pause, and a remote table, leave a timed capture without samples;
* a target with port 0 leaves the form's port as it is if its protocol is the one
  already shown, and is saved with that number afterwards
  (`qt_remote_dialog.cpp:587`); `SavingAgainChangesNothing` leaves it out;
* `targets_load` takes every failing `fopen` for "no saved targets yet", though
  `monitoring_targets.h` has -1 for an I/O error; the next save then drops all
  targets (`LoadNothing`). Two saves of several blocks across each other, a crash
  or a full disk leave a file that cannot be read and that nobody repairs;
* SSH targets have "never a saved password" (`QT_GUI_GUIDE.md:47`), but the text of
  the disabled field is saved, as is `--password` with `--save-target`;
* `\u` escapes are written and not decoded (`monitoring_targets.c:323`), so a name
  with a control character has another name once it is loaded, and is neither found
  nor replaced by its own; `SavedTargetsAssumption` leaves such names out, as no
  claim about the file's list holds for them; a longer name is cut to 63 bytes after
  the question whether to overwrite was asked for the whole one;
* `--interval`, `--capture` and `--alert-duration` accept "nan", a pid list
  counts pids modulo the width of `pid_t`, an unknown state letter is ignored, and
  `--target` with an empty `remote_binary` overrides the default by it;
  `--save-target` saves although the run is rejected later.

Deadlock is checked in every run but those of `LocalMonitor`, `CommandLine` and
`Capture`, where the program ends (and the clock is bounded), of `RunCommand`, where
the runs return, and of `SavedTargets`, where the operations are bounded.

### Fairness

* `LogWindow!WindowFairSpec`: a thread inside `log_write` keeps running. No call
  under the mutex blocks; weak fairness on the thread's own steps is what a
  scheduler gives, and the bridge returns. The UI thread returns to its event
  loop. The user is owed nothing: opening, closing, filtering are unfair.
* `LocalMonitor!FairSpec`: the program runs and its wait times out. Keys and
  signals are not owed.
* `MainWindow!FairSpec`: timers that are on tick and some scan succeeds, posted
  events are run. Workers are not fair, since their ssh may hang, and neither
  is the user.
* `RunCommand!FairSpec`: a thread in `run_command` keeps running, and `poll`
  returns when its deadline passes. Clients owe nothing, not even an end.
* `Capture!CaptureSpec`: the CLI goes on and its sleep ends; in the Qt program time
  passes and timers that are due fire, the tick timer in its own right. Signals
  and the user are not owed.
* `SavedTargets`, `CommandLine`, `LogRing`, `Alert` and `ProcessScan` state no
  fairness: only safety is claimed of them.

## 4. What is proved

All theorems follow from the named `ASSUME` of their module, which only gives
the constants their types, and hold for every value of the bounds.

* `AlertProofs`: `TypeCorrect`, `NoAlertOnASpike`, `NoBreachIsMissed`,
  `ReportedOncePerEpisode`, `FlagAgreesWithReports`, `ReportedNoSecondEarly`. The properties speak of the
  whole list of readings and the state of three fields, so none is inductive.
  The invariant says what the fields summarise: `breached` holds exactly when
  the last reading is over the threshold; then `start` is the second of the
  sample the present run began with, `fired` holds exactly when the run's
  length in seconds reaches the sustain time, and seconds never decrease along
  the samples. `RunStep` is the lemma that carries it: how the run of readings
  grows by one.
* `MeasurementProofs`, of `ProcessScan`: `TypeCorrect`, `UsageIsExact`,
  `TicksAreMeasuredOnce`.
  The invariant links a baseline to the visits that set it (`BaselineInv`), the
  visits of this scan and the last to the lives they saw (`PastOf`, a process's
  counter never goes back), and the charge to the baseline (`ChargeInv`: what
  was charged to a running process is at most its baseline if its life set it,
  and nothing if it was never seen). The last is what makes "no tick twice"
  inductive: after a visit the baseline has moved by at least what was charged.
  There is one lemma per action.
* `MeasurementProofs`, of `Capture`: `SamplesAreSound`, `DurationIsKept`,
  `SessionIsItsOwn`. The samples tile the time because of `TieInv`: while a series
  goes on, the statics are where its last sample that could read ended (`MeterTie`), and
  the list is the last sample's or what a failed scan left of it (`ListTie`), as nobody
  reads the usage, or scans with success, without adding a sample, but for the scan of
  the CLI right before one. `AddToSeries` is the lemma that a sample taken then goes on
  with the series (`Continues`). That a usage is a share needs no more of the counters
  than that the time spent working never shrinks (`MeterInv`); the idle counter may go
  back. `CliInv` keeps the seconds a capture has taken by the clock it reads, which
  `SecondsTaken` relates to the time it really took; the multiplication by the length
  of a second is in `SecondsOf` and `NextSecond`. `TickInv` says that the tick is due
  a second, less the tolerance of a timer, after every second counted, however late it
  fires and although it keeps to its schedule: that bounds the seconds by the clock.
  `FedInv` counts the updates of a session against its samples until the capture stops,
  and keeps the count afterwards. The sleep, the length of a second, the tolerance, the
  intervals, durations and limits are arbitrary; the bounds on time, actions and failures
  are not used.
* `MainWindowProofs`: `PauseStopsBothTimers`, `SignalsOnlyLocalProcesses`,
  `DialogBusyWithItsOwn`. A
  signal is local for a reason that spans several handlers: a remote table is
  shown only while the window is viewing remotely (`TableInv`), and an open
  question is about a local process (`AskedInv`): it was asked when the window
  was local. `SourceInv` says that a table is local or remote. For the dialogs
  `OwnRunInv` says that the open one has exactly one run out when it is busy and none
  otherwise; it rests on a run posting its result once, as it ends (`ResultsInv`),
  and on runs belonging to dialogs there were (`RunsInv`).
* `LogProofs`: `RingImplementsRecentLog`, the refinement, and
  `SinksGetEntriesOnce`, `SinksGetThreadsInOrder` for the deliveries. The invariant
  (`RingInv`) reads the ring backwards: j steps before `history_next` lies the j-th
  newest accepted entry, for every j up to `history_count`. `CopyIsNewest` makes
  of it that a copy is a suffix of the accepted entries; `AppendToSuffix` is the
  fact about sequences that turns a push into an append that drops the first,
  and `RingSteps` says which steps push. The arithmetic of the slots is in
  `SlotIs`, `BackFromNext` and `BackThenForward`. For the deliveries the state of
  a thread is its stack: every call but the innermost is inside a sink
  (`StackInv`), and what a thread has logged since the entry of a call, it logged from
  inside that call's sinks (`HeldInv`). What is left of a call's copy has each sink
  once and none that had the entry (`TodoInv`), as a sink is registered once
  (`SinksInv`); only accepted entries, numbered in order, are delivered
  (`NumberInv`), and there are no more of them than calls of `log_write`
  (`CountInv`). What a copy still holds and what a sink was given are pairs of an entry
  and a sink registered when it was accepted (`AskedInv`): nobody else is called. A step
  replaces, adds or removes the innermost call of one stack;
  `BecomeReplaces` and `ReturnReplaces` say what stays.
  For the Logs window, `WindowShowsFilter` and `ReopenedWindowMissesNothing`: its
  steps are steps of the log or leave it alone (`WindowIsNext`), so both invariants
  above hold, and the queue is the end of what the bridge was given (`EventsInv`). A
  newer entry of the window was given and run before (`EntriesInv`), which with
  `ExactlyOnce` makes it stand there once; an entry due is in the window, in the
  queue or with its thread from the copy on (`CompleteInv`), a registered bridge
  (`BridgeInv`) being in every later copy of the sinks. That the filter of a list
  grows by the filter of what is appended is `FilteredAppend`: an induction over the
  list, for which `Induction` derives the principle, as a statement about sets, from
  the well-foundedness of < in the library (the theorems of the library that take an
  operator cannot be used here).
* `LocalMonitorProofs`: `MonitorLeavesInOrder`, `ScreenShowsOrderAsked`,
  `StopsBeforeNextRefresh`. `ControlInv` gives the places of the loop at which the
  terminal is cooked, `ConfigInv` that the screen already shows the configured order
  when a wait is due, `ClockInv` that the clock is never behind the last refresh, and
  `AlertsInv` that the exit code agrees with the alerts dispatched so far. The theorem
  leaves out the two cases of the exit code that the property leaves out.
* `RunCommandProofs`: `TableEndsEmpty`, `SuccessReportsOwnOutput`, for any number of
  runs and descriptors. An entry of the table is always one its run will close
  yet, by a number it has kept (`TableInv`, with `ClosesYet`), which needs nothing
  of the other runs. While no other run has closed or read a number of a run,
  its numbers are its own pipes, what its client wrote is what it captured
  followed by what is in the pipe, and after the end of the file nobody can
  write (`DataInv`); that the others leave this as it is is `OthersKeep`. `StageInv` ties
  the arrays to the place in the code.
* `SavedTargetsProofs`: `NoUnreadableFileIsOverwritten`, `WhatWasAppliedIsSaved`,
  `WhatIsReadIsWhole` and the refinement `SavesAreWhole`.
  `UnreadableIsKept` is
  nearly inductive; what it lacks is that a program that loads has an operation
  of its own (`ControlInv`). `Readable` stays unexpanded: the result does not
  depend on the format of the file. `FormInv` says that a form agrees with the
  target it was filled from until the user edits it, and that a save under way was
  begun with the form as it is; `ApplyTargetAgrees` is the lemma about the order in
  which `applyTarget` sets the fields. It assumes that no program is both a run
  of the CLI and a dialog.
  `WhatIsReadIsWhole` begins with the codec: `StringRoundTrip` (every name, with its
  escapes and within the size of the field, is read back and the reader stops at the
  quote) and `DocumentRoundTrip` (every list is, in its order), by `Induction` over
  the turns of the three loops. A file that lacks the end of its document, or
  begins with no opening, cannot be read (`EndsOfDocument`, `EndsOfNothing`). The
  invariant (`FInv`) says of the disk, until two saves of several blocks overlap:
  the file begins with the document of `whole` or with no opening (`OfDocument`); at
  most one program has a long document to write; and between its blocks that one lies
  `Behind`: others may have truncated the file, left a hole in front of it or put a
  document of one block at its beginning, or else the file is just what it has
  written. `FirstBlock` and `LaterBlock` say what a block makes of such a file.
  `QuietInv` is what remains until a fault: the file can be read, or a writer is
  about to make it so. None of it bounds the number of programs.
  `SavesAreWhole` adds `StoreInv`: until the store is damaged nobody writes but one
  program, whose table is the store with the effect it asked for (`EffectOf`), the
  file is the beginning of its document, and a list that is fresh is the store's.
  `TableOfChanged` is the lemma about `Upsert` and `Without`; there is one lemma per
  action about the invariant and one about the step of the store it is.
* `CommandLineProofs`: `ExplicitOptionsWin`,
  `UserIsFilterOrLogin`, `SavedTargetConnectsAlike`, `ExitStatusIsTrue` and the
  action property `RunsTouchOneEntry`. Until
  `--target` is looked at, a field is what was given or the default
  (`UnresolvedInv`), `set` is just what was given (`GivenInv`), and the target of a
  run stays in its file until the run saves its own (`TargetInv`); no account is
  filtered for until the protocol is final (`FilterInv`), after which the filter is what
  `parse_user` makes of the argument, or else the login is the argument (`PeerUser`,
  `LoginIsGiven`). An entry a run has
  saved connects to what that run connected to (`ReachedInv`), and from the moment
  a target is used with no option given its run has that peer (`ReusedInv`).
  `StatusInv` says that nothing is done before the exit that only an exit tells of, and
  that the loop a signal ends with 0 is a monitor's;
  `ListsInv` and `FilesInv` are the types of what a run and the files hold.
  The assumptions say that the values of the options have the type `config_parse`
  gives them, that a file's targets have all fields, that the default path is a
  path, and that the width of `pid_t` is even, so that a pid has a negative.

Every safety property a passing run checks is proved, and so are both refinements.
Only model-checked are the liveness properties (`WriteReturns`, `EntriesArrive`,
`SignalEnds`, `OverloadIsNoticed`, `RunsReturn`, `TimedCaptureEnds`): they rest on
fairness, that is on ENABLED, which the prover cannot reason about. The two runs
that expect a violation have nothing to prove.

## 5. What is not modelled

`PROJECT.json` lists every component with the reason.

* Text in and out: the parsers of `/proc`, of the CSV a host prints and of JSON
  that the program has not written itself (`json_skip_value`,
  `json_skip_collection`), tables, CSV and HTML reports, usage and wording. They
  keep no state, and what matters of them is the shape of strings.
* `compare_processes` as an order, and the arithmetic of units and rates.
* Drawing: graphs, wave widget, theme, tray icon, details pane, layout. The
  settings dialog edits a copy that nobody reads back.
* The children of `alert_dispatch` (`notify-send`, `curl`), `remote_ssh_check`, the
  scripts handed to clients, the lookup of the configuration directory.
* Failures nothing in the code reacts to: memory that runs out, process exit
  while detached threads run, a wall clock that jumps.

## 6. Running

```
tlc -config MCAlert.cfg MCAlert
tlapm AlertProofs.tla
```

Each run of `PROJECT.json` names its module and configuration. With two workers
the longest take two to three minutes.
