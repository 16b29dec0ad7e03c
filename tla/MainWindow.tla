----------------------------- MODULE MainWindow -----------------------------
(***************************************************************************)
(* The Qt main window: the local table and its two timers, the switch to a *)
(* remote host's table, and the remote dialog with its worker threads.     *)
(*                                                                         *)
(* Every handler runs on the UI thread, one at a time, and is an action.   *)
(* Menus and message boxes run the event loop again: while one is open the *)
(* user can do nothing else, but timers tick and posted events come in.    *)
(* Workers run beside all that; what they post waits in a queue.  A sort   *)
(* uses the global sort_mode_global, so two that overlap with different    *)
(* modes race.                                                             *)
(***************************************************************************)
EXTENDS Integers, Sequences, FiniteSets

CONSTANTS
    SortModes,    \* NeoSortMode
    SORT_CPU,     \* the mode a worker sorts with
    MaxDialogs,   \* bound on the remote dialogs opened
    MaxRuns       \* bound on the workers started

ASSUME WindowAssumption ==
    /\ SORT_CPU \in SortModes
    /\ MaxDialogs \in Nat
    /\ MaxRuns \in Nat

VARIABLES
    viewing,     \* m_viewingRemote
    monitoring,  \* m_monitoring
    running,     \* the controller's m_running, its timer is on
    ticking,     \* m_refreshTimer is on
    sort_mode,   \* m_config.sort_mode
    order,       \* the order m_processList is in
    table,       \* m_processModel: whose processes, in which order
    current,     \* m_processView has a current row
    modal,       \* what runs a nested event loop
    asked,       \* whose process the open question is about
    signalled,   \* history: whose processes signals were sent to
    dialog,      \* m_remoteDialog, 0 for nullptr
    shown,       \* it is visible
    dialogs,     \* dialogs created so far
    busy,        \* its m_busy
    worker,      \* the worker threads: number -> [dialog, phase, raced]
    posted,      \* the UI thread's posted events
    overloaded,  \* the machine is over the alert threshold
    noticed      \* history: alert_evaluate saw that

polling == <<monitoring, running, ticking>>
local   == <<sort_mode, order>>
menu    == <<modal, asked, signalled>>
remote  == <<dialog, shown, dialogs, busy>>
threads == <<worker, posted>>
alarm   == <<overloaded, noticed>>
vars == <<viewing, polling, local, table, current, menu, remote, threads, alarm>>

\* An order nobody asked for, what qsort leaves when its mode changes under it.
Mixed  == "mixed"
Orders == SortModes \cup {Mixed}
Phases == {"scan", "deploy", "sort", "done"}

Runs == DOMAIN worker

\* config_init, the first refresh by start(), and both timers on.
Init ==
    /\ viewing = FALSE
    /\ monitoring = TRUE /\ running = TRUE /\ ticking = TRUE
    /\ sort_mode = SORT_CPU
    /\ order = SORT_CPU
    /\ table = [source |-> "local", order |-> SORT_CPU]
    /\ current = FALSE
    /\ modal = "none" /\ asked = "none" /\ signalled = {}
    /\ dialog = 0 /\ shown = FALSE /\ dialogs = 0 /\ busy = FALSE
    /\ worker = <<>> /\ posted = <<>>
    /\ overloaded = FALSE /\ noticed = FALSE

-----------------------------------------------------------------------------
(* Refreshing the local table.                                             *)

\* A model reset makes the view forget its current row.
ShowLocal ==
    /\ table' = [source |-> "local", order |-> order']
    /\ current' = FALSE

Sorting(r) == worker[r].phase = "sort"

\* sort_processes on the UI thread with mode m.
SortList(m) ==
    LET race == m # SORT_CPU /\ \E r \in Runs : Sorting(r)
    IN  /\ order' \in IF race THEN {m, Mixed} ELSE {m}
        /\ worker' = [r \in Runs |->
                         IF race /\ Sorting(r) THEN [worker[r] EXCEPT !.raced = TRUE]
                                               ELSE worker[r]]

\* Mutant: the alerts wait until menu and question are closed.
ProcessesUpdatedUnlessModal ==
    /\ ShowLocal
    /\ noticed' = IF modal = "none" THEN overloaded ELSE noticed

\* processesUpdated: the table is filled and the alerts are evaluated.
ProcessesUpdated ==
    /\ ShowLocal
    /\ noticed' = overloaded

\* NeoQtMonitorController::refresh; a failed read or scan is only reported.
ControllerRefresh(ok) ==
    IF ok THEN SortList(sort_mode) /\ ProcessesUpdated
          ELSE UNCHANGED <<order, worker, table, current, noticed>>

\* NeoQtMainWindow::refresh fills the table whatever became of the scan.
Refresh(ok) ==
    IF ~monitoring' THEN UNCHANGED <<order, worker, table, current, noticed>>
    ELSE IF ok THEN SortList(sort_mode) /\ ProcessesUpdated
    ELSE UNCHANGED <<order, worker, noticed>> /\ ShowLocal

calm == <<sort_mode, asked, signalled, remote, posted, overloaded>>

ControllerTick(ok) ==
    /\ running
    /\ ControllerRefresh(ok)
    /\ UNCHANGED <<viewing, polling, modal, calm>>

WindowTick(ok) ==
    /\ ticking
    /\ UNCHANGED polling
    /\ Refresh(ok)
    /\ UNCHANGED <<viewing, modal, calm>>

Free == modal = "none"

\* The Refresh button, disabled while a remote table is shown.
PressRefresh(ok) ==
    /\ Free
    /\ ~viewing
    /\ UNCHANGED polling
    /\ Refresh(ok)
    /\ UNCHANGED <<viewing, modal, calm>>

\* setSearchPattern and setStateFilter.
ChangeFilter(ok) ==
    /\ Free
    /\ ControllerRefresh(ok)
    /\ UNCHANGED <<viewing, polling, modal, calm>>

\* setSortMode sorts the list it has and announces it.
ChangeSortMode(m) ==
    /\ Free
    /\ m # sort_mode
    /\ sort_mode' = m
    /\ SortList(m)
    /\ ProcessesUpdated
    /\ UNCHANGED <<viewing, polling, menu, remote, posted, overloaded>>

-----------------------------------------------------------------------------
(* Pause, and back from the remote table.                                  *)

\* start(), the window's timer, and a refresh.
Resume(ok) ==
    /\ monitoring' = TRUE /\ running' = TRUE /\ ticking' = TRUE
    /\ Refresh(ok)

StopPolling == monitoring' = FALSE /\ running' = FALSE /\ ticking' = FALSE

\* toggleMonitoring.  The button is enabled while a remote table is shown.
TogglePause(ok) ==
    /\ Free
    /\ IF monitoring
       THEN StopPolling /\ UNCHANGED <<order, worker, table, current, noticed>>
       ELSE Resume(ok)
    /\ UNCHANGED <<viewing, modal, calm>>

\* Mutant: the window is local again before the pause is lifted.
BackToLocalStillPaused(ok) ==
    /\ Free
    /\ viewing
    /\ viewing' = FALSE
    /\ UNCHANGED polling
    /\ Refresh(ok)
    /\ UNCHANGED <<modal, calm>>

BackToLocal(ok) ==
    /\ Free
    /\ viewing
    /\ viewing' = FALSE
    /\ Resume(ok)
    /\ UNCHANGED <<modal, calm>>

-----------------------------------------------------------------------------
(* Signals to processes (Renice takes the same way).                       *)

seen == <<viewing, polling, local, remote, posted, worker, alarm>>

\* showProcessContextMenu.  On a remote table its one entry is disabled.
OpenMenu ==
    /\ Free
    /\ current' = TRUE
    /\ modal' = IF viewing THEN "none" ELSE "menu"
    /\ UNCHANGED <<seen, table, asked, signalled>>

\* sendSignalToSelectedProcess looks at the table as it is now.
ChooseSignal ==
    /\ modal = "menu"
    /\ IF viewing \/ ~current
       THEN modal' = "none" /\ UNCHANGED asked
       ELSE modal' = "confirm" /\ asked' = table.source
    /\ UNCHANGED <<seen, table, current, signalled>>

\* The menu is left, the question answered with No.
Dismiss ==
    /\ ~Free
    /\ modal' = "none"
    /\ asked' = "none"
    /\ UNCHANGED <<seen, table, current, signalled>>

\* Yes: kill() and a refresh, which a pause in the meantime suppresses.
Confirm(ok) ==
    /\ modal = "confirm"
    /\ modal' = "none"
    /\ asked' = "none"
    /\ signalled' = signalled \cup {asked}
    /\ UNCHANGED polling
    /\ Refresh(ok)
    /\ UNCHANGED <<viewing, sort_mode, remote, posted, overloaded>>

-----------------------------------------------------------------------------
(* The remote dialog and its workers.                                      *)

still == <<viewing, polling, local, table, current, menu, alarm>>

\* showRemoteDialog creates the dialog or brings back the one there is.
ShowDialog ==
    /\ Free
    /\ shown' = TRUE
    /\ IF dialog # 0 THEN UNCHANGED <<dialog, dialogs, busy>>
       ELSE /\ dialogs < MaxDialogs
            /\ dialogs' = dialogs + 1
            /\ dialog' = dialogs + 1
            /\ busy' = FALSE
    /\ UNCHANGED <<still, threads>>

\* WA_DeleteOnClose: the dialog is hidden now and deleted from the queue,
\* once, however often it is closed before that.
CloseDialog ==
    /\ Free
    /\ shown
    /\ shown' = FALSE
    /\ posted' = LET delete == [event |-> "delete", of |-> dialog]
                 IN  IF \E i \in DOMAIN posted : posted[i] = delete THEN posted
                     ELSE Append(posted, delete)
    /\ UNCHANGED <<still, dialog, dialogs, busy, worker>>

\* runAction: a fetch (SSH, Telnet) or a deploy (FTP, TFTP) on its own thread.
RunAction(phase) ==
    /\ Free
    /\ shown
    /\ ~busy
    /\ Len(worker) < MaxRuns
    /\ worker' = Append(worker, [dialog |-> dialog, phase |-> phase, raced |-> FALSE])
    /\ busy' = TRUE
    /\ UNCHANGED <<still, dialog, shown, dialogs, posted>>

\* The host's list has come; the worker sorts it.
WorkerSorts(r) ==
    /\ worker[r].phase = "scan"
    /\ worker' = [worker EXCEPT ![r].phase = "sort"]
    /\ UNCHANGED <<still, remote, posted>>

\* The worker posts its result and ends: a sorted list, or only a message, that
\* of a deploy or of a failure.
WorkerPosts(r) ==
    /\ worker[r].phase # "done"
    /\ worker' = [worker EXCEPT ![r].phase = "done"]
    /\ posted' = Append(posted, [event |-> IF Sorting(r) THEN "fetched" ELSE "ended",
                                 of |-> r])
    /\ UNCHANGED <<still, remote>>

\* The order of the list worker r has fetched.
FetchedOrder(r) == {SORT_CPU} \cup (IF worker[r].raced THEN {Mixed} ELSE {})

\* Mutant: the window goes on polling behind the remote table.
ShowRemoteKeepsTimer(r) ==
    /\ \E o \in FetchedOrder(r) : table' = [source |-> "remote", order |-> o]
    /\ current' = FALSE
    /\ viewing' = TRUE
    /\ monitoring' = FALSE
    /\ running' = FALSE
    /\ UNCHANGED ticking

\* showRemoteProcesses: polling stops, the host's processes take the table.
ShowRemoteProcesses(r) ==
    /\ \E o \in FetchedOrder(r) : table' = [source |-> "remote", order |-> o]
    /\ current' = FALSE
    /\ viewing' = TRUE
    /\ IF monitoring THEN StopPolling ELSE UNCHANGED polling

\* Mutant: the result is delivered to whatever dialog is open.
ReportResultToAnyDialog(event) ==
    IF dialog # 0
    THEN /\ busy' = FALSE
         /\ IF event.event = "fetched" THEN ShowRemoteProcesses(event.of)
            ELSE UNCHANGED <<viewing, polling, table, current>>
    ELSE UNCHANGED <<viewing, polling, table, current, busy>>

\* The queued lambda: reportSshOrTelnetResult, if the dialog still exists.
ReportResult(event) ==
    IF dialog = worker[event.of].dialog
    THEN /\ busy' = FALSE
         /\ IF event.event = "fetched" THEN ShowRemoteProcesses(event.of)
            ELSE UNCHANGED <<viewing, polling, table, current>>
    ELSE UNCHANGED <<viewing, polling, table, current, busy>>

\* The event loop, a nested one too, takes the oldest posted event.
PostedEvent ==
    /\ posted # <<>>
    /\ posted' = Tail(posted)
    /\ IF Head(posted).event = "delete"
       THEN /\ dialog' = IF dialog = Head(posted).of THEN 0 ELSE dialog
            /\ shown' = (shown /\ dialog # Head(posted).of)
            /\ UNCHANGED <<viewing, polling, table, current, busy>>
       ELSE ReportResult(Head(posted)) /\ UNCHANGED <<dialog, shown>>
    /\ UNCHANGED <<local, menu, dialogs, worker, alarm>>

\* The machine's load crosses the alert threshold, up or down.
LoadChanges ==
    /\ overloaded' = ~overloaded
    /\ noticed' = FALSE
    /\ UNCHANGED <<viewing, polling, local, table, current, menu, remote, threads>>

Next ==
    \/ \E ok \in BOOLEAN :
          \/ ControllerTick(ok) \/ WindowTick(ok) \/ PressRefresh(ok)
          \/ ChangeFilter(ok) \/ TogglePause(ok) \/ BackToLocal(ok) \/ Confirm(ok)
    \/ \E m \in SortModes : ChangeSortMode(m)
    \/ OpenMenu \/ ChooseSignal \/ Dismiss
    \/ ShowDialog \/ CloseDialog \/ PostedEvent \/ LoadChanges
    \/ \E phase \in {"scan", "deploy"} : RunAction(phase)
    \/ \E r \in Runs : WorkerSorts(r) \/ WorkerPosts(r)

Spec == Init /\ [][Next]_vars

\* Timers that are on tick, and a scan can succeed.  The user owes nothing, nor
\* do the workers, whose ssh may hang.
FairSpec ==
    /\ Spec
    /\ WF_vars(ControllerTick(TRUE))
    /\ WF_vars(WindowTick(TRUE))
    /\ WF_vars(PostedEvent)

-----------------------------------------------------------------------------

TypeOK ==
    /\ viewing \in BOOLEAN
    /\ monitoring \in BOOLEAN /\ running \in BOOLEAN /\ ticking \in BOOLEAN
    /\ sort_mode \in SortModes
    /\ order \in Orders
    /\ table \in [source : {"local", "remote"}, order : Orders]
    /\ current \in BOOLEAN
    /\ modal \in {"none", "menu", "confirm"}
    /\ asked \in {"none", "local", "remote"}
    /\ signalled \subseteq {"local", "remote"}
    /\ dialog \in 0 .. dialogs
    /\ shown \in BOOLEAN
    /\ dialogs \in 0 .. MaxDialogs
    /\ busy \in BOOLEAN
    /\ worker \in Seq([dialog : 1 .. MaxDialogs, phase : Phases, raced : BOOLEAN])
    /\ posted \in Seq([event : {"delete", "fetched", "ended"}, of : Nat])
    /\ overloaded \in BOOLEAN /\ noticed \in BOOLEAN

\* Pause and the two timers agree after every handler: a paused window is not
\* refreshed behind the user's back, a resumed one is refreshed by both.
TimersFollowPause == monitoring = running /\ monitoring = ticking

\* "Local processes only" (QT_GUI_GUIDE.md:27): whatever arrives while the menu
\* or the question is open, no signal is sent to the pid of a remote process.
SignalsStayLocal == signalled \subseteq {"local"}

\* The runs of dialog d whose result it has not seen.
Pending(d) ==
    {r \in Runs : worker[r].dialog = d /\
        (worker[r].phase # "done"
         \/ \E i \in DOMAIN posted : posted[i].event # "delete" /\ posted[i].of = r)}

\* A dialog is busy exactly while one action of its own is out, however many
\* dialogs were closed with theirs unanswered.
BusyMatchesRun ==
    /\ TypeOK
    /\ dialog # 0 => Cardinality(Pending(dialog)) = (IF busy THEN 1 ELSE 0)

\* While the local table is polled, a crossing of the threshold is looked at by
\* alert_evaluate, unless it passes or the polling stops first.
OverloadIsNoticed ==
    overloaded /\ monitoring ~> noticed \/ ~overloaded \/ ~monitoring

\* "Pause local polling while showing remote data so the refresh timer doesn't
\* immediately overwrite it with local /proc results" (qt_main_window.cpp:631).
ViewingShowsRemote == viewing /\ ~monitoring => table.source = "remote"
=============================================================================
