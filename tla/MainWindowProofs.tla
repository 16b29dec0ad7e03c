-------------------------- MODULE MainWindowProofs --------------------------
(***************************************************************************)
(* What the main window promises whatever the sort modes, the number of    *)
(* dialogs and of workers: the pause button and both timers agree, no      *)
(* signal goes to the pid of a remote process, and a remote dialog is busy *)
(* exactly while an action of its own is out.                              *)
(*                                                                         *)
(* That no signal leaves needs more than itself.  A question is only ever  *)
(* about a local process, because when it is put the window is not viewing *)
(* a remote host, and then its table is local: every handler that gives up *)
(* `viewing` also lifts the pause and fills the table, and a handler never *)
(* is interrupted between the two.                                         *)
(*                                                                         *)
(* That a dialog is busy with its own action alone needs to know of every  *)
(* posted result which run it is of, that the run has ended, and that no   *)
(* run has two: then the result that frees the dialog is that of its only  *)
(* run, and those of earlier dialogs' runs, which never have its number,   *)
(* pass it by.                                                             *)
(***************************************************************************)
EXTENDS MainWindow, FiniteSetTheorems, TLAPS

\* The table shows remote processes only while the window says so.
TableInv == table.source = "remote" => viewing

\* A table's rows are local or remote.
SourceInv == table.source \in {"local", "remote"}

\* The open question is about a local process.
AskedInv == modal = "confirm" => asked = "local"

IInv ==
    /\ TimersFollowPause
    /\ SourceInv
    /\ TableInv
    /\ AskedInv
    /\ SignalsStayLocal

\* The part of the state a refresh can disturb: afterwards the table is as it
\* was, or local.
TableKeptOrLocal == table' = table \/ table'.source = "local"

\* NeoQtMonitorController::refresh leaves the table or makes it local.
LEMMA ControllerRefreshTable ==
    ASSUME NEW ok \in BOOLEAN, ControllerRefresh(ok)
    PROVE  TableKeptOrLocal
  BY DEF ControllerRefresh, ProcessesUpdated, ShowLocal, TableKeptOrLocal

\* NeoQtMainWindow::refresh does the same, and always fills the table when the
\* window is not paused.
LEMMA RefreshTable ==
    ASSUME NEW ok \in BOOLEAN, Refresh(ok)
    PROVE  TableKeptOrLocal /\ (monitoring' => table'.source = "local")
  BY DEF Refresh, ProcessesUpdated, ShowLocal, TableKeptOrLocal

\* Steps that leave flags, question and signals alone and refresh the table.
LEMMA QuietStep ==
    ASSUME IInv, TableKeptOrLocal,
           UNCHANGED <<viewing, polling, modal, asked, signalled>>
    PROVE  IInv'
  BY DEF IInv, TimersFollowPause, SourceInv, TableInv, AskedInv, SignalsStayLocal,
         TableKeptOrLocal, polling

\* The initial state.
LEMMA InitIInv == Init => IInv
  BY DEF Init, IInv, TimersFollowPause, SourceInv, TableInv, AskedInv, SignalsStayLocal

\* The handlers that refresh and nothing else.
LEMMA RefreshStep ==
    ASSUME IInv, NEW ok \in BOOLEAN,
           ControllerTick(ok) \/ WindowTick(ok) \/ PressRefresh(ok) \/ ChangeFilter(ok)
    PROVE  IInv'
<1>1. CASE ControllerTick(ok)
  BY <1>1, ControllerRefreshTable, QuietStep DEF ControllerTick, calm
<1>2. CASE WindowTick(ok)
  BY <1>2, RefreshTable, QuietStep DEF WindowTick, calm
<1>3. CASE PressRefresh(ok)
  BY <1>3, RefreshTable, QuietStep DEF PressRefresh, calm
<1>4. CASE ChangeFilter(ok)
  BY <1>4, ControllerRefreshTable, QuietStep DEF ChangeFilter, calm
<1> QED BY <1>1, <1>2, <1>3, <1>4

\* The handlers of the pause button and of Back to Local.
LEMMA PauseStep ==
    ASSUME IInv, NEW ok \in BOOLEAN, TogglePause(ok) \/ BackToLocal(ok)
    PROVE  IInv'
<1> USE DEF IInv, TimersFollowPause, SourceInv, TableInv, AskedInv,
            SignalsStayLocal, calm
<1>1. CASE TogglePause(ok) /\ monitoring
  BY <1>1 DEF TogglePause, StopPolling
<1>2. CASE TogglePause(ok) /\ ~monitoring
  <2>1. Refresh(ok) /\ monitoring' /\ running' /\ ticking'
    BY <1>2 DEF TogglePause, Resume
  <2>2. table'.source = "local"
    BY <2>1, RefreshTable
  <2> QED BY <1>2, <2>1, <2>2 DEF TogglePause
<1>3. CASE BackToLocal(ok)
  <2>1. Refresh(ok) /\ monitoring' /\ running' /\ ticking'
    BY <1>3 DEF BackToLocal, Resume
  <2>2. table'.source = "local"
    BY <2>1, RefreshTable
  <2> QED BY <1>3, <2>1, <2>2 DEF BackToLocal
<1> QED BY <1>1, <1>2, <1>3

\* The handlers of the context menu and the question it leads to.
LEMMA MenuStep ==
    ASSUME IInv, OpenMenu \/ ChooseSignal \/ Dismiss
    PROVE  IInv'
<1> USE DEF IInv, TimersFollowPause, SourceInv, TableInv, AskedInv,
            SignalsStayLocal, seen, polling
<1>1. CASE OpenMenu
  BY <1>1 DEF OpenMenu
<1>2. CASE ChooseSignal
  BY <1>2 DEF ChooseSignal
<1>3. CASE Dismiss
  BY <1>3 DEF Dismiss
<1> QED BY <1>1, <1>2, <1>3

\* Yes: the signal goes to the process asked about, a local one.
LEMMA ConfirmStep ==
    ASSUME IInv, NEW ok \in BOOLEAN, Confirm(ok)
    PROVE  IInv'
<1>1. TableKeptOrLocal
  BY RefreshTable DEF Confirm
<1>2. asked = "local"
  BY DEF Confirm, IInv, AskedInv
<1> QED BY <1>1, <1>2 DEF Confirm, IInv, TimersFollowPause, SourceInv, TableInv,
           AskedInv, SignalsStayLocal, TableKeptOrLocal, polling

\* A posted event: the dialog's deletion, a message, or a remote table.
LEMMA PostedEventStep ==
    ASSUME IInv, PostedEvent
    PROVE  IInv'
<1>1. UNCHANGED menu
  BY DEF PostedEvent
<1>2. CASE UNCHANGED <<viewing, polling, table>>
  BY <1>1, <1>2, QuietStep DEF TableKeptOrLocal, menu
<1>3. CASE ShowRemoteProcesses(Head(posted).of)
  <2>1. table'.source = "remote" /\ viewing'
    BY <1>3 DEF ShowRemoteProcesses
  <2>2. TimersFollowPause'
    <3>1. CASE monitoring
      BY <1>3, <3>1 DEF ShowRemoteProcesses, StopPolling, TimersFollowPause
    <3>2. CASE ~monitoring
      <4>1. UNCHANGED polling
        BY <1>3, <3>2 DEF ShowRemoteProcesses
      <4> QED BY <4>1 DEF polling, IInv, TimersFollowPause
    <3> QED BY <3>1, <3>2
  <2> QED BY <1>1, <2>1, <2>2 DEF menu, IInv, SourceInv, TableInv, AskedInv,
             SignalsStayLocal
<1>4. \/ UNCHANGED <<viewing, polling, table>>
      \/ ShowRemoteProcesses(Head(posted).of)
  BY DEF PostedEvent, ReportResult
<1> QED BY <1>2, <1>3, <1>4

\* Everything else leaves the table and what hangs on it alone.
LEMMA OtherStep ==
    ASSUME IInv,
           \/ \E m \in SortModes : ChangeSortMode(m)
           \/ ShowDialog \/ CloseDialog \/ LoadChanges
           \/ \E phase \in {"scan", "deploy"} : RunAction(phase)
           \/ \E r \in Runs : WorkerSorts(r) \/ WorkerPosts(r)
    PROVE  IInv'
<1>1. CASE \E m \in SortModes : ChangeSortMode(m)
  BY <1>1, QuietStep DEF ChangeSortMode, ProcessesUpdated, ShowLocal,
     TableKeptOrLocal, menu
<1>2. CASE ~ \E m \in SortModes : ChangeSortMode(m)
  <2>1. UNCHANGED <<viewing, polling, table, menu>>
    BY <1>2 DEF ShowDialog, CloseDialog, LoadChanges, RunAction, WorkerSorts,
       WorkerPosts, still
  <2> QED BY <2>1, QuietStep DEF TableKeptOrLocal, menu
<1> QED BY <1>1, <1>2

\* Every step preserves the invariant.
LEMMA NextIInv == IInv /\ [Next]_vars => IInv'
<1> SUFFICES ASSUME IInv, [Next]_vars PROVE IInv'
  OBVIOUS
<1>1. CASE UNCHANGED vars
  BY <1>1, QuietStep DEF vars, menu, TableKeptOrLocal
<1>2. CASE Next
  BY <1>2, RefreshStep, PauseStep, MenuStep, ConfirmStep, PostedEventStep,
     OtherStep DEF Next
<1> QED BY <1>1, <1>2

\* The invariant holds in every reachable state.
LEMMA Invariance == Spec => []IInv
  BY InitIInv, NextIInv, PTL DEF Spec

\* Pause and the two timers agree after every handler.
THEOREM PauseStopsBothTimers == Spec => []TimersFollowPause
<1>1. IInv => TimersFollowPause
  BY DEF IInv
<1> QED BY <1>1, Invariance, PTL

\* No signal is sent to the pid of a remote process, whatever comes in while
\* the menu or the question is open.
THEOREM SignalsOnlyLocalProcesses == Spec => []SignalsStayLocal
<1>1. IInv => SignalsStayLocal
  BY DEF IInv
<1> QED BY <1>1, Invariance, PTL

-----------------------------------------------------------------------------
(* A dialog and its runs: the types.                                       *)

Run   == [dialog : 1 .. MaxDialogs, phase : Phases, raced : BOOLEAN]
Event == [event : {"delete", "fetched", "ended"}, of : Nat]

RunOf(d, p, x) == [dialog |-> d, phase |-> p, raced |-> x]

\* What the steps make of a run.
RacedRun(w) == [w EXCEPT !.raced = TRUE]
RunIn(w, p) == [w EXCEPT !.phase = p]

LEMMA RunOfSteps ==
    ASSUME NEW d, NEW p, NEW x
    PROVE  /\ \E y \in BOOLEAN : RacedRun(RunOf(d, p, x)) = RunOf(d, p, y)
           /\ \A q : RunIn(RunOf(d, p, x), q) = RunOf(d, q, x)
  <1>1. \A y : [RunOf(d, p, x) EXCEPT !.raced = y] = RunOf(d, p, y)
    BY DEF RunOf
  <1>2. \A q : RunIn(RunOf(d, p, x), q) = RunOf(d, q, x)
    BY DEF RunIn, RunOf
  <1>3. \E y \in BOOLEAN : RacedRun(RunOf(d, p, x)) = RunOf(d, p, y)
    BY <1>1, Zenon DEF RacedRun
  <1> QED
    BY <1>2, <1>3

LEMMA RunOfIsRun ==
    ASSUME NEW d \in 1 .. MaxDialogs, NEW p \in Phases, NEW x \in BOOLEAN
    PROVE  RunOf(d, p, x) \in Run /\ RunOf(d, p, x).dialog = d /\ RunOf(d, p, x).phase = p
  BY DEF RunOf, Run

LEMMA RunForm ==
    ASSUME NEW w \in Run
    PROVE  /\ w.dialog \in 1 .. MaxDialogs
           /\ RacedRun(w) \in Run /\ RacedRun(w).dialog = w.dialog /\ RacedRun(w).phase = w.phase
           /\ \A p \in Phases : /\ RunIn(w, p) \in Run /\ RunIn(w, p).dialog = w.dialog
                                /\ RunIn(w, p).phase = p
  <1>1. w = RunOf(w.dialog, w.phase, w.raced)
    BY DEF Run, RunOf
  <1>2. w.dialog \in 1 .. MaxDialogs /\ w.phase \in Phases /\ w.raced \in BOOLEAN
    BY DEF Run
  <1>3. PICK d, p, x : d = w.dialog /\ p = w.phase /\ x = w.raced
    OBVIOUS
  <1>4. w = RunOf(d, p, x)
    BY <1>1, <1>3
  <1>5. PICK y \in BOOLEAN : RacedRun(w) = RunOf(d, p, y)
    BY <1>4, RunOfSteps
  <1>6. \A q : RunIn(w, q) = RunOf(d, q, x)
    BY <1>4, RunOfSteps
  <1>7. x \in BOOLEAN /\ d \in 1 .. MaxDialogs /\ p \in Phases
    BY <1>2, <1>3
  <1> QED
    BY <1>3, <1>5, <1>6, <1>7, RunOfIsRun

\* The runs are the same, of the same dialogs, in the same phases.
SameRuns ==
    /\ Len(worker') = Len(worker) /\ DOMAIN worker' = DOMAIN worker
    /\ \A r \in Runs : worker'[r].dialog = worker[r].dialog /\ worker'[r].phase = worker[r].phase

\* TypeOK by the handlers that change its parts together.
TableType  == order \in Orders /\ table \in [source : {"local", "remote"}, order : Orders]
                               /\ current \in BOOLEAN /\ noticed \in BOOLEAN
RemoteType == /\ dialogs \in 0 .. MaxDialogs /\ dialog \in 0 .. dialogs
              /\ shown \in BOOLEAN /\ busy \in BOOLEAN
              /\ worker \in Seq(Run) /\ posted \in Seq(Event)
OtherType  == /\ viewing \in BOOLEAN
              /\ monitoring \in BOOLEAN /\ running \in BOOLEAN /\ ticking \in BOOLEAN
              /\ sort_mode \in SortModes /\ overloaded \in BOOLEAN
              /\ modal \in {"none", "menu", "confirm"}
              /\ asked \in {"none", "local", "remote"}
              /\ signalled \subseteq {"local", "remote"}

LEMMA TypeParts == TypeOK <=> TableType /\ RemoteType /\ OtherType
  BY DEF TypeOK, TableType, RemoteType, OtherType, Run, Event

LEMMA TypePartsNext == TypeOK' <=> TableType' /\ RemoteType' /\ OtherType'
  BY DEF TypeOK, TableType, RemoteType, OtherType, Run, Event

LEMMA SortListTypes ==
    ASSUME TypeOK, NEW m \in SortModes, SortList(m)
    PROVE  order' \in Orders /\ worker' \in Seq(Run) /\ SameRuns
  <1> DEFINE race == m # SORT_CPU /\ \E r \in Runs : Sorting(r)
             new(r) == IF race /\ Sorting(r) THEN RacedRun(worker[r]) ELSE worker[r]
  <1>1. worker \in Seq(Run) /\ Len(worker) \in Nat /\ Runs = 1 .. Len(worker)
    BY TypeParts DEF RemoteType, Runs
  <1>2. \A r \in Runs : new(r) \in Run /\ new(r).dialog = worker[r].dialog
                                       /\ new(r).phase = worker[r].phase
    BY <1>1, RunForm
  <1>3. worker' = [r \in Runs |-> new(r)]
    BY Zenon DEF SortList, RacedRun
  <1> HIDE DEF new
  <1>4. worker' \in Seq(Run) /\ Len(worker') = Len(worker) /\ DOMAIN worker' = DOMAIN worker
    BY <1>1, <1>2, <1>3
  <1>5. order' \in Orders
    BY DEF SortList, Orders
  <1> QED
    BY <1>2, <1>3, <1>4, <1>5 DEF SameRuns, Runs

\* What a refresh, successful or not, leaves.
LEMMA RefreshTypes ==
    ASSUME TypeOK, NEW ok \in BOOLEAN, ControllerRefresh(ok) \/ Refresh(ok)
    PROVE  TableType' /\ worker' \in Seq(Run) /\ SameRuns
  <1>1. CASE SortList(sort_mode) /\ ProcessesUpdated
    <2>1. order' \in Orders /\ worker' \in Seq(Run) /\ SameRuns
      BY <1>1, SortListTypes DEF TypeOK
    <2>2. TableType'
      <3>1. noticed' = overloaded /\ overloaded \in BOOLEAN /\ current' = FALSE
        BY <1>1, TypeParts DEF OtherType, ProcessesUpdated, ShowLocal
      <3>2. table' \in [source : {"local", "remote"}, order : Orders]
        BY <1>1, <2>1 DEF ProcessesUpdated, ShowLocal
      <3> QED
        BY <2>1, <3>1, <3>2 DEF TableType
    <2> QED
      BY <2>1, <2>2
  <1>2. CASE UNCHANGED <<order, worker, noticed>> /\ (ShowLocal \/ UNCHANGED <<table, current>>)
    <2>1. order \in Orders /\ current' \in BOOLEAN /\ noticed \in BOOLEAN
      BY <1>2, TypeParts DEF TableType, ShowLocal
    <2>2. table' \in [source : {"local", "remote"}, order : Orders]
      BY <1>2, <2>1, TypeParts DEF TableType, ShowLocal
    <2> QED
      BY <1>2, <2>1, <2>2, TypeParts DEF TableType, RemoteType, SameRuns, Runs
  <1> QED
    BY <1>1, <1>2 DEF ControllerRefresh, Refresh

-----------------------------------------------------------------------------
(* A dialog and its runs: the invariant.                                   *)

\* A run belongs to a dialog there was.
RunsInv == \A r \in Runs : worker[r].dialog \in 1 .. dialogs

\* A posted event that is the result of a run.
Result(i) == posted[i].event # "delete"

\* A run posts its result once, as it ends.
ResultsInv ==
    /\ \A i \in DOMAIN posted : Result(i) =>
          posted[i].of \in Runs /\ worker[posted[i].of].phase = "done"
    /\ \A i, j \in DOMAIN posted :
          Result(i) /\ Result(j) /\ posted[i].of = posted[j].of => i = j

\* The open dialog has one run out when it is busy, otherwise none.
OwnRunInv ==
    dialog # 0 => /\ ~busy => Pending(dialog) = {}
                  /\ busy => \E r \in Runs : Pending(dialog) = {r}

\* A dialog that is visible exists.
ShownInv == shown => dialog # 0

BusyInv == TypeOK /\ ShownInv /\ RunsInv /\ ResultsInv /\ OwnRunInv

\* Everything but the dialogs' own steps keeps them.
LEMMA RemoteKept ==
    ASSUME BusyInv, UNCHANGED <<remote, posted>>, SameRuns
    PROVE  ShownInv' /\ RunsInv' /\ ResultsInv' /\ OwnRunInv'
  <1>1. RunsInv'
    BY DEF BusyInv, RunsInv, Runs, SameRuns, remote
  <1>2. ResultsInv'
    BY DEF BusyInv, ResultsInv, Result, Runs, SameRuns
  <1>3. \A d : Pending(d)' = Pending(d)
    BY DEF Pending, Runs, SameRuns
  <1>4. OwnRunInv'
    BY <1>3 DEF BusyInv, OwnRunInv, remote, Runs, SameRuns
  <1>5. ShownInv'
    BY DEF BusyInv, ShownInv, remote
  <1> QED
    BY <1>1, <1>2, <1>4, <1>5

LEMMA RefreshBusy ==
    ASSUME BusyInv, NEW ok \in BOOLEAN, ControllerRefresh(ok) \/ Refresh(ok),
           UNCHANGED <<remote, posted>>, OtherType'
    PROVE  BusyInv'
  <1>1. TableType' /\ worker' \in Seq(Run) /\ SameRuns
    BY RefreshTypes DEF BusyInv
  <1>2. TypeOK'
    BY <1>1, TypeParts, TypePartsNext DEF BusyInv, RemoteType, remote
  <1> QED
    BY <1>1, <1>2, RemoteKept DEF BusyInv

LEMMA QuietBusy ==
    ASSUME BusyInv, UNCHANGED <<remote, posted, worker>>, TableType', OtherType'
    PROVE  BusyInv'
  <1>1. SameRuns
    BY DEF SameRuns
  <1>2. TypeOK'
    BY TypeParts, TypePartsNext DEF BusyInv, RemoteType, remote
  <1> QED
    BY <1>1, <1>2, RemoteKept DEF BusyInv

\* The handlers of the window itself: its table, timers, menu and questions.
LEMMA WindowBusy ==
    ASSUME BusyInv, IInv, NEW ok \in BOOLEAN,
           \/ ControllerTick(ok) \/ WindowTick(ok) \/ PressRefresh(ok)
           \/ ChangeFilter(ok) \/ TogglePause(ok) \/ BackToLocal(ok) \/ Confirm(ok)
    PROVE  BusyInv'
  <1>1. UNCHANGED <<remote, posted>>
    BY DEF ControllerTick, WindowTick, PressRefresh, ChangeFilter, TogglePause, BackToLocal,
           Confirm, calm
  <1>2. OtherType'
    <2>1. CASE ControllerTick(ok) \/ WindowTick(ok) \/ PressRefresh(ok) \/ ChangeFilter(ok)
      BY <2>1, TypeParts DEF BusyInv, OtherType, ControllerTick, WindowTick, PressRefresh,
         ChangeFilter, calm, polling
    <2>2. CASE TogglePause(ok) \/ BackToLocal(ok)
      BY <2>2, TypeParts DEF BusyInv, OtherType, TogglePause, BackToLocal, StopPolling, Resume,
         calm
    <2>3. CASE Confirm(ok)
      <3>1. asked = "local"
        BY <2>3 DEF Confirm, IInv, AskedInv
      <3> QED
        BY <2>3, <3>1, TypeParts DEF BusyInv, OtherType, Confirm, polling
    <2> QED
      BY <2>1, <2>2, <2>3
  <1>3. CASE ControllerRefresh(ok) \/ Refresh(ok)
    BY <1>1, <1>2, <1>3, RefreshBusy
  <1>4. CASE UNCHANGED <<order, worker, table, current, noticed>>
    BY <1>1, <1>2, <1>4, QuietBusy, TypeParts DEF BusyInv, TableType
  <1> QED
    BY <1>3, <1>4 DEF ControllerTick, WindowTick, PressRefresh, ChangeFilter, TogglePause,
       BackToLocal, Confirm, Resume

\* The handlers of the window that refresh nothing.
LEMMA MenuBusy ==
    ASSUME BusyInv, IInv, OpenMenu \/ ChooseSignal \/ Dismiss \/ LoadChanges \/ UNCHANGED vars
    PROVE  BusyInv'
  <1>1. UNCHANGED <<remote, posted, worker, order>>
    BY DEF OpenMenu, ChooseSignal, Dismiss, LoadChanges, vars, seen, local, threads
  <1>2. TableType'
    <2>1. table' = table /\ current' \in BOOLEAN /\ noticed' \in BOOLEAN
      BY TypeParts DEF BusyInv, TableType, OpenMenu, ChooseSignal, Dismiss, LoadChanges, vars,
         seen, alarm
    <2> QED
      BY <1>1, <2>1, TypeParts DEF BusyInv, TableType
  <1>3. OtherType'
    <2>1. CASE OpenMenu
      BY <2>1, TypeParts DEF BusyInv, OtherType, OpenMenu, seen, local, polling, alarm
    <2>2. CASE ChooseSignal
      <3>1. table.source \in {"local", "remote"}
        BY DEF IInv, SourceInv
      <3> QED
        BY <2>2, <3>1, TypeParts DEF BusyInv, OtherType, ChooseSignal, seen, local, polling, alarm
    <2>3. CASE Dismiss
      BY <2>3, TypeParts DEF BusyInv, OtherType, Dismiss, seen, local, polling, alarm
    <2>4. CASE LoadChanges
      BY <2>4, TypeParts DEF BusyInv, OtherType, LoadChanges, local, polling, menu
    <2>5. CASE UNCHANGED vars
      BY <2>5, TypeParts DEF BusyInv, OtherType, vars, local, polling, menu, alarm
    <2> QED
      BY <2>1, <2>2, <2>3, <2>4, <2>5
  <1> QED
    BY <1>1, <1>2, <1>3, QuietBusy

LEMMA ChangeSortModeBusy ==
    ASSUME BusyInv, NEW m \in SortModes, ChangeSortMode(m)
    PROVE  BusyInv'
  <1>1. order' \in Orders /\ worker' \in Seq(Run) /\ SameRuns
    BY SortListTypes DEF BusyInv, ChangeSortMode
  <1>2. UNCHANGED <<remote, posted>> /\ OtherType'
    BY TypeParts DEF BusyInv, OtherType, ChangeSortMode, polling, menu
  <1>3. TableType'
    <2>1. noticed' \in BOOLEAN /\ current' = FALSE
      BY TypeParts DEF BusyInv, OtherType, ChangeSortMode, ProcessesUpdated, ShowLocal
    <2>2. table' \in [source : {"local", "remote"}, order : Orders]
      BY <1>1 DEF ChangeSortMode, ProcessesUpdated, ShowLocal
    <2> QED
      BY <1>1, <2>1, <2>2 DEF TableType
  <1>4. TypeOK'
    BY <1>1, <1>2, <1>3, TypeParts, TypePartsNext DEF BusyInv, RemoteType, remote
  <1> QED
    BY <1>1, <1>2, <1>4, RemoteKept DEF BusyInv

-----------------------------------------------------------------------------
(* A dialog and its runs: the steps of the dialog and of the workers.      *)

\* Run r has not come back to its dialog: it goes on, or its result is posted.
Out(r) ==
    worker[r].phase # "done" \/ \E i \in DOMAIN posted : Result(i) /\ posted[i].of = r

\* OwnRunInv in terms of Out.
LEMMA OwnRunIs ==
    OwnRunInv <=>
        (dialog # 0 =>
            LET out == {r \in Runs : worker[r].dialog = dialog /\ Out(r)}
            IN  (~busy => out = {}) /\ (busy => \E r \in Runs : out = {r}))
  BY DEF OwnRunInv, Pending, Out, Result

LEMMA OwnRunIsNext ==
    OwnRunInv' <=>
        (dialog' # 0 =>
            LET out == {r \in Runs' : worker'[r].dialog = dialog' /\ Out(r)'}
            IN  (~busy' => out = {}) /\ (busy' => \E r \in Runs' : out = {r}))
  BY DEF OwnRunInv, Pending, Out, Result

\* What the dialog's and the workers' steps leave of the types.
LEMMA StillTypes ==
    ASSUME TypeOK, UNCHANGED still, RemoteType'
    PROVE  TypeOK'
  BY TypeParts, TypePartsNext DEF TableType, OtherType, still, local, polling, menu, alarm

LEMMA ShowDialogBusy ==
    ASSUME BusyInv, ShowDialog
    PROVE  BusyInv'
  <1>1. CASE dialog # 0
    <2>1. UNCHANGED <<dialog, dialogs, busy, worker, posted>> /\ shown' = TRUE
      BY <1>1 DEF ShowDialog, threads
    <2>2. RemoteType'
      BY <2>1, TypeParts DEF BusyInv, RemoteType
    <2>3. RunsInv' /\ ResultsInv'
      BY <2>1 DEF BusyInv, RunsInv, ResultsInv, Result, Runs
    <2>4. OwnRunInv' /\ ShownInv'
      <3>1. OwnRunInv' <=> OwnRunInv
        BY <2>1 DEF OwnRunInv, Pending, Runs
      <3> QED
        BY <1>1, <2>1, <3>1 DEF BusyInv, ShownInv
    <2>5. TypeOK'
      BY <2>2, StillTypes DEF BusyInv, ShowDialog
    <2> QED
      BY <2>3, <2>4, <2>5 DEF BusyInv
  <1>2. CASE dialog = 0
    <2>1. /\ dialogs < MaxDialogs /\ dialogs' = dialogs + 1 /\ dialog' = dialogs + 1
          /\ busy' = FALSE /\ shown' = TRUE /\ UNCHANGED <<worker, posted>>
      BY <1>2 DEF ShowDialog, threads
    <2>2. dialogs \in 0 .. MaxDialogs /\ MaxDialogs \in Nat
      BY WindowAssumption, TypeParts DEF BusyInv, RemoteType
    <2>3. RemoteType'
      <3>1. dialogs' \in 0 .. MaxDialogs /\ dialog' \in 0 .. dialogs'
        BY <2>1, <2>2
      <3>2. worker' \in Seq(Run) /\ posted' \in Seq(Event)
        BY <2>1, TypeParts DEF BusyInv, RemoteType
      <3> QED
        BY <2>1, <3>1, <3>2 DEF RemoteType
    <2>4. RunsInv' /\ ResultsInv'
      BY <2>1, <2>2 DEF BusyInv, RunsInv, ResultsInv, Result, Runs
    <2>5. \A r \in Runs' : worker'[r].dialog # dialog'
      <3>1. dialogs + 1 \notin 1 .. dialogs
        BY <2>2
      <3> QED
        BY <2>1, <3>1 DEF BusyInv, RunsInv, Runs
    <2>6. OwnRunInv'
      BY <2>1, <2>5, OwnRunIsNext
    <2>7. ShownInv'
      BY <2>1, <2>2 DEF ShownInv
    <2> QED
      BY <2>3, <2>4, <2>6, <2>7, StillTypes DEF BusyInv, ShowDialog
  <1> QED
    BY <1>1, <1>2

\* An event appended.
LEMMA PostedAppend ==
    ASSUME posted \in Seq(Event), NEW e \in Event, posted' = Append(posted, e)
    PROVE  /\ posted' \in Seq(Event) /\ Len(posted) \in Nat
           /\ DOMAIN posted = 1 .. Len(posted) /\ DOMAIN posted' = 1 .. Len(posted) + 1
           /\ posted'[Len(posted) + 1] = e
           /\ \A i \in DOMAIN posted : posted'[i] = posted[i]
  <1>1. posted' \in Seq(Event) /\ Len(posted') = Len(posted) + 1
    OBVIOUS
  <1>2. Len(posted) \in Nat /\ DOMAIN posted = 1 .. Len(posted)
    OBVIOUS
  <1>3. DOMAIN posted' = 1 .. Len(posted')
    BY <1>1
  <1>4. posted'[Len(posted) + 1] = e /\ \A i \in 1 .. Len(posted) : posted'[i] = posted[i]
    BY <1>2
  <1> QED
    BY <1>1, <1>2, <1>3, <1>4

LEMMA EventForm ==
    ASSUME NEW k \in {"delete", "fetched", "ended"}, NEW n \in Nat
    PROVE  LET e == [event |-> k, of |-> n] IN e \in Event /\ e.event = k /\ e.of = n
  BY DEF Event

LEMMA CloseDialogBusy ==
    ASSUME BusyInv, CloseDialog
    PROVE  BusyInv'
  <1> DEFINE delete == [event |-> "delete", of |-> dialog]
  <1>1. /\ UNCHANGED <<still, dialog, dialogs, busy, worker>> /\ shown' = FALSE
        /\ posted' = posted \/ posted' = Append(posted, delete)
    BY DEF CloseDialog
  <1>2. dialog \in 0 .. dialogs /\ dialogs \in Nat /\ posted \in Seq(Event)
    BY TypeParts DEF BusyInv, RemoteType
  <1>3. delete \in Event /\ delete.event = "delete"
    BY <1>2, EventForm
  <1> HIDE DEF delete
  <1>4. /\ posted' \in Seq(Event)
        /\ \A i \in DOMAIN posted' :
              posted'[i].event # "delete" => i \in DOMAIN posted /\ posted'[i] = posted[i]
        /\ \A i \in DOMAIN posted : i \in DOMAIN posted' /\ posted'[i] = posted[i]
    <2>1. CASE posted' = posted
      BY <1>2, <2>1
    <2>2. CASE posted' = Append(posted, delete)
      BY <1>2, <1>3, <2>2, PostedAppend
    <2> QED
      BY <1>1, <2>1, <2>2
  <1>5. RemoteType'
    BY <1>1, <1>4, TypeParts DEF BusyInv, RemoteType
  <1>6. RunsInv'
    BY <1>1 DEF BusyInv, RunsInv, Runs
  <1>7. ResultsInv'
    BY <1>1, <1>4 DEF BusyInv, ResultsInv, Result, Runs
  <1>8. \A d : Pending(d)' = Pending(d)
    BY <1>1, <1>4 DEF Pending, Runs
  <1>9. OwnRunInv' /\ ShownInv'
    BY <1>1, <1>8 DEF BusyInv, OwnRunInv, ShownInv, Runs
  <1> QED
    BY <1>1, <1>5, <1>6, <1>7, <1>9, StillTypes DEF BusyInv

LEMMA RunActionBusy ==
    ASSUME BusyInv, NEW phase \in {"scan", "deploy"}, RunAction(phase)
    PROVE  BusyInv'
  <1> DEFINE w == RunOf(dialog, phase, FALSE)
  <1>1. /\ UNCHANGED <<still, dialog, shown, dialogs, posted>>
        /\ busy' = TRUE /\ ~busy /\ shown /\ worker' = Append(worker, w)
    BY DEF RunAction, RunOf
  <1>0. PICK n : n = Len(worker)
    OBVIOUS
  <1>2. /\ worker \in Seq(Run) /\ n \in Nat /\ Runs = 1 .. n
        /\ dialog \in 1 .. dialogs /\ dialogs \in 0 .. MaxDialogs
    <2>1. dialog # 0 /\ dialog \in 0 .. dialogs /\ dialogs \in Nat
      BY <1>1, TypeParts DEF BusyInv, RemoteType, ShownInv
    <2> QED
      BY <1>0, <2>1, TypeParts DEF BusyInv, RemoteType, Runs
  <1>3. w \in Run /\ w.dialog = dialog /\ w.phase # "done"
    <2>1. dialog \in 1 .. MaxDialogs /\ phase \in Phases /\ phase # "done"
      BY <1>2, WindowAssumption DEF Phases
    <2> QED
      BY <2>1, RunOfIsRun
  <1> HIDE DEF w
  <1>4. /\ worker' \in Seq(Run) /\ Len(worker') = n + 1 /\ worker'[n + 1] = w
        /\ \A r \in 1 .. n : worker'[r] = worker[r]
    BY <1>0, <1>1, <1>2, <1>3
  <1>5. Runs' = 1 .. n + 1
    BY <1>4 DEF Runs
  <1>6. RemoteType'
    BY <1>1, <1>4, TypeParts DEF BusyInv, RemoteType
  <1>7. RunsInv'
    BY <1>1, <1>2, <1>3, <1>4, <1>5 DEF BusyInv, RunsInv
  <1>8. ResultsInv'
    BY <1>1, <1>2, <1>4, <1>5 DEF BusyInv, ResultsInv, Result
  <1>9. {r \in Runs' : worker'[r].dialog = dialog' /\ Out(r)'} = {n + 1}
    <2>1. \A r \in Runs : ~(worker[r].dialog = dialog /\ Out(r))
      BY <1>1, <1>2, OwnRunIs DEF BusyInv
    <2>2. \A r \in Runs : worker'[r] = worker[r] /\ (Out(r)' <=> Out(r))
      BY <1>1, <1>2, <1>4 DEF Out, Result
    <2>3. worker'[n + 1].dialog = dialog /\ Out(n + 1)'
      BY <1>3, <1>4 DEF Out
    <2>4. \A r \in Runs' : r \in Runs \/ r = n + 1
      BY <1>2, <1>5
    <2>5. n + 1 \in Runs'
      BY <1>2, <1>5
    <2>6. dialog' = dialog
      BY <1>1
    <2> QED
      BY <2>1, <2>2, <2>3, <2>4, <2>5, <2>6
  <1>10. OwnRunInv' /\ ShownInv'
    <2>1. n + 1 \in Runs'
      BY <1>2, <1>5
    <2>2. OwnRunInv'
      BY <1>1, <1>9, <2>1, OwnRunIsNext
    <2> QED
      BY <1>1, <2>2 DEF BusyInv, ShownInv
  <1>11. TypeOK'
    BY <1>1, <1>6, StillTypes DEF BusyInv
  <1> QED
    BY <1>7, <1>8, <1>10, <1>11 DEF BusyInv

\* A worker goes on to the next phase.
LEMMA PhaseTo ==
    ASSUME worker \in Seq(Run), NEW r \in Runs, NEW p \in Phases,
           worker' = [worker EXCEPT ![r].phase = p]
    PROVE  /\ worker' \in Seq(Run) /\ Runs' = Runs
           /\ worker'[r].phase = p
           /\ \A q \in Runs : worker'[q].dialog = worker[q].dialog
           /\ \A q \in Runs \ {r} : worker'[q] = worker[q]
  <1>1. worker[r] \in Run /\ Len(worker) \in Nat /\ Runs = 1 .. Len(worker)
    BY DEF Runs
  <1>2. PICK w : w = RunIn(worker[r], p)
    OBVIOUS
  <1>3. w \in Run /\ w.dialog = worker[r].dialog /\ w.phase = p
    BY <1>1, <1>2, RunForm
  <1>4. worker' = [worker EXCEPT ![r] = w]
    BY <1>2, Zenon DEF RunIn
  <1>5. worker' \in Seq(Run) /\ DOMAIN worker' = DOMAIN worker
    BY <1>1, <1>3, <1>4
  <1>6. worker'[r] = w /\ \A q \in Runs \ {r} : worker'[q] = worker[q]
    BY <1>1, <1>4 DEF Runs
  <1> QED
    BY <1>3, <1>5, <1>6 DEF Runs

LEMMA WorkerSortsBusy ==
    ASSUME BusyInv, NEW r \in Runs, WorkerSorts(r)
    PROVE  BusyInv'
  <1>1. /\ worker[r].phase = "scan" /\ worker' = [worker EXCEPT ![r].phase = "sort"]
        /\ UNCHANGED <<still, dialog, shown, dialogs, busy, posted>>
    BY DEF WorkerSorts, remote
  <1>2. worker \in Seq(Run) /\ "sort" \in Phases
    BY TypeParts DEF BusyInv, RemoteType, Phases
  <1>3. /\ worker' \in Seq(Run) /\ Runs' = Runs
        /\ worker'[r].phase = "sort"
        /\ \A q \in Runs : worker'[q].dialog = worker[q].dialog
        /\ \A q \in Runs \ {r} : worker'[q] = worker[q]
    BY <1>1, <1>2, PhaseTo
  <1>4. TypeOK'
    <2>1. RemoteType'
      BY <1>1, <1>3, TypeParts DEF BusyInv, RemoteType
    <2> QED
      BY <1>1, <2>1, StillTypes DEF BusyInv
  <1>5. RunsInv'
    BY <1>1, <1>3 DEF BusyInv, RunsInv
  <1>6. ResultsInv'
    BY <1>1, <1>3 DEF BusyInv, ResultsInv, Result
  <1>7. OwnRunInv' /\ ShownInv'
    <2>1. \A q \in Runs : Out(q)' <=> Out(q)
      BY <1>1, <1>3 DEF Out, Result
    <2>2. OwnRunInv'
      BY <1>1, <1>3, <2>1, OwnRunIs, OwnRunIsNext DEF BusyInv
    <2> QED
      BY <1>1, <2>2 DEF BusyInv, ShownInv
  <1> QED
    BY <1>4, <1>5, <1>6, <1>7 DEF BusyInv

LEMMA WorkerPostsBusy ==
    ASSUME BusyInv, NEW r \in Runs, WorkerPosts(r)
    PROVE  BusyInv'
  <1>1. /\ worker[r].phase # "done" /\ worker' = [worker EXCEPT ![r].phase = "done"]
        /\ UNCHANGED <<still, dialog, shown, dialogs, busy>>
    BY DEF WorkerPosts, remote
  <1>2. worker \in Seq(Run) /\ posted \in Seq(Event) /\ "done" \in Phases /\ r \in Nat
    BY TypeParts DEF BusyInv, RemoteType, Phases, Runs
  <1>3. /\ worker' \in Seq(Run) /\ Runs' = Runs
        /\ worker'[r].phase = "done"
        /\ \A q \in Runs : worker'[q].dialog = worker[q].dialog
        /\ \A q \in Runs \ {r} : worker'[q] = worker[q]
    BY <1>1, <1>2, PhaseTo
  <1>4. PICK e \in Event : e.event # "delete" /\ e.of = r /\ posted' = Append(posted, e)
    <2>1. PICK k \in {"fetched", "ended"} :
             posted' = Append(posted, [event |-> k, of |-> r])
      BY DEF WorkerPosts
    <2> QED
      BY <1>2, <2>1, EventForm
  <1>5. PICK n : n = Len(posted)
    OBVIOUS
  <1>6. /\ posted' \in Seq(Event) /\ n \in Nat
        /\ DOMAIN posted = 1 .. n /\ DOMAIN posted' = 1 .. n + 1
        /\ posted'[n + 1] = e
        /\ \A i \in DOMAIN posted : posted'[i] = posted[i]
    BY <1>2, <1>4, <1>5, PostedAppend
  <1>7. /\ n + 1 \in DOMAIN posted'
        /\ \A i \in DOMAIN posted : i \in DOMAIN posted' /\ i # n + 1
        /\ \A i \in DOMAIN posted' : i = n + 1 \/ i \in DOMAIN posted
    BY <1>6
  <1>8. TypeOK'
    <2>1. RemoteType'
      BY <1>1, <1>3, <1>6, TypeParts DEF BusyInv, RemoteType
    <2> QED
      BY <1>1, <2>1, StillTypes DEF BusyInv
  <1>9. RunsInv'
    BY <1>1, <1>3 DEF BusyInv, RunsInv
  <1>10. \A i \in DOMAIN posted : Result(i) => posted[i].of # r
    BY <1>1 DEF BusyInv, ResultsInv
  <1>11. ResultsInv'
    <2>1. \A i \in DOMAIN posted' : Result(i)' =>
             posted'[i].of \in Runs' /\ worker'[posted'[i].of].phase = "done"
      BY <1>3, <1>4, <1>6, <1>7, <1>10 DEF BusyInv, ResultsInv, Result
    <2>2. \A i, j \in DOMAIN posted' :
             Result(i)' /\ Result(j)' /\ posted'[i].of = posted'[j].of => i = j
      BY <1>4, <1>6, <1>7, <1>10 DEF BusyInv, ResultsInv, Result
    <2> QED
      BY <2>1, <2>2 DEF ResultsInv
  <1>12. OwnRunInv' /\ ShownInv'
    <2>1. \A q \in Runs : Out(q)' <=> Out(q)
      <3>1. Out(r) /\ Out(r)'
        BY <1>1, <1>4, <1>6, <1>7 DEF Out, Result
      <3>2. \A q \in Runs \ {r} : Out(q)' <=> Out(q)
        BY <1>3, <1>4, <1>6, <1>7 DEF Out, Result
      <3> QED
        BY <3>1, <3>2
    <2>2. OwnRunInv'
      BY <1>1, <1>3, <2>1, OwnRunIs, OwnRunIsNext DEF BusyInv
    <2> QED
      BY <1>1, <2>2 DEF BusyInv, ShownInv
  <1> QED
    BY <1>8, <1>9, <1>11, <1>12 DEF BusyInv

\* The oldest event taken.
LEMMA PostedTail ==
    ASSUME posted \in Seq(Event), posted # <<>>, posted' = Tail(posted)
    PROVE  /\ posted' \in Seq(Event) /\ 1 \in DOMAIN posted /\ Head(posted) = posted[1]
           /\ \A i \in DOMAIN posted' :
                 i + 1 \in DOMAIN posted /\ i + 1 # 1 /\ posted'[i] = posted[i + 1]
           /\ \A i \in DOMAIN posted \ {1} :
                 \E j \in DOMAIN posted' : j + 1 = i /\ posted'[j] = posted[i]
           /\ \A i, j \in DOMAIN posted' : i + 1 = j + 1 => i = j
  <1>1. PICK n \in Nat : n = Len(posted)
    OBVIOUS
  <1>2. n > 0 /\ DOMAIN posted = 1 .. n /\ Head(posted) = posted[1]
    BY <1>1
  <1>3. posted' \in Seq(Event) /\ Len(posted') = n - 1
    BY <1>1, <1>2
  <1>4. DOMAIN posted' = 1 .. n - 1
    BY <1>2, <1>3
  <1>5. \A i \in 1 .. n - 1 : posted'[i] = posted[i + 1]
    BY <1>1, <1>2
  <1>6. \A i \in DOMAIN posted \ {1} :
           \E j \in DOMAIN posted' : j + 1 = i /\ posted'[j] = posted[i]
    <2> SUFFICES ASSUME NEW i \in DOMAIN posted \ {1}
                 PROVE  \E j \in DOMAIN posted' : j + 1 = i /\ posted'[j] = posted[i]
      OBVIOUS
    <2>1. i - 1 \in DOMAIN posted' /\ (i - 1) + 1 = i
      BY <1>2, <1>4
    <2> QED
      BY <1>4, <1>5, <2>1
  <1> QED
    BY <1>2, <1>3, <1>4, <1>5, <1>6

\* What was out is still out, but for the run whose result is taken.
LEMMA TakenEvent ==
    ASSUME BusyInv, posted # <<>>, posted' = Tail(posted), UNCHANGED worker
    PROVE  /\ ResultsInv'
           /\ \A r \in Runs : (Result(1) => posted[1].of # r) => (Out(r)' <=> Out(r))
  <1>1. posted \in Seq(Event)
    BY TypeParts DEF BusyInv, RemoteType
  <1>2. /\ 1 \in DOMAIN posted
        /\ \A i \in DOMAIN posted' :
              i + 1 \in DOMAIN posted /\ i + 1 # 1 /\ posted'[i] = posted[i + 1]
        /\ \A i \in DOMAIN posted \ {1} :
              \E j \in DOMAIN posted' : j + 1 = i /\ posted'[j] = posted[i]
        /\ \A i, j \in DOMAIN posted' : i + 1 = j + 1 => i = j
    BY <1>1, PostedTail
  <1>3. ResultsInv'
    <2>1. \A i \in DOMAIN posted' : Result(i)' =>
             posted'[i].of \in Runs' /\ worker'[posted'[i].of].phase = "done"
      BY <1>2 DEF BusyInv, ResultsInv, Result, Runs
    <2>2. \A i, j \in DOMAIN posted' :
             Result(i)' /\ Result(j)' /\ posted'[i].of = posted'[j].of => i = j
      BY <1>2 DEF BusyInv, ResultsInv, Result
    <2> QED
      BY <2>1, <2>2 DEF ResultsInv
  <1>4. ASSUME NEW r \in Runs, Result(1) => posted[1].of # r
        PROVE  Out(r)' <=> Out(r)
    BY <1>2, <1>4 DEF Out, Result
  <1> QED
    BY <1>3, <1>4


\* What a result that reaches its dialog makes of the window.
LEMMA ReportTypes ==
    ASSUME TypeOK, NEW event, ReportResult(event), UNCHANGED <<local, alarm, menu>>
    PROVE  TableType' /\ OtherType' /\ busy' \in BOOLEAN
  <1>1. busy' \in BOOLEAN
    BY TypeParts DEF ReportResult, RemoteType
  <1>2. CASE UNCHANGED <<viewing, polling, table, current>>
    BY <1>1, <1>2, TypeParts DEF TableType, OtherType, local, polling, menu, alarm
  <1>3. CASE ShowRemoteProcesses(event.of)
    <2>1. OtherType'
      BY <1>3, TypeParts DEF OtherType, ShowRemoteProcesses, StopPolling, local, polling, menu,
         alarm
    <2>2. PICK o \in FetchedOrder(event.of) : table' = [source |-> "remote", order |-> o]
      BY <1>3 DEF ShowRemoteProcesses
    <2>3. o \in Orders
      BY <2>2, WindowAssumption DEF FetchedOrder, Orders
    <2>4. table' \in [source : {"local", "remote"}, order : Orders]
      BY <2>2, <2>3
    <2> QED
      BY <1>1, <1>3, <2>1, <2>4, TypeParts DEF TableType, ShowRemoteProcesses, local, alarm
  <1> QED
    BY <1>2, <1>3 DEF ReportResult

LEMMA PostedEventBusy ==
    ASSUME BusyInv, PostedEvent
    PROVE  BusyInv'
  <1>1. /\ posted # <<>> /\ posted' = Tail(posted)
        /\ UNCHANGED <<local, menu, dialogs, worker, alarm>>
    BY DEF PostedEvent
  <1>2. posted \in Seq(Event) /\ dialog \in 0 .. dialogs /\ dialogs \in 0 .. MaxDialogs
    BY TypeParts DEF BusyInv, RemoteType
  <1>3. posted' \in Seq(Event) /\ 1 \in DOMAIN posted /\ Head(posted) = posted[1]
    BY <1>1, <1>2, PostedTail
  <1>4. /\ ResultsInv'
        /\ \A r \in Runs : (Result(1) => posted[1].of # r) => (Out(r)' <=> Out(r))
    BY <1>1, TakenEvent
  <1>5. RunsInv'
    BY <1>1 DEF BusyInv, RunsInv, Runs
  <1>6. Runs' = Runs
    BY <1>1 DEF Runs
  <1>7. CASE ~Result(1)
    <2>1. /\ dialog' = dialog \/ dialog' = 0
          /\ shown' = (shown /\ dialog # Head(posted).of)
          /\ dialog' = IF dialog = Head(posted).of THEN 0 ELSE dialog
          /\ UNCHANGED <<viewing, polling, table, current, busy>>
      BY <1>3, <1>7 DEF PostedEvent, Result
    <2>2. TableType' /\ OtherType'
      BY <1>1, <2>1, TypeParts DEF BusyInv, TableType, OtherType, local, polling, menu, alarm
    <2>3. RemoteType'
      <3>1. shown' \in BOOLEAN
        BY <2>1, TypeParts DEF BusyInv, RemoteType
      <3>2. dialogs' = dialogs /\ dialog' \in 0 .. dialogs
        BY <1>1, <1>2, <2>1
      <3> QED
        BY <1>1, <1>3, <2>1, <3>1, <3>2, TypeParts DEF BusyInv, RemoteType
    <2>4. OwnRunInv'
      <3>1. \A r \in Runs : Out(r)' <=> Out(r)
        BY <1>4, <1>7
      <3>2. CASE dialog' = 0
        BY <3>2 DEF OwnRunInv
      <3>3. CASE dialog' = dialog
        BY <1>1, <1>6, <2>1, <3>1, <3>3, OwnRunIs, OwnRunIsNext DEF BusyInv
      <3> QED
        BY <2>1, <3>2, <3>3
    <2>5. ShownInv'
      BY <2>1 DEF BusyInv, ShownInv
    <2>6. TypeOK'
      BY <2>2, <2>3, TypePartsNext
    <2> QED
      BY <1>4, <1>5, <2>4, <2>5, <2>6 DEF BusyInv
  <1>8. CASE Result(1)
    <2>1. PICK k : k = posted[1].of
      OBVIOUS
    <2>2. ReportResult(posted[1]) /\ UNCHANGED <<dialog, shown>>
      BY <1>3, <1>8 DEF PostedEvent, Result
    <2>3. TableType' /\ OtherType' /\ busy' \in BOOLEAN
      BY <1>1, <2>2, ReportTypes DEF BusyInv
    <2>4. RemoteType'
      BY <1>1, <1>3, <2>2, <2>3, TypeParts DEF BusyInv, RemoteType
    <2>5. TypeOK'
      BY <2>3, <2>4, TypePartsNext
    <2>6. ShownInv'
      BY <2>2 DEF BusyInv, ShownInv
    <2>7. k \in Runs /\ worker[k].phase = "done" /\ Out(k) /\ ~Out(k)'
      <3>1. k \in Runs /\ worker[k].phase = "done"
        BY <1>3, <1>8, <2>1 DEF BusyInv, ResultsInv
      <3>2. Out(k)
        BY <1>3, <1>8, <2>1 DEF Out
      <3>3. \A i \in DOMAIN posted \ {1} : ~(Result(i) /\ posted[i].of = k)
        BY <1>3, <1>8, <2>1 DEF BusyInv, ResultsInv
      <3>4. \A i \in DOMAIN posted' :
               i + 1 \in DOMAIN posted /\ i + 1 # 1 /\ posted'[i] = posted[i + 1]
        BY <1>1, <1>2, PostedTail
      <3> QED
        BY <1>1, <3>1, <3>2, <3>3, <3>4 DEF Out, Result
    <2>8. \A r \in Runs \ {k} : Out(r)' <=> Out(r)
      BY <1>4, <2>1
    <2>9. OwnRunInv'
      <3>1. CASE dialog = worker[k].dialog
        <4>1. busy' = FALSE
          BY <2>1, <2>2, <3>1 DEF ReportResult
        <4>2. \A r \in Runs : worker[r].dialog = dialog /\ Out(r) => r = k
          <5>1. dialog # 0
            BY <2>7, <1>2, <3>1 DEF BusyInv, RunsInv
          <5> QED
            BY <2>7, <3>1, <5>1, OwnRunIs DEF BusyInv
        <4> QED
          BY <1>1, <1>6, <2>2, <2>7, <2>8, <4>1, <4>2, OwnRunIsNext
      <3>2. CASE dialog # worker[k].dialog
        <4>1. busy' = busy
          BY <2>1, <2>2, <3>2 DEF ReportResult
        <4> QED
          BY <1>1, <1>6, <2>2, <2>7, <2>8, <3>2, <4>1, OwnRunIs, OwnRunIsNext DEF BusyInv
      <3> QED
        BY <3>1, <3>2
    <2> QED
      BY <1>4, <1>5, <2>5, <2>6, <2>9 DEF BusyInv
  <1> QED
    BY <1>7, <1>8

LEMMA InitBusy ==
    ASSUME Init
    PROVE  BusyInv
  <1>1. worker = <<>> /\ posted = <<>> /\ Runs = {} /\ DOMAIN posted = {}
    BY DEF Init, Runs
  <1>2. TableType
    <2>1. SORT_CPU \in Orders
      BY WindowAssumption DEF Orders
    <2> QED
      BY <2>1 DEF Init, TableType
  <1>3. RemoteType
    <2>1. dialogs \in 0 .. MaxDialogs /\ dialog \in 0 .. dialogs
      BY WindowAssumption DEF Init
    <2>2. worker \in Seq(Run) /\ posted \in Seq(Event)
      BY <1>1
    <2> QED
      BY <2>1, <2>2 DEF Init, RemoteType
  <1>4. OtherType
    BY WindowAssumption DEF Init, OtherType
  <1>5. OwnRunInv /\ ShownInv
    BY DEF Init, OwnRunInv, ShownInv
  <1>6. RunsInv /\ ResultsInv
    BY <1>1 DEF RunsInv, ResultsInv
  <1> QED
    BY <1>2, <1>3, <1>4, <1>5, <1>6, TypeParts DEF BusyInv

LEMMA NextBusy ==
    ASSUME BusyInv, IInv, [Next]_vars
    PROVE  BusyInv'
  <1>1. CASE \E ok \in BOOLEAN :
                \/ ControllerTick(ok) \/ WindowTick(ok) \/ PressRefresh(ok)
                \/ ChangeFilter(ok) \/ TogglePause(ok) \/ BackToLocal(ok) \/ Confirm(ok)
    BY <1>1, WindowBusy
  <1>2. CASE \E m \in SortModes : ChangeSortMode(m)
    BY <1>2, ChangeSortModeBusy
  <1>3. CASE OpenMenu \/ ChooseSignal \/ Dismiss \/ LoadChanges \/ UNCHANGED vars
    BY <1>3, MenuBusy
  <1>4. CASE ShowDialog
    BY <1>4, ShowDialogBusy
  <1>5. CASE CloseDialog
    BY <1>5, CloseDialogBusy
  <1>6. CASE PostedEvent
    BY <1>6, PostedEventBusy
  <1>7. CASE \E phase \in {"scan", "deploy"} : RunAction(phase)
    BY <1>7, RunActionBusy
  <1>8. CASE \E r \in Runs : WorkerSorts(r) \/ WorkerPosts(r)
    BY <1>8, WorkerSortsBusy, WorkerPostsBusy
  <1> QED
    BY <1>1, <1>2, <1>3, <1>4, <1>5, <1>6, <1>7, <1>8 DEF Next

LEMMA BusyIsOneRun ==
    ASSUME BusyInv
    PROVE  BusyMatchesRun
  <1>1. Cardinality({}) = 0 /\ \A r : Cardinality({r}) = 1
    BY FS_EmptySet, FS_Singleton
  <1>2. busy \in BOOLEAN
    BY TypeParts DEF BusyInv, RemoteType
  <1>3. ASSUME dialog # 0, busy
        PROVE  Cardinality(Pending(dialog)) = 1
    <2>1. PICK r \in Runs : Pending(dialog) = {r}
      BY <1>3 DEF BusyInv, OwnRunInv
    <2> QED
      BY <1>1, <2>1
  <1>4. ASSUME dialog # 0, ~busy
        PROVE  Cardinality(Pending(dialog)) = 0
    <2>1. Pending(dialog) = {}
      BY <1>4 DEF BusyInv, OwnRunInv
    <2> QED
      BY <1>1, <2>1
  <1>5. TypeOK
    BY DEF BusyInv
  <1> QED
    BY <1>2, <1>3, <1>4, <1>5 DEF BusyMatchesRun

\* However many dialogs are closed with their action unanswered and opened
\* again, and in whatever order the workers' results and the deletion of a
\* dialog are taken from the event queue, the open dialog's m_busy is set while
\* exactly one action of its own is out and clear while none is: no result of
\* an earlier dialog frees it, and none of its own leaves it busy for ever.
THEOREM DialogBusyWithItsOwn == Spec => []BusyMatchesRun
  <1>1. Init => IInv /\ BusyInv
    BY InitIInv, InitBusy
  <1>2. IInv /\ BusyInv /\ [Next]_vars => IInv' /\ BusyInv'
    BY NextIInv, NextBusy
  <1>3. BusyInv => BusyMatchesRun
    BY BusyIsOneRun
  <1> QED
    BY <1>1, <1>2, <1>3, PTL DEF Spec
=============================================================================
