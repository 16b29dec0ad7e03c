---------------------------- MODULE ProcessScan ----------------------------
(***************************************************************************)
(* scan_processes and the per-process baselines it keeps between           *)
(* refreshes (NeoPreviousList), against a kernel that starts, ends and     *)
(* schedules processes while /proc is being walked.                        *)
(*                                                                         *)
(* A process shows its usage as the ticks it consumed since its baseline;  *)
(* the interval they are divided by is the caller's (see LocalMonitor).    *)
(* What the filters look at is reduced to the state letter, the attribute  *)
(* that changes while a process runs; the I/O counters are baselined with  *)
(* the CPU time and follow it.                                             *)
(***************************************************************************)
EXTENDS Integers, FiniteSets

CONSTANTS
    Pids,          \* process ids; the kernel reuses them
    States,        \* the state letters told apart
    Filters,       \* the sets of letters config->states may hold
    CpuThresholds, \* config->cpu_threshold, in ticks per refresh; 0 is "off"
    MaxTicks,      \* bound on the CPU time of a process
    MaxLives,      \* bound on the processes started
    MaxScans,      \* bound on the refreshes
    NoSample       \* no baseline, no visit

ASSUME ScanAssumption ==
    /\ Filters \subseteq SUBSET States
    /\ CpuThresholds \subseteq Nat
    /\ MaxTicks \in Nat
    /\ MaxLives \in Nat
    /\ MaxScans \in Nat
    /\ NoSample \notin Nat

VARIABLES
    kernel,     \* the running processes: pid -> [life, ticks, state]
    lives,      \* how many processes were started; names the next one
    states,     \* config->states; empty matches every process
    threshold,  \* config->cpu_threshold
    previous,   \* NeoPreviousList: pid -> total_time of the last matching scan
    table,      \* NeoProcessList of the scan in progress or the last one
    todo,       \* entries of /proc not reached yet; {} between scans
    scanning,   \* a scan is in progress
    scans,      \* history: refreshes begun
    visit,      \* history: pid -> what the scan in progress read of it
    last_visit, \* history: the same of the scan before
    charged     \* history: life -> the ticks all scans so far measured for it

settings == <<states, threshold>>
vars == <<kernel, lives, settings, previous, table, todo, scanning, scans,
          visit, last_visit, charged>>

Live     == [life : 1 .. MaxLives, ticks : 0 .. MaxTicks, state : States]
Row      == [pid : Pids, life : 1 .. MaxLives, ticks : 0 .. MaxTicks,
             cpu : 0 .. MaxTicks]
Visit    == [life : 1 .. MaxLives, ticks : 0 .. MaxTicks, matched : BOOLEAN]

Init ==
    /\ kernel = [p \in {} |-> NoSample]
    /\ lives = 0
    /\ states \in Filters
    /\ threshold \in CpuThresholds
    /\ previous = [p \in Pids |-> NoSample]
    /\ table = {}
    /\ todo = {}
    /\ scanning = FALSE
    /\ scans = 0
    /\ visit = [p \in Pids |-> NoSample]
    /\ last_visit = [p \in Pids |-> NoSample]
    /\ charged = [l \in 1 .. MaxLives |-> 0]

Running == DOMAIN kernel

-----------------------------------------------------------------------------
(* The kernel.                                                             *)

monitor == <<settings, previous, table, todo, scanning, scans, visit,
             last_visit, charged>>

\* A process starts; it may get the pid of one that is gone.
Spawn(p, state) ==
    /\ p \notin Running
    /\ lives < MaxLives
    /\ lives' = lives + 1
    /\ kernel' = [q \in Running \cup {p} |->
                     IF q = p THEN [life |-> lives + 1, ticks |-> 0, state |-> state]
                              ELSE kernel[q]]
    /\ UNCHANGED monitor

Exit(p) ==
    /\ p \in Running
    /\ kernel' = [q \in Running \ {p} |-> kernel[q]]
    /\ UNCHANGED <<lives, monitor>>

\* A process consumes CPU time or changes its state.
Schedule(p, ticks, state) ==
    /\ p \in Running
    /\ kernel[p].ticks + ticks <= MaxTicks
    /\ kernel' = [kernel EXCEPT ![p].ticks = @ + ticks, ![p].state = state]
    /\ UNCHANGED <<lives, monitor>>

-----------------------------------------------------------------------------
(* scan_processes                                                          *)

\* opendir: the entries present now.  One that starts later is not seen.
BeginScan ==
    /\ ~scanning
    /\ scans < MaxScans
    /\ scanning' = TRUE
    /\ scans' = scans + 1
    /\ todo' = Running
    /\ table' = {}
    /\ last_visit' = visit
    /\ visit' = [p \in Pids |-> NoSample]
    /\ UNCHANGED <<kernel, lives, settings, previous, charged>>

\* process_matches, by the one attribute that varies: filter_match_state.
Matches(process) == states = {} \/ process.state \in states

\* Mutant: a counter that went back is subtracted all the same.
UsageUnguarded(process, baseline) ==
    IF baseline = NoSample THEN 0 ELSE process.ticks - baseline

\* update_metrics: nothing without a baseline, nothing if the counter went back.
Usage(process, baseline) ==
    IF baseline = NoSample \/ process.ticks < baseline THEN 0
    ELSE process.ticks - baseline

\* Mutant: the baseline is left alone when the threshold hides the process.
PreviousSetIfShown(p, process, shown) ==
    IF shown THEN [previous EXCEPT ![p] = process.ticks] ELSE previous

\* Mutant: the first baseline of a pid is kept.
PreviousSetOnce(p, process, shown) ==
    IF previous[p] = NoSample THEN [previous EXCEPT ![p] = process.ticks] ELSE previous

\* previous_set: the baseline is updated whether or not the row is shown.
PreviousSet(p, process, shown) == [previous EXCEPT ![p] = process.ticks]

\* One turn of the readdir loop.  process_collect fails for a process that is
\* gone; one the filter rejects is skipped altogether.
VisitEntry(p) ==
    LET process == kernel[p]
        cpu     == Usage(process, previous[p])
        shown   == threshold = 0 \/ cpu >= threshold
        row     == [pid |-> p, life |-> process.life, ticks |-> process.ticks,
                    cpu |-> cpu]
    IN  /\ p \in todo
        /\ todo' = todo \ {p}
        /\ IF p \in Running
           THEN /\ visit' = [visit EXCEPT ![p] =
                               [life |-> process.life, ticks |-> process.ticks,
                                matched |-> Matches(process)]]
                /\ IF Matches(process)
                   THEN /\ table' = IF shown THEN table \cup {row} ELSE table
                        /\ previous' = PreviousSet(p, process, shown)
                        /\ charged' = [charged EXCEPT ![process.life] = @ + cpu]
                   ELSE UNCHANGED <<table, previous, charged>>
           ELSE UNCHANGED <<visit, table, previous, charged>>
        /\ UNCHANGED <<kernel, lives, settings, scanning, scans, last_visit>>

EndScan ==
    /\ scanning
    /\ todo = {}
    /\ scanning' = FALSE
    /\ UNCHANGED <<kernel, lives, settings, previous, table, todo, scans, visit,
                   last_visit, charged>>

\* setStateList and setCpuThreshold of the Qt controller, between two scans.
ChangeSettings(s, limit) ==
    /\ ~scanning
    /\ states' = s
    /\ threshold' = limit
    /\ UNCHANGED <<kernel, lives, previous, table, todo, scanning, scans, visit,
                   last_visit, charged>>

Next ==
    \/ \E p \in Pids :
          \/ \E s \in States : Spawn(p, s)
          \/ Exit(p)
          \/ \E n \in 0 .. 1, s \in States : Schedule(p, n, s)
          \/ VisitEntry(p)
    \/ BeginScan
    \/ EndScan
    \/ \E s \in Filters, limit \in CpuThresholds : ChangeSettings(s, limit)

Spec == Init /\ [][Next]_vars

-----------------------------------------------------------------------------

TypeOK ==
    /\ Running \subseteq Pids
    /\ \A p \in Running : kernel[p] \in Live
    /\ lives \in 0 .. MaxLives
    /\ states \in Filters
    /\ threshold \in CpuThresholds
    /\ previous \in [Pids -> (0 .. MaxTicks) \cup {NoSample}]
    /\ table \subseteq Row
    /\ todo \subseteq Pids
    /\ scanning \in BOOLEAN
    /\ scans \in 0 .. MaxScans
    /\ visit \in [Pids -> Visit \cup {NoSample}]
    /\ last_visit \in [Pids -> Visit \cup {NoSample}]
    /\ charged \in [1 .. MaxLives -> Nat]

\* The same process was visited by the scan before.
SeenBefore(r) ==
    last_visit[r.pid] # NoSample /\ last_visit[r.pid].life = r.life

\* What a row should show: the ticks since the previous refresh, if the
\* process was there; nothing if it is new.
SinceLastScan(r) ==
    IF SeenBefore(r) THEN r.ticks - last_visit[r.pid].ticks ELSE 0

\* A process that matched the filters in two refreshes in a row shows exactly
\* the ticks between them, whether or not a threshold hid it the first time
\* ("Update baseline even when the process is rejected by a threshold",
\* monitoring_services_core.c:1482).
MatchedTwiceIsExact ==
    \A r \in table :
        SeenBefore(r) /\ last_visit[r.pid].matched => r.cpu = SinceLastScan(r)

\* However filters change and pids are reused, no tick is measured twice: the
\* usage measured for a process adds up to no more than it consumed.
NoTickMeasuredTwice ==
    \A p \in Running : charged[kernel[p].life] <= kernel[p].ticks
=============================================================================
