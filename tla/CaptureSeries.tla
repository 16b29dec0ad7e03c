---------------------------- MODULE CaptureSeries ----------------------------
(***************************************************************************)
(* monitoring_capture.c: CPU usage measured against the last reading       *)
(* anybody in the program made, and the series of samples with its         *)
(* reports.  The clock and the kernel's counters are the surroundings.     *)
(*                                                                         *)
(* Time is counted in units, PerSecond of them a second.                   *)
(***************************************************************************)
EXTENDS Integers, Sequences

CONSTANTS
    PerSecond,   \* units of time in a second
    Jiffies,     \* jiffies in a unit
    Works        \* sets of units in which the machine works

ASSUME CaptureSeriesAssumption ==
    /\ PerSecond \in Nat \ {0}
    /\ Jiffies \in Nat \ {0}
    /\ Works \subseteq SUBSET Nat

VARIABLES
    now,        \* the time since the program started
    work,       \* the units in which the machine works
    busy, idle, \* /proc/stat: jiffies; idle includes iowait
    prev,       \* the statics of read_cpu_percent, and when they were read
    list,       \* the process list: the time of the scan that filled it
    series,     \* NeoCaptureSeries.items
    start_time

machine == <<now, work, busy, idle>>
capture == <<prev, list, series, start_time>>

\* A unit of time passes, spent idle or working; in the latter the kernel takes
\* back some of what it had counted as waiting for I/O: iowait goes down.
Pass ==
    /\ now' = now + 1
    /\ IF now \in work
       THEN busy' = busy + Jiffies /\ idle' = (IF idle > 0 THEN idle - 1 ELSE 0)
       ELSE idle' = idle + Jiffies /\ UNCHANGED busy
    /\ UNCHANGED work

\* time(NULL), in seconds.
Second(t) == t \div PerSecond

-----------------------------------------------------------------------------
(* read_cpu_percent.                                                       *)

IdleDelta == IF idle >= prev.idle THEN idle - prev.idle ELSE 0

\* The usage since the last reading, as a part of the jiffies there were; of none
\* if there is no last reading, or no jiffy since.
CpuPercent ==
    LET total == (busy + idle) - (prev.busy + prev.idle)
    IN  IF prev.has /\ total > 0
        THEN [used |-> total - IdleDelta, of |-> total]
        ELSE [used |-> 0, of |-> 0]

\* Mutant: the last reading is kept as if there had been none before.
ReadFirstOnly(ok) ==
    prev' = IF ok /\ ~prev.has THEN [busy |-> busy, idle |-> idle, has |-> TRUE, at |-> now]
            ELSE prev

\* /proc/stat is read, or it cannot be opened or read: the statics stay.
Read(ok) ==
    prev' = IF ok THEN [busy |-> busy, idle |-> idle, has |-> TRUE, at |-> now]
            ELSE prev

-----------------------------------------------------------------------------
(* The series.                                                             *)

Unfinished == -1   \* the list of a scan that failed: emptied, or filled in part

\* scan_processes empties the list first.  What of a process's I/O a scan finds is
\* the subject of ProcessScan.
Scan       == list' = now
FailedScan == list' = Unfinished

\* A sample: when; the usage and since when, or 0.0 if it could not be read; and
\* the list whose I/O and number of processes are added up.
Sample(ok, first) ==
    [elapsed |-> Second(now) - first, when |-> now, list |-> list',
     read |-> ok, measured |-> ok /\ prev.has, from |-> prev.at,
     cpu |-> IF ok THEN CpuPercent ELSE [used |-> 0, of |-> 0]]

\* capture_series_add: the first sample of a series sets its start.
AddTo(ok) ==
    LET first == IF series = <<>> THEN Second(now) ELSE start_time
    IN  /\ start_time' = first
        /\ series' = Append(series, Sample(ok, first))

\* capture_series_free and _init.
ClearSeries == series' = <<>> /\ UNCHANGED start_time

-----------------------------------------------------------------------------

\* A sample's CPU usage is a share: not below 0, not above 100 %.
Share(sample) == 0 <= sample.cpu.used /\ sample.cpu.used <= sample.cpu.of
=============================================================================
