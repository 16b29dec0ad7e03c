----------------------------- MODULE CaptureMode -----------------------------
(***************************************************************************)
(* run_capture_mode, the CLI with --capture: scan, sample and sleep until  *)
(* the duration is over or a signal comes, then write the reports.         *)
(***************************************************************************)
EXTENDS CaptureSeries

CONSTANTS
    Durations,   \* --capture=SECONDS, in units; 0 for "until Ctrl+C"
    CliInterval, \* --interval, in units
    MaxRun       \* bound on the time an unlimited capture takes

ASSUME CaptureModeAssumption ==
    /\ Durations \subseteq Nat
    /\ CliInterval \in Nat \ {0}
    /\ MaxRun \in Nat

VARIABLES
    at,         \* the statement that is next
    running,    \* the flag signal_handler clears
    duration,
    began,      \* capture_start, and the time it was read
    wake,       \* when the sleep ends
    slow,       \* the present scan has taken a unit
    reports,    \* what was written: "csv", "html"
    status,
    why         \* history: what ended the loop

cli == <<at, running, duration, began, wake, slow, reports, status, why>>

CliInit ==
    /\ at = "test"
    /\ running = TRUE
    /\ duration \in Durations
    /\ began = now
    /\ wake = 0
    /\ slow = FALSE
    /\ reports = {}
    /\ status = 0
    /\ why = ""

\* sleep takes whole seconds, one at least.
SleepTime ==
    PerSecond * (IF CliInterval > PerSecond THEN CliInterval \div PerSecond ELSE 1)

Test ==
    /\ at = "test"
    /\ at' = IF running THEN "scan" ELSE "report"
    /\ why' = IF running THEN why ELSE "signal"
    /\ slow' = FALSE
    /\ UNCHANGED <<running, duration, began, wake, reports, status, machine, capture>>

\* read_system_info and scan_processes; a failure ends the capture.
ScanStep ==
    /\ at = "scan"
    /\ \/ at' = "sample" /\ Scan /\ UNCHANGED why
       \/ at' = "report" /\ why' = "failed" /\ (FailedScan \/ UNCHANGED list)
    /\ UNCHANGED <<running, duration, began, wake, slow, reports, status, machine,
                   prev, series, start_time>>

\* Mutant: compared with the whole duration cut to seconds.
OverTruncated == duration > 0 /\ Second(now) - Second(began) >= duration \div PerSecond

\* difftime(time(NULL), capture_start) >= the duration.
Over == duration > 0 /\ PerSecond * (Second(now) - Second(began)) >= duration

\* capture_sample, and the test of the duration after it.
SampleStep ==
    /\ at = "sample"
    /\ UNCHANGED list
    /\ \E ok \in BOOLEAN : AddTo(ok) /\ Read(ok)
    /\ IF Over THEN at' = "report" /\ why' = "over" /\ UNCHANGED wake
               ELSE at' = "sleep" /\ wake' = now + SleepTime /\ UNCHANGED why
    /\ UNCHANGED <<running, duration, began, slow, reports, status, machine>>

Wake ==
    /\ at = "sleep"
    /\ now >= wake
    /\ at' = "test"
    /\ UNCHANGED <<running, duration, began, wake, slow, reports, status, why, machine, capture>>

\* The signal cuts the sleep short; one that comes before the sleep does not.
Signal ==
    /\ at # "exited"
    /\ running
    /\ running' = FALSE
    /\ wake' = IF at = "sleep" THEN now ELSE wake
    /\ UNCHANGED <<at, duration, began, slow, reports, status, why, machine, capture>>

\* The reports; either may fail, and the exit status does not tell.
Report ==
    /\ at = "report"
    /\ at' = "exited"
    /\ IF series = <<>> THEN status' = 1 /\ UNCHANGED reports
       ELSE /\ status' = 0
            /\ reports' \in SUBSET {"csv", "html"}
    /\ UNCHANGED <<running, duration, began, wake, slow, why, machine, capture>>

\* Time passes during the sleep, and one unit at most during a scan.
CliClock ==
    /\ duration = 0 => now < MaxRun
    /\ \/ at = "sleep" /\ now < wake /\ UNCHANGED slow
       \/ at = "scan" /\ ~slow /\ slow' = TRUE
    /\ Pass
    /\ UNCHANGED <<at, running, duration, began, wake, reports, status, why, capture>>

CliStep == Test \/ ScanStep \/ SampleStep \/ Wake \/ Report
CliNext == CliStep \/ Signal \/ CliClock

-----------------------------------------------------------------------------

CliTypeOK ==
    /\ at \in {"test", "scan", "sample", "sleep", "report", "exited"}
    /\ {running, slow} \subseteq BOOLEAN
    /\ reports \subseteq {"csv", "html"}
    /\ status \in {0, 1}

\* A timed capture that ends by itself has sampled for its duration, but for the
\* second the clock may round away; and it never sleeps further past the end
\* than one sleep, a second at least, and that second.
KeepsDuration ==
    duration > 0 =>
        /\ why = "over" => series[Len(series)].when - began > duration - PerSecond
        /\ at = "sleep" => wake - began < duration + PerSecond + SleepTime
=============================================================================
