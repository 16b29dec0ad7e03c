------------------------------- MODULE Capture -------------------------------
(***************************************************************************)
(* A capture, by the CLI or by the Qt program.                             *)
(***************************************************************************)
EXTENDS CaptureMode, CaptureWindow

VARIABLE program   \* "cli" or "qt"

captureVars == <<program, machine, capture, cli, qt>>

\* A capture may begin anywhere in a second; the Qt program's start() has scanned
\* and read the usage, or failed to.
CaptureInit ==
    /\ program \in {"cli", "qt"}
    /\ now \in IF program = "cli" THEN 0 .. PerSecond - 1 ELSE {0}
    /\ work \in Works
    /\ busy = 0 /\ idle = 0
    /\ \E scanned, has \in BOOLEAN :
          /\ has => scanned
          /\ scanned => program = "qt"
          /\ list = IF scanned THEN 0 ELSE Unfinished
          /\ prev = [busy |-> 0, idle |-> 0, has |-> has, at |-> 0]
          /\ fails = IF has THEN 0 ELSE 1
    /\ series = <<>>
    /\ start_time = 0
    /\ CliInit
    /\ QtInit

CaptureNext ==
    \/ program = "cli" /\ CliNext /\ UNCHANGED <<program, qt>>
    \/ program = "qt" /\ QtNext /\ UNCHANGED <<program, cli>>

\* Time passes and timers fire; the CLI goes on.  The user and the signal may
\* stay away.
Fairness ==
    /\ WF_captureVars(program = "cli" /\ (CliStep \/ CliClock) /\ UNCHANGED <<program, qt>>)
    /\ WF_captureVars(program = "qt" /\ Tick /\ UNCHANGED <<program, cli>>)
    /\ WF_captureVars(program = "qt" /\ (ControllerTimeout \/ RefreshTimeout \/ QtClock)
               /\ UNCHANGED <<program, cli>>)

CaptureSpec == CaptureInit /\ [][CaptureNext]_captureVars /\ Fairness

-----------------------------------------------------------------------------

CaptureTypeOK ==
    /\ CliTypeOK
    /\ QtTypeOK
    /\ \A k \in DOMAIN series : Share(series[k])

\* "sharing the same internal state, so mixing calls to both in one process is
\* fine" (monitoring_capture.h:84): the labels, the alerts and the graphs read the
\* usage from the same statics, and still each sample of a capture that could
\* read the usage measures exactly the time since the last one before it that
\* could: the usage of no moment is left out or counted twice.
SamplesTile ==
    \A j, k \in DOMAIN series :
        /\ j < k
        /\ series[j].read /\ series[k].read
        /\ \A i \in j + 1 .. k - 1 : ~series[i].read
        => series[k].measured /\ series[k].from = series[j].when

\* The elapsed times of a report start at 0 and never go back.
ElapsedFromZero ==
    series # <<>> =>
        /\ series[1].elapsed = 0
        /\ \A k \in 1 .. Len(series) - 1 : series[k].elapsed <= series[k + 1].elapsed

\* Together: the usage of the samples, their times and the lists they add up,
\* whoever else read the same statics or scanned in between.
SeriesIsSound == CaptureTypeOK /\ SamplesTile /\ ElapsedFromZero /\ ListsFollow

\* A capture with a duration ends by itself, even if monitoring is paused or the
\* intervals change meanwhile: in the Qt program, one whose last tick is due
\* before the time the model ends.
TimedCaptureEnds ==
    /\ (program = "cli" /\ duration > 0) ~> at = "exited"
    /\ (/\ program = "qt" /\ capturing /\ limit > 0
        /\ begun + PerSecond * limit + MaxLag <= MaxNow) ~> ~capturing
=============================================================================
