------------------------------- MODULE Alert -------------------------------
(***************************************************************************)
(* A monitoring session that watches the two system-wide metrics: the Qt   *)
(* main window, whose refreshes call alert_evaluate and whose Alert        *)
(* Thresholds dialog replaces the configuration and clears the state.  The *)
(* CLI is the same session without the dialog.                             *)
(*                                                                         *)
(* time(NULL) counts whole seconds, so real time is a second and a tick    *)
(* within it; the code sees the second only.                               *)
(***************************************************************************)
EXTENDS AlertOps, Sequences

CONSTANTS
    Metrics,          \* the metrics alert_evaluate looks at
    Values,           \* the readings that are told apart
    Thresholds,       \* the configured thresholds; zero or less is "off"
    Sustains,         \* the configured alert_sustain_seconds
    TicksPerSecond,   \* how finely real time divides the code's second
    MaxSecond,        \* bound on the clock
    MaxSamples        \* bound on the readings taken between two configurations

ASSUME AlertAssumption ==
    /\ Metrics # {}
    /\ Values \subseteq Int
    /\ Thresholds \subseteq Int
    /\ Sustains \subseteq Int
    /\ TicksPerSecond \in Nat \ {0}
    /\ MaxSecond \in Nat
    /\ MaxSamples \in Nat

VARIABLES
    threshold,   \* alert_cpu_percent and alert_mem_percent
    sustain,     \* alert_sustain_seconds
    alert,       \* NeoAlertState, by metric
    second,      \* what time(NULL) returns
    tick,        \* the part of a second time(NULL) does not show
    samples,     \* history: the readings since the configuration was set
    reports      \* history: the samples whose call returned the metric's bit

vars == <<threshold, sustain, alert, second, tick, samples, reports>>

Config  == [Metrics -> Thresholds]
Reading == [Metrics -> Values]
Sample  == [reading : Reading, second : Nat, tick : 0 .. TicksPerSecond - 1]

Init ==
    /\ threshold \in Config
    /\ sustain \in Sustains
    /\ alert = [m \in Metrics |-> AlertStateInit]
    /\ second = 0
    /\ tick = 0
    /\ samples = <<>>
    /\ reports = [m \in Metrics |-> {}]

\* One call of alert_evaluate(config, state, cpu_percent, mem_percent).
Evaluate(reading) ==
    LET next == [m \in Metrics |->
                    EvaluateOne(alert[m], reading[m], threshold[m],
                                SustainOf(sustain), second)]
        n == Len(samples) + 1
    IN  /\ Len(samples) < MaxSamples
        /\ alert' = next
        /\ samples' = Append(samples, [reading |-> reading,
                                       second  |-> second,
                                       tick    |-> tick])
        /\ reports' = [m \in Metrics |->
                          IF NewlyFired(alert[m], next[m])
                          THEN reports[m] \cup {n} ELSE reports[m]]
        /\ UNCHANGED <<threshold, sustain, second, tick>>

\* The Alert Thresholds dialog is accepted: new settings, a clean state.
ChangeSettings(config, seconds) ==
    /\ threshold' = config
    /\ sustain' = seconds
    /\ alert' = [m \in Metrics |-> AlertStateInit]
    /\ samples' = <<>>
    /\ reports' = [m \in Metrics |-> {}]
    /\ UNCHANGED <<second, tick>>

\* Real time advances by one tick.
Tick ==
    /\ \/ /\ tick + 1 < TicksPerSecond
          /\ tick' = tick + 1
          /\ second' = second
       \/ /\ tick + 1 = TicksPerSecond
          /\ second < MaxSecond
          /\ tick' = 0
          /\ second' = second + 1
    /\ UNCHANGED <<threshold, sustain, alert, samples, reports>>

Next ==
    \/ \E reading \in Reading : Evaluate(reading)
    \/ \E config \in Config, seconds \in Sustains : ChangeSettings(config, seconds)
    \/ Tick

Spec == Init /\ [][Next]_vars

-----------------------------------------------------------------------------
(* What the state must say about the readings.                             *)

\* The reading of m in sample k was over m's threshold.
OverAt(m, k) == IsOver(samples[k].reading[m], threshold[m])

\* Every reading of m from sample i to the last one was over the threshold.
OverSince(m, i) == \A k \in i .. Len(samples) : OverAt(m, k)

\* Seconds, as the code counts them, from sample i to the last one.
SecondsSince(i) == samples[Len(samples)].second - samples[i].second

\* When sample k was taken, in ticks.
Ticks(k) == samples[k].second * TicksPerSecond + samples[k].tick

TypeOK ==
    /\ threshold \in Config
    /\ sustain \in Sustains
    /\ alert \in [Metrics -> AlertState]
    /\ second \in Nat
    /\ tick \in 0 .. TicksPerSecond - 1
    /\ samples \in Seq(Sample)
    /\ reports \in [Metrics -> SUBSET Nat]

\* An alert that stands as fired is backed by an unbroken run of readings
\* over the threshold that spans the sustain time (monitoring_alert.h: only a
\* sustained breach fires, "a brief spike" does not).
FiredOnlyIfSustained ==
    \A m \in Metrics : alert[m].fired =>
        \E i \in 1 .. Len(samples) :
            /\ OverSince(m, i)
            /\ SecondsSince(i) >= SustainOf(sustain)

\* Conversely no sustained breach goes unnoticed: as soon as the readings from
\* some sample on are all over and span the sustain time, the alert has fired.
FiredWhenSustained ==
    \A m \in Metrics, i \in 1 .. Len(samples) :
        /\ OverSince(m, i)
        /\ SecondsSince(i) >= SustainOf(sustain)
        => alert[m].fired

\* "while a breach is still ongoing but already reported" alert_evaluate
\* returns 0: between two reports of a metric it was seen back under.
OneReportPerEpisode ==
    \A m \in Metrics : \A i, j \in reports[m] :
        i < j => \E k \in i + 1 .. j - 1 : ~OverAt(m, k)

\* The bit returned and the fired flag agree: a metric is marked fired exactly
\* when a sample of the present unbroken run returned its bit.
FiredMeansReported ==
    \A m \in Metrics :
        alert[m].fired <=> \E i \in reports[m] : OverSince(m, i)

\* The header says of a reported metric that it "stayed over it for at least
\* config->alert_sustain_seconds" (monitoring_alert.h:50).  time(NULL) drops the
\* fraction of the second a breach began in, so what holds is: the readings were
\* over throughout, for more than the sustain time less one second.
NeverASecondEarly ==
    \A m \in Metrics : \A k \in reports[m] :
        \E i \in 1 .. k :
            /\ \A j \in i .. k : OverAt(m, j)
            /\ Ticks(k) - Ticks(i) > (SustainOf(sustain) - 1) * TicksPerSecond
=============================================================================
