---------------------------- MODULE AlertProofs ----------------------------
(***************************************************************************)
(* Proofs about Alert for any metrics, readings, thresholds, sustain times *)
(* and clock resolution.  The strengthening relates the three fields of    *)
(* NeoAlertState to the readings they summarise: an episode is the longest *)
(* suffix of readings over the threshold, `start` is the second of its     *)
(* first reading, and it has fired exactly when it spans the sustain time. *)
(***************************************************************************)
EXTENDS Alert, TLAPS

\* Readings are stamped by a clock that does not go back.
ClockInv ==
    /\ \A i, j \in 1 .. Len(samples) :
          i <= j => samples[i].second <= samples[j].second
    /\ \A i \in 1 .. Len(samples) : samples[i].second <= second

\* Sample i is the first of m's present episode.
StartsRun(m, i) ==
    /\ OverSince(m, i)
    /\ samples[i].second = alert[m].start
    /\ \A j \in 1 .. i - 1 : ~OverSince(m, j)

\* m is marked breached exactly while an episode is on.
BreachInv ==
    \A m \in Metrics :
        /\ alert[m].breached <=> Len(samples) > 0 /\ OverAt(m, Len(samples))
        /\ alert[m].breached => \E i \in 1 .. Len(samples) : StartsRun(m, i)

\* m is marked fired exactly when its episode spans the sustain time.
FiredInv ==
    \A m \in Metrics :
        alert[m].fired <=>
            /\ alert[m].breached
            /\ samples[Len(samples)].second - alert[m].start >= SustainOf(sustain)

\* A report belongs to a reading over the threshold.
ReportInv ==
    \A m \in Metrics : \A i \in reports[m] :
        i \in 1 .. Len(samples) /\ OverAt(m, i)

IInv ==
    /\ TypeOK
    /\ ClockInv
    /\ BreachInv
    /\ FiredInv
    /\ ReportInv
    /\ OneReportPerEpisode
    /\ FiredMeansReported

-----------------------------------------------------------------------------

LEMMA SustainIsNat == ASSUME TypeOK PROVE SustainOf(sustain) \in Nat
  BY AlertAssumption DEF TypeOK, SustainOf

\* Type correctness of a session: the state is what NeoAlertState can hold.
THEOREM TypeCorrect == Spec => []TypeOK
<1>1. Init => TypeOK
  BY AlertAssumption DEF Init, TypeOK, Config, AlertStateInit, AlertState
<1>2. TypeOK /\ [Next]_vars => TypeOK'
  <2> SUFFICES ASSUME TypeOK, [Next]_vars PROVE TypeOK'
    OBVIOUS
  <2> USE AlertAssumption DEF TypeOK
  <2>1. ASSUME NEW reading \in Reading, Evaluate(reading) PROVE TypeOK'
    <3> DEFINE next == [m \in Metrics |-> EvaluateOne(alert[m], reading[m],
                           threshold[m], SustainOf(sustain), second)]
    <3>1. next \in [Metrics -> AlertState]
      BY SustainIsNat DEF EvaluateOne, AlertState, Config, Reading, IsOver
    <3>2. alert' \in [Metrics -> AlertState]
      BY <2>1, <3>1 DEF Evaluate
    <3>3. [reading |-> reading, second |-> second, tick |-> tick] \in Sample
      BY DEF Sample
    <3>4. samples' \in Seq(Sample)
      BY <2>1, <3>3 DEF Evaluate
    <3>5. Len(samples) + 1 \in Nat
      OBVIOUS
    <3>6. reports' \in [Metrics -> SUBSET Nat]
      BY <2>1, <3>5 DEF Evaluate
    <3>7. QED BY <2>1, <3>2, <3>4, <3>6 DEF Evaluate, Config
  <2>2. ASSUME NEW config \in Config, NEW seconds \in Sustains,
               ChangeSettings(config, seconds)
        PROVE  TypeOK'
    BY <2>2 DEF ChangeSettings, AlertStateInit, AlertState, Config
  <2>3. CASE Tick
    BY <2>3 DEF Tick, Config
  <2>4. CASE UNCHANGED vars
    BY <2>4 DEF vars, Config
  <2>5. QED BY <2>1, <2>2, <2>3, <2>4 DEF Next
<1>3. QED BY <1>1, <1>2, PTL DEF Spec

-----------------------------------------------------------------------------

\* The fields evaluate_one leaves, whatever it started from.
LEMMA EvaluateOneIs ==
  ASSUME NEW s, NEW value, NEW limit, NEW window, NEW now,
         NEW t, t = EvaluateOne(s, value, limit, window, now)
  PROVE  /\ t.breached <=> IsOver(value, limit)
         /\ IsOver(value, limit) =>
               t.start = IF s.breached THEN s.start ELSE now
         /\ t.fired <=> /\ IsOver(value, limit)
                        /\ (s.breached /\ s.fired) \/ now - t.start >= window
<1>1. CASE IsOver(value, limit)
  BY <1>1 DEF EvaluateOne
<1>2. CASE ~IsOver(value, limit)
  BY <1>2 DEF EvaluateOne
<1>3. QED BY <1>1, <1>2

\* What Evaluate leaves behind, in the terms the invariant uses.
LEMMA EvaluateStep ==
  ASSUME TypeOK, NEW reading \in Reading, Evaluate(reading),
         NEW n, n = Len(samples) + 1
  PROVE  /\ n \in Nat \ {0}
         /\ Len(samples') = n
         /\ \A k \in 1 .. n - 1 : samples'[k] = samples[k]
         /\ samples'[n].second = second
         /\ samples'[n].reading = reading
         /\ threshold' = threshold /\ sustain' = sustain /\ second' = second
         /\ \A m \in Metrics :
               alert'[m] = EvaluateOne(alert[m], reading[m], threshold[m],
                                       SustainOf(sustain), second)
         /\ \A m \in Metrics :
               reports'[m] = IF NewlyFired(alert[m], alert'[m])
                             THEN reports[m] \cup {n} ELSE reports[m]
         /\ \A m \in Metrics, k \in 1 .. n - 1 : OverAt(m, k)' <=> OverAt(m, k)
         /\ \A m \in Metrics : OverAt(m, n)' <=> IsOver(reading[m], threshold[m])
<1>1. samples \in Seq(Sample) /\ Len(samples) \in Nat
  BY DEF TypeOK
<1>2. [reading |-> reading, second |-> second, tick |-> tick] \in Sample
  BY DEF TypeOK, Sample
<1>3. samples' = Append(samples, [reading |-> reading, second |-> second,
                                  tick |-> tick])
  BY DEF Evaluate
<1>4. /\ Len(samples') = n
      /\ \A k \in 1 .. n - 1 : samples'[k] = samples[k]
      /\ samples'[n] = [reading |-> reading, second |-> second, tick |-> tick]
  BY <1>1, <1>2, <1>3
<1>5. threshold' = threshold /\ sustain' = sustain /\ second' = second
  BY DEF Evaluate
<1>6. \A m \in Metrics :
        /\ alert'[m] = EvaluateOne(alert[m], reading[m], threshold[m],
                                   SustainOf(sustain), second)
        /\ reports'[m] = IF NewlyFired(alert[m], alert'[m])
                         THEN reports[m] \cup {n} ELSE reports[m]
  BY DEF Evaluate
<1>7. /\ \A m \in Metrics, k \in 1 .. n - 1 : OverAt(m, k)' <=> OverAt(m, k)
      /\ \A m \in Metrics : OverAt(m, n)' <=> IsOver(reading[m], threshold[m])
  BY <1>4, <1>5 DEF OverAt
<1>8. n \in Nat \ {0} /\ samples'[n].second = second /\ samples'[n].reading = reading
  BY <1>1, <1>4
<1>9. QED BY <1>4, <1>5, <1>6, <1>7, <1>8, Zenon

\* How the run of readings over the threshold grows with a new reading.
LEMMA RunStep ==
  ASSUME TypeOK, NEW reading \in Reading, Evaluate(reading),
         NEW n, n = Len(samples) + 1, NEW m \in Metrics
  PROVE  \A i \in 1 .. n :
            OverSince(m, i)' <=> /\ IsOver(reading[m], threshold[m])
                                 /\ i < n => OverSince(m, i)
<1>1. SUFFICES ASSUME NEW i \in 1 .. n
               PROVE  OverSince(m, i)' <=>
                         /\ IsOver(reading[m], threshold[m])
                         /\ i < n => OverSince(m, i)
  OBVIOUS
<1>2. OverSince(m, i)' <=> \A k \in i .. n : OverAt(m, k)'
  BY EvaluateStep DEF OverSince
<1>3. n \in Nat \ {0} /\ Len(samples) = n - 1
  BY EvaluateStep DEF TypeOK
<1>4. (\A k \in i .. n : OverAt(m, k)')
        <=> OverAt(m, n)' /\ \A k \in i .. n - 1 : OverAt(m, k)'
  BY <1>3
<1>5. (\A k \in i .. n - 1 : OverAt(m, k)') <=> (\A k \in i .. n - 1 : OverAt(m, k))
  BY <1>3, EvaluateStep
<1>6. (\A k \in i .. n - 1 : OverAt(m, k)) <=> (i < n => OverSince(m, i))
  BY <1>3 DEF OverSince
<1>7. QED BY <1>2, <1>4, <1>5, <1>6, EvaluateStep

LEMMA EvaluateKeepsIInv ==
  ASSUME IInv, TypeOK', NEW reading \in Reading, Evaluate(reading),
         NEW n, n = Len(samples) + 1
  PROVE  IInv'
<1> DEFINE over(m) == IsOver(reading[m], threshold[m])
           window == SustainOf(sustain)
<1> USE DEF IInv
<1>1. TypeOK /\ n \in Nat \ {0} /\ Len(samples) = n - 1 /\ Len(samples') = n
  BY EvaluateStep DEF TypeOK
<1>2. window \in Nat /\ window' = window
  BY SustainIsNat, EvaluateStep DEF SustainOf
<1>3. second \in Nat /\ \A i \in 1 .. n - 1 : samples[i].second \in Nat
  <2>1. \A i \in 1 .. n - 1 : samples[i] \in Sample
    BY <1>1 DEF TypeOK
  <2>2. QED BY <1>1, <2>1 DEF TypeOK, Sample
<1>fields. \A m \in Metrics :
        /\ alert'[m].breached <=> over(m)
        /\ over(m) => alert'[m].start = IF alert[m].breached THEN alert[m].start
                                                           ELSE second
        /\ alert'[m].fired <=>
              /\ over(m)
              /\ \/ alert[m].breached /\ alert[m].fired
                 \/ second - alert'[m].start >= window
  BY EvaluateStep, EvaluateOneIs
<1>4. ClockInv'
  <2>1. \A i \in 1 .. n : samples'[i].second =
                             IF i < n THEN samples[i].second ELSE second
    BY <1>1, EvaluateStep
  <2>2. \A i, j \in 1 .. n : i <= j => samples'[i].second <= samples'[j].second
    BY <1>1, <1>3, <2>1 DEF ClockInv
  <2>3. \A i \in 1 .. n : samples'[i].second <= second
    BY <1>1, <1>3, <2>1 DEF ClockInv
  <2>4. second' = second
    BY EvaluateStep
  <2>5. QED BY <1>1, <2>2, <2>3, <2>4 DEF ClockInv
<1>5. BreachInv'
  <2> SUFFICES ASSUME NEW m \in Metrics
               PROVE  /\ alert'[m].breached <=> n > 0 /\ OverAt(m, n)'
                      /\ alert'[m].breached =>
                            \E i \in 1 .. n : StartsRun(m, i)'
    BY <1>1 DEF BreachInv
  <2>1. alert'[m].breached <=> over(m)
    BY <1>fields
  <2>2. CASE ~over(m)
    BY <1>1, <2>1, <2>2, EvaluateStep
  <2>3. CASE over(m) /\ alert[m].breached
    <3>1. PICK i \in 1 .. n - 1 : StartsRun(m, i)
      BY <1>1, <2>3 DEF BreachInv
    <3>2. OverSince(m, i)' /\ \A j \in 1 .. i - 1 : ~OverSince(m, j)'
      BY <1>1, <2>3, <3>1, RunStep DEF StartsRun
    <3>3. samples'[i].second = alert'[m].start
      BY <1>fields, <1>1, <2>3, <3>1, EvaluateStep DEF StartsRun
    <3>4. StartsRun(m, i)'
      BY <3>2, <3>3 DEF StartsRun
    <3>5. QED BY <1>1, <2>1, <2>3, <3>4, EvaluateStep
  <2>4. CASE over(m) /\ ~alert[m].breached
    <3>1. \A j \in 1 .. n - 1 : ~OverSince(m, j)
      BY <1>1, <2>4 DEF BreachInv, OverSince
    <3>2. OverSince(m, n)' /\ \A j \in 1 .. n - 1 : ~OverSince(m, j)'
      BY <1>1, <2>4, <3>1, RunStep
    <3>3. samples'[n].second = alert'[m].start
      BY <1>fields, <1>1, <2>4, EvaluateStep
    <3>4. StartsRun(m, n)'
      BY <3>2, <3>3 DEF StartsRun
    <3>5. QED BY <1>1, <2>1, <2>4, <3>4, EvaluateStep
  <2>5. QED BY <2>2, <2>3, <2>4
<1>6. FiredInv'
  <2> SUFFICES ASSUME NEW m \in Metrics
               PROVE  alert'[m].fired <=>
                         /\ alert'[m].breached
                         /\ samples'[n].second - alert'[m].start >= window
    BY <1>1, <1>2 DEF FiredInv
  <2>1. samples'[n].second = second
    BY <1>1, EvaluateStep
  <2>2. alert[m] \in AlertState
    BY <1>1 DEF TypeOK
  <2>3. alert[m].fired => alert[m].breached /\ second - alert[m].start >= window
    BY <1>1, <1>2, <1>3, <2>2 DEF FiredInv, ClockInv, AlertState, BreachInv
  <2>4. QED
    BY <1>fields, <1>2, <1>3, <2>1, <2>2, <2>3 DEF AlertState
<1>7. ReportInv' /\ OneReportPerEpisode' /\ FiredMeansReported'
  <2> SUFFICES ASSUME NEW m \in Metrics
        PROVE  /\ \A i \in reports'[m] : i \in 1 .. n /\ OverAt(m, i)'
               /\ \A i, j \in reports'[m] :
                     i < j => \E k \in i + 1 .. j - 1 : ~OverAt(m, k)'
               /\ alert'[m].fired <=> \E i \in reports'[m] : OverSince(m, i)'
    BY <1>1 DEF ReportInv, OneReportPerEpisode, FiredMeansReported
  <2>1. \A i \in reports[m] : i \in 1 .. n - 1 /\ OverAt(m, i) /\ OverAt(m, i)'
    BY <1>1, EvaluateStep DEF ReportInv
  <2>2. alert'[m].fired => over(m)
    BY <1>fields
  <2>3. \A i, j \in reports[m] :
           i < j => \E k \in i + 1 .. j - 1 : ~OverAt(m, k)'
    BY <1>1, <2>1, EvaluateStep DEF OneReportPerEpisode
  <2>4. alert[m].fired <=> \E i \in reports[m] : OverSince(m, i)
    BY DEF FiredMeansReported
  <2>5. alert[m].fired => alert[m].breached
    BY DEF FiredInv
  <2>6. CASE NewlyFired(alert[m], alert'[m])
    <3>1. reports'[m] = reports[m] \cup {n} /\ over(m) /\ alert'[m].fired
      BY <2>2, <2>6, EvaluateStep DEF NewlyFired
    <3>2. \A i \in reports[m] : ~OverSince(m, i)
      BY <2>4, <2>5, <2>6 DEF NewlyFired
    <3>3. \A i \in reports[m] : \E k \in i + 1 .. n - 1 : ~OverAt(m, k)'
      BY <1>1, <2>1, <3>2, EvaluateStep DEF OverSince
    <3>4. OverSince(m, n)' /\ OverAt(m, n)'
      BY <1>1, <3>1, RunStep, EvaluateStep
    <3>5. \A i, j \in reports'[m] :
             i < j => \E k \in i + 1 .. j - 1 : ~OverAt(m, k)'
      BY <1>1, <2>1, <2>3, <3>1, <3>3
    <3>6. QED BY <1>1, <2>1, <3>1, <3>4, <3>5
  <2>7. CASE ~NewlyFired(alert[m], alert'[m])
    <3>1. reports'[m] = reports[m]
      BY <2>7, EvaluateStep
    <3>2. alert'[m].fired <=> over(m) /\ alert[m].fired
      BY <1>fields, <2>2, <2>5, <2>7 DEF NewlyFired
    <3>3. \A i \in reports[m] : OverSince(m, i)' <=> over(m) /\ OverSince(m, i)
      BY <1>1, <2>1, RunStep
    <3>4. QED BY <1>1, <2>1, <2>3, <2>4, <3>1, <3>2, <3>3
  <2>8. QED BY <2>6, <2>7
<1>8. QED BY <1>4, <1>5, <1>6, <1>7

-----------------------------------------------------------------------------

\* What the invariant says in the words of the properties.
LEMMA IInvImpliesProperties ==
  ASSUME IInv
  PROVE  FiredOnlyIfSustained /\ FiredWhenSustained
<1>1. Len(samples) \in Nat /\ \A i \in 1 .. Len(samples) : samples[i].second \in Nat
  <2>1. \A i \in 1 .. Len(samples) : samples[i] \in Sample
    BY DEF IInv, TypeOK
  <2>2. QED BY <2>1 DEF IInv, TypeOK, Sample
<1>2. SustainOf(sustain) \in Nat
  BY SustainIsNat DEF IInv
<1>3. FiredOnlyIfSustained
  <2> SUFFICES ASSUME NEW m \in Metrics, alert[m].fired
               PROVE  \E i \in 1 .. Len(samples) :
                         /\ OverSince(m, i)
                         /\ SecondsSince(i) >= SustainOf(sustain)
    BY DEF FiredOnlyIfSustained
  <2>1. PICK i \in 1 .. Len(samples) : StartsRun(m, i)
    BY DEF IInv, BreachInv, FiredInv
  <2>2. SecondsSince(i) >= SustainOf(sustain)
    BY <2>1 DEF IInv, FiredInv, SecondsSince, StartsRun
  <2>3. QED BY <2>1, <2>2 DEF StartsRun
<1>4. FiredWhenSustained
  <2> SUFFICES ASSUME NEW m \in Metrics, NEW i \in 1 .. Len(samples),
                      OverSince(m, i), SecondsSince(i) >= SustainOf(sustain)
               PROVE  alert[m].fired
    BY DEF FiredWhenSustained
  <2>1. alert[m].breached
    BY <1>1 DEF IInv, BreachInv, OverSince
  <2>2. PICK j \in 1 .. Len(samples) : StartsRun(m, j)
    BY <2>1 DEF IInv, BreachInv
  <2>3. j <= i
    BY <1>1, <2>2 DEF StartsRun
  <2>4. samples[j].second <= samples[i].second
    BY <2>3 DEF IInv, ClockInv
  <2>5. samples[Len(samples)].second - samples[j].second >= SustainOf(sustain)
    BY <1>1, <1>2, <2>4 DEF SecondsSince
  <2>6. QED BY <2>1, <2>2, <2>5 DEF IInv, FiredInv, StartsRun
<1>5. QED BY <1>3, <1>4

\* The invariant holds throughout every session.
LEMMA Invariance == Spec => []IInv
<1>1. Init => IInv
  <2> SUFFICES ASSUME Init PROVE IInv
    OBVIOUS
  <2>1. TypeOK
    BY AlertAssumption DEF Init, TypeOK, Config, AlertStateInit, AlertState
  <2>2. samples = <<>> /\ \A m \in Metrics : reports[m] = {} /\ ~alert[m].breached
                                                            /\ ~alert[m].fired
    BY DEF Init, AlertStateInit
  <2>3. QED
    BY <2>1, <2>2 DEF IInv, ClockInv, BreachInv, FiredInv, ReportInv,
                      OneReportPerEpisode, FiredMeansReported
<1>2. TypeOK' /\ IInv /\ [Next]_vars => IInv'
  <2> SUFFICES ASSUME TypeOK', IInv, [Next]_vars PROVE IInv'
    OBVIOUS
  <2>1. ASSUME NEW reading \in Reading, Evaluate(reading) PROVE IInv'
    BY <2>1, EvaluateKeepsIInv
  <2>2. ASSUME NEW config \in Config, NEW seconds \in Sustains,
               ChangeSettings(config, seconds)
        PROVE  IInv'
    <3>1. samples' = <<>> /\ \A m \in Metrics :
             reports'[m] = {} /\ ~alert'[m].breached /\ ~alert'[m].fired
      BY <2>2 DEF ChangeSettings, AlertStateInit
    <3>2. QED
      BY <3>1 DEF IInv, ClockInv, BreachInv, FiredInv, ReportInv,
                  OneReportPerEpisode, FiredMeansReported
  <2>3. CASE Tick
    <3>1. /\ threshold' = threshold /\ sustain' = sustain /\ alert' = alert
          /\ samples' = samples /\ reports' = reports
      BY <2>3 DEF Tick
    <3>2. second' >= second /\ second \in Nat /\ second' \in Nat
      BY <2>3 DEF Tick, IInv, TypeOK
    <3>3. \A i \in 1 .. Len(samples) : samples[i].second \in Nat
      <4>1. \A i \in 1 .. Len(samples) : samples[i] \in Sample
        BY DEF IInv, TypeOK
      <4>2. QED BY <4>1 DEF Sample
    <3>4. ClockInv'
      BY <3>1, <3>2, <3>3 DEF IInv, ClockInv
    <3>5. BreachInv' /\ FiredInv' /\ ReportInv' /\ OneReportPerEpisode'
                     /\ FiredMeansReported'
      BY <3>1 DEF IInv, BreachInv, FiredInv, ReportInv, OneReportPerEpisode,
                  FiredMeansReported, StartsRun, OverSince, OverAt
    <3>6. QED BY <3>4, <3>5 DEF IInv
  <2>4. CASE UNCHANGED vars
    BY <2>4 DEF vars, IInv, TypeOK, Config, ClockInv, BreachInv, FiredInv,
                ReportInv, OneReportPerEpisode, FiredMeansReported, StartsRun,
                OverSince, OverAt
  <2>5. QED BY <2>1, <2>2, <2>3, <2>4 DEF Next
<1>3. QED BY <1>1, <1>2, TypeCorrect, PTL DEF Spec

\* An alert stands only on a breach the readings sustained for the configured
\* seconds: evaluate_one never fires on a brief spike.
THEOREM NoAlertOnASpike == Spec => []FiredOnlyIfSustained
<1>1. IInv => FiredOnlyIfSustained
  BY IInvImpliesProperties
<1>2. QED BY <1>1, Invariance, PTL

\* No sustained breach goes unnoticed, whatever the spacing of the readings.
THEOREM NoBreachIsMissed == Spec => []FiredWhenSustained
<1>1. IInv => FiredWhenSustained
  BY IInvImpliesProperties
<1>2. QED BY <1>1, Invariance, PTL

\* alert_evaluate returns a metric's bit once per episode: between two reports
\* there is a reading under the threshold.
THEOREM ReportedOncePerEpisode == Spec => []OneReportPerEpisode
<1>1. IInv => OneReportPerEpisode
  BY DEF IInv
<1>2. QED BY <1>1, Invariance, PTL

\* The fired flag and the returned bit tell the same story.
THEOREM FlagAgreesWithReports == Spec => []FiredMeansReported
<1>1. IInv => FiredMeansReported
  BY DEF IInv
<1>2. QED BY <1>1, Invariance, PTL

-----------------------------------------------------------------------------
(* Real time.  The code sees whole seconds; what it calls the sustain time *)
(* is short of it by less than one.                                        *)

\* Two times d >= w seconds apart by the code's clock, to the tick.
LEMMA WholeSeconds ==
  ASSUME NEW T \in Nat \ {0}, NEW s \in Nat, NEW t \in Nat, NEW w \in Nat, t - s >= w,
         NEW x \in 0 .. T - 1, NEW y \in 0 .. T - 1
  PROVE  (t * T + y) - (s * T + x) > (w - 1) * T
<1>1. PICK e \in Nat : t = (s + w) + e
  <2>1. (t - s) - w \in Nat /\ t = (s + w) + ((t - s) - w)
    OBVIOUS
  <2>2. QED BY <2>1
<1>2. PICK a, b, c \in Nat : a = s * T /\ b = w * T /\ c = e * T
  <2>1. s * T \in Nat /\ w * T \in Nat /\ e * T \in Nat
    OBVIOUS
  <2>2. QED BY <2>1
<1>3. t * T = (a + b) + c
  BY <1>1, <1>2
<1>4. (w - 1) * T = b - T
  BY <1>2
<1>5. QED BY <1>2, <1>3, <1>4

\* A sample's time is that of the clock when it was taken.
LEMMA SampleType ==
  ASSUME TypeOK, NEW i \in 1 .. Len(samples)
  PROVE  samples[i].second \in Nat /\ samples[i].tick \in 0 .. TicksPerSecond - 1
<1>1. samples[i] \in Sample
  BY DEF TypeOK
<1>2. QED BY <1>1 DEF Sample

\* A metric reported in sample k: the run of readings over the threshold up to
\* k that spans the sustain time less a second.
LongEnough(m, k) ==
    \E i \in 1 .. k :
        /\ \A j \in i .. k : OverAt(m, j)
        /\ Ticks(k) - Ticks(i) > (SustainOf(sustain) - 1) * TicksPerSecond

\* What stands as fired is backed by such a run.
LEMMA FiredIsLongEnough ==
  ASSUME IInv, NEW m \in Metrics, alert[m].fired
  PROVE  LongEnough(m, Len(samples))
<1>1. TypeOK /\ alert[m].breached
           /\ samples[Len(samples)].second - alert[m].start >= SustainOf(sustain)
  BY DEF IInv, FiredInv
<1>2. PICK i \in 1 .. Len(samples) : StartsRun(m, i)
  BY <1>1 DEF IInv, BreachInv
<1>3. PICK n \in Nat \ {0} : n = Len(samples) /\ i \in 1 .. n
  BY <1>1, <1>2 DEF TypeOK
<1>4. \A j \in i .. n : OverAt(m, j)
  BY <1>2, <1>3 DEF StartsRun, OverSince
<1>5. Ticks(n) - Ticks(i) > (SustainOf(sustain) - 1) * TicksPerSecond
  <2>1. /\ samples[n].second \in Nat /\ samples[n].tick \in 0 .. TicksPerSecond - 1
        /\ samples[i].second \in Nat /\ samples[i].tick \in 0 .. TicksPerSecond - 1
    BY <1>1, <1>3, SampleType
  <2>2. samples[n].second - samples[i].second >= SustainOf(sustain)
    BY <1>1, <1>2, <1>3 DEF StartsRun
  <2>3. SustainOf(sustain) \in Nat /\ TicksPerSecond \in Nat \ {0}
    BY <1>1, SustainIsNat, AlertAssumption
  <2>4. QED BY <2>1, <2>2, <2>3, WholeSeconds DEF Ticks
<1>6. QED BY <1>3, <1>4, <1>5 DEF LongEnough

FiredLongEnough ==
    \A m \in Metrics : alert[m].fired => LongEnough(m, Len(samples))

LEMMA FiredIsLongEnoughNext == IInv' => FiredLongEnough'
<1>1. IInv => FiredLongEnough
  BY FiredIsLongEnough DEF FiredLongEnough
<1>2. QED BY <1>1, PTL

LEMMA EvaluateKeepsLongEnough ==
  ASSUME IInv, IInv', NeverASecondEarly, NEW reading \in Reading, Evaluate(reading)
  PROVE  NeverASecondEarly'
<1> SUFFICES ASSUME NEW m \in Metrics, NEW k \in reports'[m]
             PROVE  LongEnough(m, k)'
  BY DEF NeverASecondEarly, LongEnough
<1>1. PICK n : n = Len(samples) + 1
  OBVIOUS
<1>2. TypeOK
  BY DEF IInv
<1>3. /\ n \in Nat \ {0} /\ Len(samples') = n /\ sustain' = sustain
      /\ \A q \in 1 .. n - 1 : samples'[q] = samples[q]
      /\ \A q \in 1 .. n - 1 : OverAt(m, q)' <=> OverAt(m, q)
      /\ reports'[m] = IF NewlyFired(alert[m], alert'[m])
                       THEN reports[m] \cup {n} ELSE reports[m]
  BY <1>1, <1>2, EvaluateStep
<1>4. CASE k \in reports[m]
  <2>1. k \in 1 .. n - 1
    BY <1>1, <1>2, <1>4 DEF IInv, ReportInv, TypeOK
  <2>2. PICK i \in 1 .. k :
           /\ \A j \in i .. k : OverAt(m, j)
           /\ Ticks(k) - Ticks(i) > (SustainOf(sustain) - 1) * TicksPerSecond
    BY <1>4 DEF NeverASecondEarly
  <2>3. i \in 1 .. n - 1 /\ \A j \in i .. k : j \in 1 .. n - 1
    BY <1>3, <2>1, <2>2
  <2>4. Ticks(k)' = Ticks(k) /\ Ticks(i)' = Ticks(i)
    BY <1>3, <2>1, <2>3 DEF Ticks
  <2>5. SustainOf(sustain)' = SustainOf(sustain)
    BY <1>3 DEF SustainOf
  <2>6. \A j \in i .. k : OverAt(m, j)'
    BY <1>3, <2>2, <2>3
  <2>7. QED BY <2>2, <2>4, <2>5, <2>6 DEF LongEnough
<1>5. CASE k \notin reports[m]
  <2>1. k = n /\ alert'[m].fired
    BY <1>3, <1>5 DEF NewlyFired
  <2>2. LongEnough(m, Len(samples))'
    BY <2>1, FiredIsLongEnoughNext DEF FiredLongEnough
  <2>3. QED BY <1>3, <2>1, <2>2 DEF LongEnough
<1>6. QED BY <1>4, <1>5

\* A metric is reported only when its readings were over the threshold for more
\* than the sustain time less one second: time(NULL) drops the fraction of the
\* second the breach began in, and no more than that.
THEOREM ReportedNoSecondEarly == Spec => []NeverASecondEarly
<1>1. Init => NeverASecondEarly
  BY DEF Init, NeverASecondEarly
<1>2. IInv /\ IInv' /\ NeverASecondEarly /\ [Next]_vars => NeverASecondEarly'
  <2> SUFFICES ASSUME IInv, IInv', NeverASecondEarly, [Next]_vars
               PROVE  NeverASecondEarly'
    OBVIOUS
  <2>1. ASSUME NEW reading \in Reading, Evaluate(reading) PROVE NeverASecondEarly'
    BY <2>1, EvaluateKeepsLongEnough
  <2>2. ASSUME NEW config \in Config, NEW seconds \in Sustains,
               ChangeSettings(config, seconds)
        PROVE  NeverASecondEarly'
    BY <2>2 DEF ChangeSettings, NeverASecondEarly
  <2>3. CASE Tick \/ UNCHANGED vars
    BY <2>3 DEF Tick, vars, NeverASecondEarly, OverAt, Ticks
  <2>4. QED BY <2>1, <2>2, <2>3 DEF Next
<1>3. QED BY <1>1, <1>2, Invariance, PTL DEF Spec
=============================================================================
