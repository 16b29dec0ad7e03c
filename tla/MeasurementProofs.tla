------------------------- MODULE MeasurementProofs -------------------------
(***************************************************************************)
(* What the program measures between two readings: of each process, by     *)
(* ProcessScan, and of the machine in a capture, by Capture.               *)
(*                                                                         *)
(* ProcessScan, for any pids, state letters, filters and thresholds: a     *)
(* process that matched twice in a row shows exactly the ticks in between, *)
(* and no tick is measured twice.  The first rests on the baseline and the *)
(* history of visits agreeing: after a visit that matched, the baseline is *)
(* what that visit read, until the entry is visited again.  The second     *)
(* rests on the baseline being an upper bound of what was charged, or      *)
(* nothing being charged yet, which is how a pid's new owner begins,       *)
(* whatever baseline it inherits.                                          *)
(*                                                                         *)
(* Capture, for any clock, load, intervals, durations, limits and failures *)
(* of readings and scans: a series tiles the time it covers, by the CLI or *)
(* by the Qt program, a timed capture keeps its duration and a session is  *)
(* its own.  These rest on the last reading and the shared statics         *)
(* agreeing for as long as a series goes on, so that the next sample goes  *)
(* on where the last one that could read ended, and on the tick being due  *)
(* a second, but for the timer's tolerance, after each second counted.     *)
(***************************************************************************)
EXTENDS ProcessScan, Capture, TLAPS

\* The types the argument needs; the history's are among them.
TypeInv ==
    /\ Running \subseteq Pids
    /\ \A p \in Running : kernel[p] \in Live
    /\ lives \in 0 .. MaxLives
    /\ previous \in [Pids -> (0 .. MaxTicks) \cup {NoSample}]
    /\ todo \subseteq Pids
    /\ visit \in [Pids -> Visit \cup {NoSample}]
    /\ last_visit \in [Pids -> Visit \cup {NoSample}]
    /\ charged \in [1 .. MaxLives -> Nat]

\* The rest of TypeOK.
MiscInv ==
    /\ states \in Filters
    /\ threshold \in CpuThresholds
    /\ table \subseteq Row
    /\ scanning \in BOOLEAN
    /\ scans \in 0 .. MaxScans

\* Lives are numbered upwards and a number is used for one process.
LivesInv ==
    /\ \A p \in Running : kernel[p].life <= lives
    /\ \A p, q \in Running : kernel[p].life = kernel[q].life => p = q

\* What a visit read was of a life already begun, and it can only have grown.
PastOf(past) ==
    \A p \in Pids : past[p] # NoSample =>
        /\ past[p].life <= lives
        /\ p \in Running /\ kernel[p].life = past[p].life
               => past[p].ticks <= kernel[p].ticks

\* After a visit that matched, the baseline is what it read; for an entry that
\* this scan has not reached, what the scan before read.
BaselineInv ==
    /\ \A p \in Pids : visit[p] # NoSample /\ visit[p].matched
            => previous[p] = visit[p].ticks
    /\ \A p \in todo : last_visit[p] # NoSample /\ last_visit[p].matched
            => previous[p] = last_visit[p].ticks

\* The table of a scan belongs to it.
TodoInv == ~scanning => todo = {}

\* What was charged to a running process is covered by its baseline.
Covered(p) ==
    \/ charged[kernel[p].life] = 0
    \/ /\ previous[p] # NoSample
       /\ charged[kernel[p].life] <= previous[p]
       /\ previous[p] <= kernel[p].ticks

ChargeInv ==
    /\ \A p \in Running : Covered(p)
    /\ \A l \in 1 .. MaxLives : l > lives => charged[l] = 0

IInv ==
    /\ TypeInv
    /\ MiscInv
    /\ LivesInv
    /\ PastOf(visit)
    /\ PastOf(last_visit)
    /\ BaselineInv
    /\ TodoInv
    /\ ChargeInv
    /\ MatchedTwiceIsExact

-----------------------------------------------------------------------------

\* Usage is never negative and never more than the process has consumed.
LEMMA UsageBounds ==
    ASSUME NEW x \in Live, NEW b \in (0 .. MaxTicks) \cup {NoSample}
    PROVE  /\ Usage(x, b) \in 0 .. MaxTicks
           /\ Usage(x, b) <= x.ticks
           /\ b \in Nat /\ b <= x.ticks => Usage(x, b) = x.ticks - b
           /\ b = NoSample \/ x.ticks < b => Usage(x, b) = 0
<1>1. x.ticks \in 0 .. MaxTicks
  BY DEF Live
<1>2. CASE b = NoSample
  BY <1>1, <1>2, ScanAssumption DEF Usage
<1>3. CASE b # NoSample
  <2>1. b \in 0 .. MaxTicks
    BY <1>3
  <2> QED BY <1>1, <1>3, <2>1, ScanAssumption DEF Usage
<1> QED BY <1>2, <1>3

\* No process, no visit, no baseline, no charge.
LEMMA InitIInv == Init => IInv
<1> SUFFICES ASSUME Init PROVE IInv
  OBVIOUS
<1>1. TypeInv
  <2>1. Running = {} /\ 0 \in 0 .. MaxLives
    BY ScanAssumption DEF Init, Running
  <2>2. /\ visit \in [Pids -> Visit \cup {NoSample}]
        /\ last_visit \in [Pids -> Visit \cup {NoSample}]
        /\ previous \in [Pids -> (0 .. MaxTicks) \cup {NoSample}]
    BY DEF Init
  <2>3. charged \in [1 .. MaxLives -> Nat]
    BY DEF Init
  <2> QED BY <2>1, <2>2, <2>3 DEF Init, TypeInv
<1>2. MiscInv /\ TodoInv /\ MatchedTwiceIsExact
  <2>1. 0 \in 0 .. MaxScans
    BY ScanAssumption
  <2>2. MiscInv
    BY <2>1 DEF Init, MiscInv
  <2> QED BY <2>2 DEF Init, TodoInv, MatchedTwiceIsExact
<1>3. LivesInv /\ PastOf(visit) /\ PastOf(last_visit) /\ BaselineInv
  BY DEF Init, LivesInv, PastOf, BaselineInv, Running
<1>4. ChargeInv
  BY DEF Init, ChargeInv, Running
<1> QED BY <1>1, <1>2, <1>3, <1>4 DEF IInv

\* A new process: nothing was read of it or charged to it.
LEMMA SpawnStep ==
    ASSUME IInv, NEW p \in Pids, NEW s \in States, Spawn(p, s)
    PROVE  IInv'
<1> DEFINE new == [life |-> lives + 1, ticks |-> 0, state |-> s]
<1>1. /\ p \notin Running /\ lives' = lives + 1 /\ lives < MaxLives
      /\ Running' = Running \cup {p}
      /\ kernel'[p] = new
      /\ \A q \in Running : q # p /\ kernel'[q] = kernel[q]
      /\ UNCHANGED monitor
  BY DEF Spawn, Running
<1>2. lives \in Nat /\ lives' \in 1 .. MaxLives
  BY <1>1, ScanAssumption DEF IInv, TypeInv
<1>3. new \in Live
  BY <1>1, <1>2, ScanAssumption DEF Live
<1>4. TypeInv'
  BY <1>1, <1>2, <1>3 DEF IInv, TypeInv, monitor
<1>5. MiscInv' /\ TodoInv' /\ BaselineInv'
  BY <1>1 DEF IInv, MiscInv, TodoInv, BaselineInv, monitor, settings
<1>6. LivesInv'
  <2>1. \A q \in Running : kernel[q].life \in 1 .. lives
    BY <1>2 DEF IInv, TypeInv, LivesInv, Live
  <2> QED BY <1>1, <1>2, <2>1 DEF IInv, LivesInv
<1>7. ASSUME NEW past \in [Pids -> Visit \cup {NoSample}], PastOf(past),
             NEW q \in Pids, past[q] # NoSample
      PROVE  /\ past[q].life <= lives'
             /\ q \in Running' /\ kernel'[q].life = past[q].life
                    => past[q].ticks <= kernel'[q].ticks
  <2>1. past[q].life <= lives /\ past[q].life \in Nat
    BY <1>7 DEF PastOf, Visit
  <2>2. CASE q = p
    BY <1>1, <1>2, <2>1, <2>2
  <2>3. CASE q # p
    BY <1>1, <1>2, <1>7, <2>1, <2>3 DEF PastOf
  <2> QED BY <2>2, <2>3
<1>8. PastOf(visit)' /\ PastOf(last_visit)'
  BY <1>1, <1>7 DEF IInv, TypeInv, PastOf, monitor
<1>9. ChargeInv'
  <2>1. charged[lives'] = 0
    BY <1>1, <1>2 DEF IInv, ChargeInv
  <2> QED BY <1>1, <1>2, <2>1 DEF IInv, ChargeInv, Covered, monitor
<1>10. MatchedTwiceIsExact'
  BY <1>1 DEF IInv, MatchedTwiceIsExact, SeenBefore, SinceLastScan, monitor
<1> QED BY <1>4, <1>5, <1>6, <1>8, <1>9, <1>10 DEF IInv

\* A process ends: there is less to say.
LEMMA ExitStep ==
    ASSUME IInv, NEW p \in Pids, Exit(p)
    PROVE  IInv'
<1>1. /\ Running' = Running \ {p}
      /\ \A q \in Running' : kernel'[q] = kernel[q]
      /\ lives' = lives
      /\ UNCHANGED monitor
  BY DEF Exit, Running
<1>2. TypeInv' /\ MiscInv' /\ TodoInv' /\ BaselineInv'
  BY <1>1 DEF IInv, TypeInv, MiscInv, TodoInv, BaselineInv, monitor, settings
<1>3. LivesInv' /\ PastOf(visit)' /\ PastOf(last_visit)'
  BY <1>1 DEF IInv, LivesInv, PastOf, monitor
<1>4. ChargeInv' /\ MatchedTwiceIsExact'
  BY <1>1 DEF IInv, ChargeInv, Covered, MatchedTwiceIsExact, SeenBefore,
     SinceLastScan, monitor
<1> QED BY <1>2, <1>3, <1>4 DEF IInv

\* A process runs: its counter grows, its life does not change.
LEMMA ScheduleStep ==
    ASSUME IInv, NEW p \in Pids, NEW n \in 0 .. 1, NEW s \in States, Schedule(p, n, s)
    PROVE  IInv'
<1>1. /\ p \in Running /\ Running' = Running
      /\ kernel[p].ticks + n <= MaxTicks
      /\ lives' = lives
      /\ UNCHANGED monitor
      /\ \A q \in Running : q # p => kernel'[q] = kernel[q]
  BY DEF Schedule, Running
<1>2. kernel'[p] = [kernel[p] EXCEPT !.ticks = @ + n, !.state = s]
  BY DEF Schedule, Running
<1>3. kernel[p] \in Live
  BY <1>1 DEF IInv, TypeInv
<1>4. /\ kernel'[p].life = kernel[p].life
      /\ kernel'[p].ticks = kernel[p].ticks + n
      /\ kernel'[p] \in Live
  <2>1. kernel'[p] = [life  |-> kernel[p].life, ticks |-> kernel[p].ticks + n,
                      state |-> s]
    BY <1>2, <1>3 DEF Live
  <2>2. kernel[p].life \in 1 .. MaxLives /\ kernel[p].ticks + n \in 0 .. MaxTicks
    BY <1>1, <1>3, ScanAssumption DEF Live
  <2> QED BY <2>1, <2>2 DEF Live
<1>5. \A q \in Running : /\ kernel'[q].life = kernel[q].life
                         /\ kernel[q].ticks \in Nat /\ kernel'[q].ticks \in Nat
                         /\ kernel[q].ticks <= kernel'[q].ticks
  BY <1>1, <1>3, <1>4 DEF IInv, TypeInv, Live
<1>6. TypeInv'
  BY <1>1, <1>4 DEF IInv, TypeInv, monitor
<1>7. MiscInv' /\ TodoInv' /\ BaselineInv'
  BY <1>1 DEF IInv, MiscInv, TodoInv, BaselineInv, monitor, settings
<1>8. LivesInv'
  BY <1>1, <1>5 DEF IInv, LivesInv
<1>9. ASSUME NEW past \in [Pids -> Visit \cup {NoSample}], PastOf(past),
             NEW q \in Pids, past[q] # NoSample
      PROVE  /\ past[q].life <= lives'
             /\ q \in Running' /\ kernel'[q].life = past[q].life
                    => past[q].ticks <= kernel'[q].ticks
  <2>1. past[q].ticks \in Nat
    BY <1>9 DEF Visit
  <2> QED BY <1>1, <1>5, <1>9, <2>1 DEF PastOf
<1>10. PastOf(visit)' /\ PastOf(last_visit)'
  BY <1>1, <1>9 DEF IInv, TypeInv, PastOf, monitor
<1>11. ChargeInv'
  <2>1. ASSUME NEW q \in Running PROVE Covered(q)'
    <3>1. Covered(q)
      BY <2>1 DEF IInv, ChargeInv
    <3>2. previous[q] \in Nat \cup {NoSample}
      BY <2>1 DEF IInv, TypeInv
    <3> QED BY <1>1, <1>5, <2>1, <3>1, <3>2 DEF Covered, monitor
  <2> QED BY <1>1, <2>1 DEF IInv, ChargeInv, monitor
<1>12. MatchedTwiceIsExact'
  BY <1>1 DEF IInv, MatchedTwiceIsExact, SeenBefore, SinceLastScan, monitor
<1> QED BY <1>6, <1>7, <1>8, <1>10, <1>11, <1>12 DEF IInv

\* A scan begins: this scan's visits become the last one's.
LEMMA BeginScanStep ==
    ASSUME IInv, BeginScan
    PROVE  IInv'
<1>1. TypeInv'
  <2>1. visit' \in [Pids -> Visit \cup {NoSample}]
    BY DEF BeginScan
  <2> QED BY <2>1 DEF BeginScan, IInv, TypeInv, Running
<1>1a. MiscInv'
  BY ScanAssumption DEF BeginScan, IInv, MiscInv, settings
<1>1b. LivesInv' /\ TodoInv'
  BY DEF BeginScan, IInv, LivesInv, TodoInv, Running
<1>1c. ChargeInv'
  BY DEF BeginScan, IInv, ChargeInv, Covered, Running
<1>2. PastOf(visit)' /\ PastOf(last_visit)'
  BY DEF BeginScan, IInv, PastOf, Running
<1>3. BaselineInv'
  BY DEF BeginScan, IInv, BaselineInv, TypeInv, Running
<1>4. MatchedTwiceIsExact'
  BY DEF BeginScan, MatchedTwiceIsExact
<1> QED BY <1>1, <1>1a, <1>1b, <1>1c, <1>2, <1>3, <1>4 DEF IInv

\* A scan ends, and settings change: the history stays.
LEMMA OutsideStep ==
    ASSUME IInv,
           \/ EndScan
           \/ \E s \in Filters, t \in CpuThresholds : ChangeSettings(s, t)
    PROVE  IInv'
<1>1. /\ UNCHANGED <<kernel, lives, previous, table, todo, scans, visit, last_visit, charged>>
      /\ scanning' \in {scanning, FALSE}
      /\ todo = {} \/ scanning' = scanning
      /\ states' \in Filters /\ threshold' \in CpuThresholds
  BY DEF EndScan, ChangeSettings, settings, IInv, MiscInv
<1>2. TypeInv' /\ MiscInv' /\ LivesInv' /\ TodoInv'
  <2>1. TypeInv' /\ LivesInv'
    BY <1>1 DEF IInv, TypeInv, LivesInv, Running
  <2>2. MiscInv'
    <3>1. scanning' \in BOOLEAN
      BY <1>1 DEF IInv, MiscInv
    <3> QED BY <1>1, <3>1 DEF IInv, MiscInv
  <2>3. TodoInv'
    <3>1. CASE todo = {}
      BY <1>1, <3>1 DEF TodoInv
    <3>2. CASE scanning' = scanning
      BY <1>1, <3>2 DEF IInv, TodoInv
    <3> QED BY <1>1, <3>1, <3>2
  <2> QED BY <2>1, <2>2, <2>3
<1>3. PastOf(visit)' /\ PastOf(last_visit)' /\ BaselineInv'
  BY <1>1 DEF IInv, PastOf, BaselineInv, Running
<1>4. ChargeInv' /\ MatchedTwiceIsExact'
  BY <1>1 DEF IInv, ChargeInv, Covered, Running, MatchedTwiceIsExact, SeenBefore,
     SinceLastScan
<1> QED BY <1>2, <1>3, <1>4 DEF IInv

\* An entry whose process is gone: only todo shrinks.
LEMMA GoneStep ==
    ASSUME IInv, NEW p \in Pids, VisitEntry(p), p \notin Running
    PROVE  IInv'
<1>1. /\ UNCHANGED <<kernel, lives, settings, previous, table, scanning, scans, visit,
                     last_visit, charged>>
      /\ todo' = todo \ {p}
  BY DEF VisitEntry
<1>2. TypeInv' /\ MiscInv' /\ LivesInv' /\ TodoInv'
  BY <1>1 DEF IInv, TypeInv, MiscInv, LivesInv, TodoInv, Running, settings
<1>3. PastOf(visit)' /\ PastOf(last_visit)' /\ BaselineInv'
  BY <1>1 DEF IInv, PastOf, BaselineInv, Running
<1>4. ChargeInv' /\ MatchedTwiceIsExact'
  BY <1>1 DEF IInv, ChargeInv, Covered, Running, MatchedTwiceIsExact, SeenBefore,
     SinceLastScan
<1> QED BY <1>2, <1>3, <1>4 DEF IInv

\* What the visit of a running process writes down of it.
LEMMA VisitWrites ==
    ASSUME IInv, NEW p \in Pids, VisitEntry(p), p \in Running
    PROVE  /\ kernel[p] \in Live
           /\ visit' = [visit EXCEPT ![p] = [life |-> kernel[p].life,
                          ticks |-> kernel[p].ticks, matched |-> Matches(kernel[p])]]
           /\ todo' = todo \ {p}
           /\ visit'[p].life = kernel[p].life
           /\ visit'[p].ticks = kernel[p].ticks
           /\ visit'[p].matched = Matches(kernel[p])
           /\ \A q \in Pids : q # p => visit'[q] = visit[q]
           /\ UNCHANGED <<kernel, lives, settings, scanning, scans, last_visit>>
           /\ visit' \in [Pids -> Visit \cup {NoSample}]
           /\ PastOf(visit)'
<1>1. kernel[p] \in Live
  BY DEF IInv, TypeInv
<1>2. /\ visit' = [visit EXCEPT ![p] = [life |-> kernel[p].life,
                     ticks |-> kernel[p].ticks, matched |-> Matches(kernel[p])]]
      /\ todo' = todo \ {p}
      /\ UNCHANGED <<kernel, lives, settings, scanning, scans, last_visit>>
  BY DEF VisitEntry
<1>3. /\ visit'[p].life = kernel[p].life
      /\ visit'[p].ticks = kernel[p].ticks
      /\ visit'[p].matched = Matches(kernel[p])
      /\ \A q \in Pids : q # p => visit'[q] = visit[q]
  BY <1>2 DEF IInv, TypeInv
<1>4. visit' \in [Pids -> Visit \cup {NoSample}]
  <2>1. Matches(kernel[p]) \in BOOLEAN
    BY DEF Matches
  <2>2. [life |-> kernel[p].life, ticks |-> kernel[p].ticks,
         matched |-> Matches(kernel[p])] \in Visit
    BY <1>1, <2>1 DEF Visit, Live
  <2> QED BY <1>2, <2>2 DEF IInv, TypeInv
<1>5. PastOf(visit)'
  <2>1. kernel[p].ticks <= kernel[p].ticks
    BY <1>1 DEF Live
  <2> QED BY <1>2, <1>3, <2>1 DEF IInv, PastOf, LivesInv, Running
<1> QED BY <1>1, <1>2, <1>3, <1>4, <1>5

\* An entry the filter rejects: visited, and nothing else.
LEMMA RejectedStep ==
    ASSUME IInv, NEW p \in Pids, VisitEntry(p), p \in Running, ~Matches(kernel[p])
    PROVE  IInv'
<1>1. UNCHANGED <<table, previous, charged>>
  BY DEF VisitEntry
<1>2. TypeInv' /\ MiscInv' /\ LivesInv' /\ TodoInv'
  BY <1>1, VisitWrites DEF IInv, TypeInv, MiscInv, LivesInv, TodoInv, Running, settings
<1>3. PastOf(visit)' /\ PastOf(last_visit)'
  BY <1>1, VisitWrites DEF IInv, PastOf, Running
<1>4. BaselineInv'
  BY <1>1, VisitWrites DEF IInv, BaselineInv, TypeInv
<1>5. ChargeInv' /\ MatchedTwiceIsExact'
  BY <1>1, VisitWrites DEF IInv, ChargeInv, Covered, Running, MatchedTwiceIsExact,
     SeenBefore, SinceLastScan
<1> QED BY <1>2, <1>3, <1>4, <1>5 DEF IInv

\* An entry the filter passes: the row, the baseline and the charge.
LEMMA MatchedStep ==
    ASSUME IInv, NEW p \in Pids, VisitEntry(p), p \in Running, Matches(kernel[p])
    PROVE  IInv'
<1> DEFINE l   == kernel[p].life
           t   == kernel[p].ticks
           cpu == Usage(kernel[p], previous[p])
           row == [pid |-> p, life |-> l, ticks |-> t, cpu |-> cpu]
<1>1. /\ p \in todo
      /\ table' = table \/ table' = table \cup {row}
      /\ previous' = [previous EXCEPT ![p] = t]
      /\ charged' = [charged EXCEPT ![l] = @ + cpu]
  BY DEF VisitEntry, PreviousSet
<1>2. kernel[p] \in Live /\ l \in 1 .. MaxLives /\ t \in 0 .. MaxTicks /\ l <= lives
  BY DEF IInv, TypeInv, Live, LivesInv
<1>3. previous[p] \in (0 .. MaxTicks) \cup {NoSample}
  BY DEF IInv, TypeInv
<1>4. /\ cpu \in 0 .. MaxTicks
      /\ cpu <= t
      /\ previous[p] \in Nat /\ previous[p] <= t => cpu = t - previous[p]
      /\ previous[p] = NoSample \/ t < previous[p] => cpu = 0
  BY <1>2, <1>3, UsageBounds
<1> HIDE DEF cpu
<1>5. previous'[p] = t /\ \A q \in Pids : q # p => previous'[q] = previous[q]
  BY <1>1 DEF IInv, TypeInv
<1>6. /\ charged[l] \in Nat
      /\ charged'[l] = charged[l] + cpu
      /\ \A k \in 1 .. MaxLives : k # l => charged'[k] = charged[k]
  BY <1>1, <1>2 DEF IInv, TypeInv
<1>7. TypeInv'
  <2>1. previous' \in [Pids -> (0 .. MaxTicks) \cup {NoSample}]
    BY <1>1, <1>2 DEF IInv, TypeInv
  <2>2. charged' \in [1 .. MaxLives -> Nat]
    <3>1. charged[l] + cpu \in Nat
      BY <1>4, <1>6, ScanAssumption
    <3> QED BY <1>1, <3>1 DEF IInv, TypeInv
  <2>3. todo' \subseteq Pids
    BY VisitWrites DEF IInv, TypeInv
  <2> QED BY <2>1, <2>2, <2>3, VisitWrites DEF IInv, TypeInv, Running
<1>8. MiscInv'
  <2>1. row \in Row
    BY <1>2, <1>4 DEF Row
  <2>2. table' \subseteq Row
    BY <1>1, <2>1 DEF IInv, MiscInv
  <2> QED BY <2>2, VisitWrites DEF IInv, MiscInv, settings
<1>9. LivesInv' /\ TodoInv'
  BY VisitWrites DEF IInv, LivesInv, TodoInv, Running
<1>10. PastOf(visit)' /\ PastOf(last_visit)'
  BY VisitWrites DEF IInv, PastOf, Running
<1>11. BaselineInv'
  BY <1>5, VisitWrites DEF IInv, BaselineInv, TypeInv
<1>12. ChargeInv'
  <2>1. Covered(p)'
    <3>1. Covered(p)
      BY DEF IInv, ChargeInv
    <3>2. charged[l] + cpu <= t
      BY <1>2, <1>3, <1>4, <1>6, <3>1 DEF Covered
    <3>3. t # NoSample
      BY <1>2, ScanAssumption
    <3> QED BY <1>2, <1>5, <1>6, <3>2, <3>3, VisitWrites DEF Covered
  <2>2. ASSUME NEW q \in Running, q # p PROVE Covered(q)'
    <3>1. kernel[q].life \in 1 .. MaxLives /\ kernel[q].life # l /\ q \in Pids
      BY <2>2 DEF IInv, LivesInv, TypeInv, Live
    <3>2. charged'[kernel[q].life] = charged[kernel[q].life] /\ previous'[q] = previous[q]
      BY <1>5, <1>6, <2>2, <3>1
    <3> QED BY <2>2, <3>2, VisitWrites DEF IInv, ChargeInv, Covered
  <2>3. ASSUME NEW k \in 1 .. MaxLives, k > lives PROVE charged'[k] = 0
    <3>1. k # l
      BY <1>2, <2>3 DEF IInv, TypeInv
    <3> QED BY <1>6, <2>3, <3>1 DEF IInv, ChargeInv
  <2> QED BY <2>1, <2>2, <2>3, VisitWrites DEF ChargeInv, Running
<1>13. MatchedTwiceIsExact'
  <2>1. ASSUME NEW r \in table', SeenBefore(r), last_visit[r.pid].matched
        PROVE  r.cpu = SinceLastScan(r)
    <3>1. CASE r \in table
      BY <2>1, <3>1 DEF IInv, MatchedTwiceIsExact
    <3>2. CASE r = row
      <4>1. previous[p] = last_visit[p].ticks /\ last_visit[p].ticks <= t
        BY <1>1, <2>1, <3>2 DEF IInv, BaselineInv, PastOf, SeenBefore
      <4>2. last_visit[p] \in Visit
        BY <2>1, <3>2 DEF IInv, TypeInv, SeenBefore
      <4>3. cpu = t - last_visit[p].ticks
        BY <1>4, <4>1, <4>2 DEF Visit
      <4> QED BY <2>1, <3>2, <4>3 DEF SinceLastScan
    <3> QED BY <1>1, <2>1, <3>1, <3>2
  <2> QED BY <2>1, VisitWrites DEF MatchedTwiceIsExact, SeenBefore, SinceLastScan
<1> QED BY <1>7, <1>8, <1>9, <1>10, <1>11, <1>12, <1>13 DEF IInv

\* Every step preserves the invariant.
LEMMA NextIInv == IInv /\ [Next]_vars => IInv'
<1> SUFFICES ASSUME IInv, [Next]_vars PROVE IInv'
  OBVIOUS
<1>1. CASE UNCHANGED vars
  <2>1. TypeInv' /\ MiscInv' /\ LivesInv' /\ TodoInv'
    <3>1. TypeInv' /\ LivesInv'
      BY <1>1 DEF vars, IInv, TypeInv, LivesInv, Running
    <3>2. MiscInv' /\ TodoInv'
      BY <1>1 DEF vars, settings, IInv, MiscInv, TodoInv
    <3> QED BY <3>1, <3>2
  <2>2. PastOf(visit)' /\ PastOf(last_visit)' /\ BaselineInv'
    BY <1>1 DEF vars, IInv, PastOf, BaselineInv, Running
  <2>3. ChargeInv' /\ MatchedTwiceIsExact'
    BY <1>1 DEF vars, IInv, ChargeInv, Covered, Running, MatchedTwiceIsExact,
       SeenBefore, SinceLastScan
  <2> QED BY <2>1, <2>2, <2>3 DEF IInv
<1>2. ASSUME NEW p \in Pids, VisitEntry(p) PROVE IInv'
  BY <1>2, GoneStep, RejectedStep, MatchedStep
<1>3. CASE Next
  BY <1>2, <1>3, SpawnStep, ExitStep, ScheduleStep, BeginScanStep, OutsideStep DEF Next
<1> QED BY <1>1, <1>3

\* The invariant holds in every reachable state.
LEMMA Invariance == Spec => []IInv
  BY InitIInv, NextIInv, PTL DEF Spec

\* A process that matched the filters in two refreshes in a row shows exactly
\* the ticks between them, whatever the thresholds hid and whoever had its pid.
THEOREM UsageIsExact == Spec => []MatchedTwiceIsExact
<1>1. IInv => MatchedTwiceIsExact
  BY DEF IInv
<1> QED BY <1>1, Invariance, PTL

\* No tick of a running process is measured twice.
THEOREM TicksAreMeasuredOnce == Spec => []NoTickMeasuredTwice
<1>1. IInv => NoTickMeasuredTwice
  <2> SUFFICES ASSUME IInv, NEW p \in Running
               PROVE  charged[kernel[p].life] <= kernel[p].ticks
    BY DEF NoTickMeasuredTwice
  <2>1. kernel[p].life \in 1 .. MaxLives /\ kernel[p].ticks \in Nat /\ p \in Pids
    BY DEF IInv, TypeInv, Live
  <2>2. charged[kernel[p].life] \in Nat /\ previous[p] \in Nat \cup {NoSample}
    BY <2>1 DEF IInv, TypeInv
  <2> QED BY <2>1, <2>2 DEF IInv, ChargeInv, Covered
<1> QED BY <1>1, Invariance, PTL

\* The tables hold rows, the baselines counters and the histories visits.
THEOREM TypeCorrect == Spec => []TypeOK
<1>1. IInv => TypeOK
  BY DEF IInv, TypeInv, MiscInv, TypeOK
<1> QED BY <1>1, Invariance, PTL

-----------------------------------------------------------------------------
(* Capture.                                                                *)

\* A reading of /proc/stat, a sample.
Reading == [busy : Nat, idle : Nat, has : BOOLEAN, at : Nat]
Samples == [elapsed : Int, when : Nat, list : Int, read : BOOLEAN, measured : BOOLEAN,
            from : Nat, cpu : [used : Int, of : Int]]
Timers  == {"controller", "refresh", "tick"}

Last == series[Len(series)]

\* The last reading is of the past, and what it read of the time that the machine
\* worked can only have grown; of the idle time, which may shrink, nothing is said.
MeterInv ==
    /\ {now, busy, idle} \subseteq Nat
    /\ prev \in Reading
    /\ prev.busy <= busy
    /\ prev.at <= now
    /\ list \in Int

SeriesInv ==
    /\ series \in Seq(Samples)
    /\ start_time \in Int
    /\ \A k \in DOMAIN series : Share(series[k])
    /\ SamplesTile
    /\ ElapsedFromZero
    /\ ListsFollow

\* While a series goes on, the statics hold the reading of the last sample that
\* could read: nobody reads the usage without adding a sample.
ReadLast(j) == series[j].read /\ \A i \in j + 1 .. Len(series) : ~series[i].read
MeterTie    == \A j \in DOMAIN series : ReadLast(j) => prev.has /\ prev.at = series[j].when

\* And the list is that of the last sample or the rest a failed scan left of it, but
\* for the CLI's scan right before a sample.
ListTie ==
    series # <<>> =>
        /\ Last.when <= now
        /\ Last.elapsed = Second(Last.when) - start_time
        /\ IF at = "sample" THEN list = now ELSE list \in {Unfinished, Last.list}

TieInv == program = "cli" \/ capturing => MeterTie /\ ListTie

CliInv ==
    /\ CliTypeOK
    /\ {duration, began, wake} \subseteq Nat
    /\ program \in {"cli", "qt"}
    /\ program = "cli" => ~window /\ ~capturing
    /\ program = "qt" => at = "test" /\ why = ""
    /\ why = "over" =>
        /\ at \in {"report", "exited"}
        /\ series # <<>>
        /\ PerSecond * (Second(Last.when) - Second(began)) >= duration
    /\ at = "sleep" => now <= wake
    /\ duration > 0 /\ at = "sleep" => wake - began < duration + PerSecond + SleepTime

\* A second of the tick timer, with all the tolerance it has.
Tick1 == PerSecond - Early

\* The tick timer runs while there is a capture, is due a second at least, but for
\* its tolerance, after each second counted, and stops when the limit is reached.
TickInv ==
    /\ capturing <=> due.tick # Off
    /\ capturing =>
        /\ window
        /\ begun \in Nat
        /\ begun <= now
        /\ begun + Tick1 * (elapsed + 1) <= due.tick
        /\ Tick1 * elapsed <= now - begun
        /\ limit > 0 => elapsed < limit
    /\ limit > 0 => elapsed <= limit

\* What a window holds of its session.
FedInv ==
    IF window THEN /\ Len(series) = IF capturing THEN updates ELSE atStop
                   /\ \A k \in DOMAIN series : begun <= series[k].when
              ELSE atStop = 0

QtInv ==
    /\ QtTypeOK
    /\ due \in [Timers -> Int]
    /\ {updates, atStop} \subseteq Nat
    /\ begun \in Int
    /\ TickInv
    /\ FedInv

CaptureInv == MeterInv /\ SeriesInv /\ TieInv /\ CliInv /\ QtInv
-----------------------------------------------------------------------------

\* A time lies in its second, and a later one in the same or a later second.
LEMMA SecondsOf ==
    ASSUME NEW t \in Nat
    PROVE  /\ Second(t) \in Nat
           /\ PerSecond * Second(t) <= t
           /\ t < PerSecond * Second(t) + PerSecond
<1>1. PerSecond \in Nat /\ PerSecond > 0
  BY CaptureSeriesAssumption
<1> DEFINE s == t \div PerSecond
<1>2. s \in Nat /\ PerSecond * s <= t /\ t < PerSecond * s + PerSecond
  BY <1>1
<1> QED BY <1>2 DEF Second

LEMMA SecondsGrow ==
    ASSUME NEW t \in Nat, NEW u \in Nat, t <= u
    PROVE  Second(t) <= Second(u)
<1>1. PerSecond \in Nat /\ PerSecond > 0
  BY CaptureSeriesAssumption
<1>2. /\ Second(t) \in Nat /\ Second(u) \in Nat
      /\ PerSecond * Second(t) <= t /\ u < PerSecond * Second(u) + PerSecond
  BY SecondsOf
<1>3. SUFFICES ASSUME Second(t) >= Second(u) + 1 PROVE FALSE
  BY <1>2
<1>4. PerSecond * Second(t) >= PerSecond * (Second(u) + 1)
  BY <1>1, <1>2, <1>3
<1>5. PerSecond * (Second(u) + 1) = PerSecond * Second(u) + PerSecond
  BY <1>1, <1>2
<1>6. PerSecond * Second(t) \in Nat /\ PerSecond * Second(u) \in Nat
  BY <1>1, <1>2
<1> QED BY <1>1, <1>2, <1>4, <1>5, <1>6

\* The usage is a share of the jiffies since the last reading.
LEMMA UsageIsShare ==
    ASSUME MeterInv
    PROVE  /\ CpuPercent \in [used : Int, of : Int]
           /\ 0 <= CpuPercent.used
           /\ CpuPercent.used <= CpuPercent.of
<1> DEFINE total == (busy + idle) - (prev.busy + prev.idle)
<1>1. /\ busy \in Nat /\ idle \in Nat /\ prev.busy \in Nat /\ prev.idle \in Nat
      /\ prev.busy <= busy
  BY DEF MeterInv, Reading
<1>2. CASE prev.has /\ total > 0
  <2>1. CpuPercent = [used |-> total - IdleDelta, of |-> total]
    BY <1>2 DEF CpuPercent
  <2>2. total \in Int /\ IdleDelta \in Nat
    BY <1>1 DEF IdleDelta
  <2>3. 0 <= total - IdleDelta
    BY <1>1, <1>2 DEF IdleDelta
  <2> QED BY <2>1, <2>2, <2>3
<1>3. CASE ~(prev.has /\ total > 0)
  <2>1. CpuPercent = [used |-> 0, of |-> 0]
    BY <1>3 DEF CpuPercent
  <2> QED BY <2>1
<1> QED BY <1>2, <1>3

\* The clock and the counters go on, and the last reading stays one of the past.
LEMMA PassMeter ==
    ASSUME MeterInv, Pass, UNCHANGED <<prev, list>>
    PROVE  MeterInv' /\ now' = now + 1
<1>1. Jiffies \in Nat
  BY CaptureSeriesAssumption
<1>2. {now, busy, idle} \subseteq Nat /\ prev.busy \in Nat /\ prev.at \in Nat
  BY DEF MeterInv, Reading
<1>3. now' \in Nat /\ now' = now + 1 /\ busy' \in Nat /\ idle' \in Nat /\ busy <= busy'
  BY <1>1, <1>2 DEF Pass
<1>4. prev'.busy <= busy' /\ prev'.at <= now'
  BY <1>2, <1>3 DEF MeterInv
<1> QED BY <1>3, <1>4 DEF MeterInv

\* Reading the usage, or failing to, and scanning.
LEMMA ReadMeter ==
    ASSUME MeterInv, UNCHANGED machine, NEW ok \in BOOLEAN, Read(ok) \/ UNCHANGED prev,
           list' \in Int
    PROVE  MeterInv'
<1>1. UNCHANGED <<now, busy, idle>>
  BY DEF machine
<1>2. prev' \in Reading /\ prev'.busy <= busy /\ prev'.at <= now
  <2>1. CASE ok /\ Read(ok)
    <3>1. prev' = [busy |-> busy, idle |-> idle, has |-> TRUE, at |-> now]
      BY <2>1 DEF Read
    <3> QED BY <3>1 DEF MeterInv, Reading
  <2>2. CASE ~(ok /\ Read(ok))
    <3>1. prev' = prev
      BY <2>2 DEF Read
    <3> QED BY <3>1 DEF MeterInv
  <2> QED BY <2>1, <2>2
<1> QED BY <1>1, <1>2 DEF MeterInv

\* The time a list has, whether its scan failed or not.
LEMMA ScanMeter ==
    ASSUME MeterInv, Scan \/ FailedScan \/ UNCHANGED list
    PROVE  list' \in Int
BY DEF MeterInv, Scan, FailedScan, Unfinished

\* What a sample must find to go on with the series.
Continues(contents) ==
    /\ MeterTie
    /\ series # <<>> =>
        /\ Last.when <= now
        /\ Last.elapsed = Second(Last.when) - start_time
        /\ contents \in {now, Last.list, Unfinished}

\* What goes on after it.
Goes ==
    /\ MeterTie
    /\ series # <<>>
    /\ Last.when = now
    /\ Last.elapsed = Second(now) - start_time
    /\ Last.list = list

\* A sample is added.
LEMMA AddToSeries ==
    ASSUME MeterInv, SeriesInv, UNCHANGED now, NEW ok \in BOOLEAN,
           list' \in Int, Continues(list'), AddTo(ok), Read(ok)
    PROVE  /\ SeriesInv'
           /\ Len(series') = Len(series) + 1
           /\ \A k \in DOMAIN series : series'[k] = series[k]
           /\ DOMAIN series' = DOMAIN series \cup {Len(series')}
           /\ Goes'
<1> DEFINE first == IF series = <<>> THEN Second(now) ELSE start_time
           x     == Sample(ok, first)
           n     == Len(series)
<1>1. start_time' = first /\ series' = Append(series, x)
  BY DEF AddTo
<1>2. now \in Nat /\ prev \in Reading /\ prev.at <= now /\ Second(now) \in Nat
  BY SecondsOf DEF MeterInv
<1>3. first \in Int
  BY <1>2 DEF SeriesInv
<1>4. /\ x \in Samples /\ Share(x) /\ x.from = prev.at /\ x.when = now /\ x.read = ok
      /\ x.elapsed = Second(now) - first /\ x.measured = (ok /\ prev.has) /\ x.list = list'
  <2>1. /\ CpuPercent \in [used : Int, of : Int]
        /\ 0 <= CpuPercent.used
        /\ CpuPercent.used <= CpuPercent.of
    BY UsageIsShare
  <2> DEFINE c == IF ok THEN CpuPercent ELSE [used |-> 0, of |-> 0]
  <2>2. c \in [used : Int, of : Int] /\ 0 <= c.used /\ c.used <= c.of
    BY <2>1
  <2>3. prev.at \in Nat /\ prev.has \in BOOLEAN
    BY <1>2 DEF Reading
  <2>4. Second(now) - first \in Int
    BY <1>2, <1>3
  <2>5. (ok /\ prev.has) \in BOOLEAN
    OBVIOUS
  <2>6. x = [elapsed |-> Second(now) - first, when |-> now, list |-> list',
             read |-> ok, measured |-> ok /\ prev.has, from |-> prev.at, cpu |-> c]
    BY DEF Sample
  <2> HIDE DEF first, c, x
  <2>7. x \in Samples
    BY <1>2, <2>2, <2>3, <2>4, <2>5, <2>6 DEF Samples
  <2> QED BY <2>2, <2>6, <2>7 DEF Share
<1> HIDE DEF first, x
<1>5. series \in Seq(Samples) /\ n \in Nat
  BY DEF SeriesInv
<1>6. /\ series' \in Seq(Samples) /\ Len(series') = n + 1
      /\ series'[n + 1] = x
      /\ \A k \in 1 .. n : series'[k] = series[k]
  BY <1>1, <1>4, <1>5
<1>7. DOMAIN series = 1 .. n /\ DOMAIN series' = 1 .. n + 1
  BY <1>5, <1>6
<1>8. n # 0 => series # <<>>
  BY <1>5
<1>9. \A k \in DOMAIN series' : Share(series'[k])
  <2> SUFFICES ASSUME NEW k \in 1 .. n + 1 PROVE Share(series'[k])
    BY <1>7
  <2>1. CASE k = n + 1
    BY <1>4, <1>6, <2>1
  <2>2. CASE k \in 1 .. n
    <3>1. Share(series[k])
      BY <1>7, <2>2 DEF SeriesInv
    <3> QED BY <1>6, <2>2, <3>1
  <2> QED BY <1>5, <2>1, <2>2
<1>10. SamplesTile'
  <2> SUFFICES ASSUME NEW j \in 1 .. n + 1, NEW k \in 1 .. n + 1,
                      j < k, series'[j].read, series'[k].read,
                      \A i \in j + 1 .. k - 1 : ~series'[i].read
               PROVE  series'[k].measured /\ series'[k].from = series'[j].when
    BY <1>7 DEF SamplesTile
  <2>1. j \in 1 .. n /\ series'[j] = series[j]
    BY <1>5, <1>6
  <2>2. CASE k = n + 1
    <3>1. ReadLast(j)
      <4>1. ASSUME NEW i \in j + 1 .. n PROVE ~series[i].read
        <5>1. i \in j + 1 .. k - 1 /\ i \in 1 .. n
          BY <1>5, <2>1, <2>2
        <5> QED BY <1>6, <5>1
      <4> QED BY <2>1, <4>1 DEF ReadLast
    <3>2. prev.has /\ prev.at = series[j].when
      BY <1>7, <2>1, <3>1 DEF Continues, MeterTie
    <3>3. ok
      BY <1>4, <1>6, <2>2
    <3> QED BY <1>4, <1>6, <2>1, <2>2, <3>2, <3>3
  <2>3. CASE k \in 1 .. n
    <3>1. series'[k] = series[k]
      BY <1>6, <2>3
    <3>2. ASSUME NEW i \in j + 1 .. k - 1 PROVE ~series[i].read
      <4>1. i \in 1 .. n
        BY <1>5, <2>1, <2>3
      <4> QED BY <1>6, <4>1
    <3>3. series[k].measured /\ series[k].from = series[j].when
      BY <1>7, <2>1, <2>3, <3>1, <3>2 DEF SeriesInv, SamplesTile
    <3> QED BY <2>1, <3>1, <3>3
  <2> QED BY <1>5, <2>2, <2>3
<1>11. ElapsedFromZero'
  <2>1. series'[1].elapsed = 0
    <3>1. CASE n = 0
      <4>1. series = <<>>
        BY <1>5, <3>1
      <4>2. first = Second(now)
        BY <4>1 DEF first
      <4> QED BY <1>2, <1>4, <1>6, <3>1, <4>2
    <3>2. CASE n # 0
      <4>1. series[1].elapsed = 0
        BY <1>8, <3>2 DEF SeriesInv, ElapsedFromZero
      <4>2. 1 \in 1 .. n
        BY <1>5, <3>2
      <4> QED BY <1>6, <4>1, <4>2
    <3> QED BY <3>1, <3>2
  <2>2. ASSUME NEW k \in 1 .. n PROVE series'[k].elapsed <= series'[k + 1].elapsed
    <3>0. series # <<>>
      BY <1>5
    <3>1. CASE k = n
      <4>1. /\ Last.when <= now
            /\ Last.elapsed = Second(Last.when) - start_time
        BY <3>0 DEF Continues
      <4>2. first = start_time
        BY <3>0 DEF first
      <4>3. Last \in Samples
        BY <1>5, <3>1 DEF Last
      <4>4. Last.when \in Nat
        BY <4>3 DEF Samples
      <4>5. Second(Last.when) \in Nat /\ Second(Last.when) <= Second(now)
        BY <1>2, <4>1, <4>4, SecondsOf, SecondsGrow
      <4>6. series'[k].elapsed = Second(Last.when) - first
        BY <1>6, <3>1, <4>1, <4>2 DEF Last
      <4>7. series'[k + 1].elapsed = Second(now) - first
        BY <1>4, <1>6, <3>1
      <4> QED BY <1>2, <1>3, <4>5, <4>6, <4>7
    <3>2. CASE k \in 1 .. n - 1
      <4>1. series[k].elapsed <= series[k + 1].elapsed
        BY <3>0, <3>2 DEF SeriesInv, ElapsedFromZero
      <4>2. k + 1 \in 1 .. n
        BY <1>5, <3>2
      <4> QED BY <1>6, <4>1, <4>2
    <3> QED BY <1>5, <3>1, <3>2
  <2>3. Len(series') - 1 = n
    BY <1>5, <1>6
  <2> QED BY <2>1, <2>2, <2>3 DEF ElapsedFromZero
<1>12. ListsFollow'
  <2>1. ASSUME NEW k \in 1 .. n
        PROVE  series'[k + 1].list \in {series'[k + 1].when, series'[k].list, Unfinished}
    <3>1. CASE k = n
      <4>1. list' \in {now, Last.list, Unfinished}
        BY <1>5, <1>8, <3>1 DEF Continues
      <4>2. series'[k + 1] = x /\ series'[k] = Last
        BY <1>6, <3>1 DEF Last
      <4> QED BY <1>4, <4>1, <4>2
    <3>2. CASE k \in 1 .. n - 1
      <4>1. series[k + 1].list \in {series[k + 1].when, series[k].list, Unfinished}
        BY <3>2 DEF SeriesInv, ListsFollow
      <4>2. k + 1 \in 1 .. n
        BY <1>5, <3>2
      <4> QED BY <1>6, <4>1, <4>2
    <3> QED BY <1>5, <3>1, <3>2
  <2>2. Len(series') - 1 = n
    BY <1>5, <1>6
  <2> QED BY <2>1, <2>2 DEF ListsFollow
<1>13. Last' = x /\ series' # <<>>
  BY <1>5, <1>6 DEF Last
<1>14. MeterTie'
  <2> SUFFICES ASSUME NEW j \in 1 .. n + 1, ReadLast(j)'
               PROVE  prev'.has /\ prev'.at = series'[j].when
    BY <1>7 DEF MeterTie
  <2>1. CASE ok
    <3>1. prev' = [busy |-> busy, idle |-> idle, has |-> TRUE, at |-> now]
      BY <2>1 DEF Read
    <3>2. j = n + 1
      <4>1. ASSUME j # n + 1 PROVE FALSE
        <5>1. n + 1 \in j + 1 .. Len(series')
          BY <1>5, <1>6, <4>1
        <5>2. ~series'[n + 1].read
          BY <5>1 DEF ReadLast
        <5> QED BY <1>4, <1>6, <2>1, <5>2
      <4> QED BY <4>1
    <3> QED BY <1>4, <1>6, <3>1, <3>2
  <2>2. CASE ~ok
    <3>1. prev' = prev
      BY <2>2 DEF Read
    <3>2. j \in 1 .. n
      <4>1. ~series'[n + 1].read
        BY <1>4, <1>6, <2>2
      <4>2. series'[j].read
        BY DEF ReadLast
      <4> QED BY <1>5, <4>1, <4>2
    <3>3. ReadLast(j)
      <4>1. series[j].read
        BY <1>6, <3>2 DEF ReadLast
      <4>2. ASSUME NEW i \in j + 1 .. n PROVE ~series[i].read
        <5>1. i \in j + 1 .. Len(series') /\ i \in 1 .. n
          BY <1>5, <1>6, <3>2
        <5>2. ~series'[i].read
          BY <5>1 DEF ReadLast
        <5> QED BY <1>6, <5>1, <5>2
      <4> QED BY <4>1, <4>2 DEF ReadLast
    <3>4. prev.has /\ prev.at = series[j].when
      BY <1>7, <3>2, <3>3 DEF Continues, MeterTie
    <3> QED BY <1>6, <3>1, <3>2, <3>4
  <2> QED BY <2>1, <2>2
<1>15. SeriesInv'
  BY <1>1, <1>3, <1>6, <1>9, <1>10, <1>11, <1>12 DEF SeriesInv
<1>16. Goes'
  <2>1. Last'.when = now /\ Last'.elapsed = Second(now) - first /\ Last'.list = list'
    BY <1>4, <1>13
  <2>2. Second(now)' = Second(now)
    BY DEF Second
  <2> QED BY <1>1, <1>13, <1>14, <2>1, <2>2 DEF Goes
<1>17. DOMAIN series' = DOMAIN series \cup {Len(series')}
  BY <1>5, <1>6, <1>7
<1> QED BY <1>6, <1>7, <1>15, <1>16, <1>17


\* The series is left as it is.
LEMMA SeriesKept ==
    ASSUME SeriesInv, UNCHANGED <<series, start_time>>
    PROVE  SeriesInv'
BY DEF SeriesInv, Share, SamplesTile, ElapsedFromZero, ListsFollow

-----------------------------------------------------------------------------
(* The CLI.                                                                *)

\* It has no window.
LEMMA CliKeepsQt ==
    ASSUME CaptureInv, program = "cli", UNCHANGED qt
    PROVE  QtInv' /\ ~window' /\ ~capturing'
<1>1. ~window /\ ~capturing /\ QtInv
  BY DEF CaptureInv, CliInv
<1>2. UNCHANGED <<monitoring, interval, refresh, due, window, capturing, elapsed, limit,
                  saved, begun, updates, atStop>>
  BY DEF qt
<1>3. QtTypeOK'
  BY <1>1, <1>2 DEF QtInv, QtTypeOK
<1>4. TickInv'
  BY <1>1, <1>2 DEF QtInv, TickInv
<1>5. atStop = 0
  BY <1>1 DEF QtInv, FedInv
<1> QED BY <1>1, <1>2, <1>3, <1>4, <1>5 DEF QtInv, FedInv

\* A step that neither reads nor scans nor adds.
LEMMA CliQuiet ==
    ASSUME CaptureInv, program = "cli", UNCHANGED <<program, qt, capture>>,
           UNCHANGED machine \/ (Pass /\ at # "sample"),
           (at = "sample") = (at' = "sample"),
           CliInv'
    PROVE  CaptureInv'
<1>1. UNCHANGED <<prev, list, series, start_time>>
  BY DEF capture
<1>2. MeterInv' /\ now <= now'
  <2>1. CASE UNCHANGED machine
    <3>1. now' = now /\ list' \in Int
      BY <1>1, <2>1 DEF CaptureInv, MeterInv, machine
    <3>2. MeterInv'
      BY <1>1, <2>1, <3>1, ReadMeter DEF CaptureInv
    <3>3. now \in Nat
      BY DEF CaptureInv, MeterInv
    <3> QED BY <3>1, <3>2, <3>3
  <2>2. CASE Pass
    <3>1. MeterInv' /\ now' = now + 1
      BY <1>1, <2>2, PassMeter DEF CaptureInv
    <3> QED BY <3>1 DEF CaptureInv, MeterInv
  <2> QED BY <2>1, <2>2
<1>3. SeriesInv'
  BY <1>1, SeriesKept DEF CaptureInv
<1>4. TieInv'
  <2>1. MeterTie /\ ListTie
    BY DEF CaptureInv, TieInv
  <2>2. MeterTie'
    BY <1>1, <2>1 DEF MeterTie, ReadLast
  <2>3. at = "sample" => now' = now
    BY DEF machine
  <2>4. series # <<>> => Last \in Samples
    <3>1. series \in Seq(Samples)
      BY DEF CaptureInv, SeriesInv
    <3> QED BY <3>1 DEF Last
  <2>5. ListTie'
    <3> SUFFICES ASSUME series # <<>>
                 PROVE  /\ Last.when <= now'
                        /\ Last.elapsed = Second(Last.when) - start_time
                        /\ IF at = "sample" THEN list = now'
                                            ELSE list \in {Unfinished, Last.list}
      BY <1>1 DEF ListTie, Last, Second
    <3>1. Last.when \in Nat /\ now \in Nat /\ now' \in Nat
      BY <1>2, <2>4 DEF CaptureInv, MeterInv, Samples
    <3> QED BY <1>2, <2>1, <2>3, <3>1 DEF ListTie
  <2> QED BY <2>2, <2>5 DEF TieInv
<1>5. QtInv'
  BY CliKeepsQt
<1> QED BY <1>2, <1>3, <1>4, <1>5 DEF CaptureInv

LEMMA TestStep ==
    ASSUME CaptureInv, program = "cli", UNCHANGED <<program, qt>>, Test
    PROVE  CaptureInv'
<1>1. CliInv
  BY DEF CaptureInv
<1>2. /\ at = "test" /\ at' \in {"scan", "report"}
      /\ why' \in {why, "signal"} /\ slow' = FALSE
      /\ UNCHANGED <<running, duration, began, wake, reports, status, machine, capture>>
  BY DEF Test
<1>3. why' # "over"
  BY <1>1, <1>2 DEF CliInv
<1>4. ~window' /\ ~capturing'
  BY CliKeepsQt
<1>5. CliTypeOK'
  BY <1>1, <1>2 DEF CliInv, CliTypeOK
<1>6. CliInv'
  BY <1>1, <1>2, <1>3, <1>4, <1>5 DEF CliInv, machine
<1>7. at # "sample" /\ at' # "sample"
  BY <1>2
<1> QED BY <1>2, <1>6, <1>7, CliQuiet

LEMMA ScanStepStep ==
    ASSUME CaptureInv, program = "cli", UNCHANGED <<program, qt>>, ScanStep
    PROVE  CaptureInv'
<1>1. CliInv
  BY DEF CaptureInv
<1>2. /\ at = "scan"
      /\ UNCHANGED <<running, duration, began, wake, slow, reports, status, machine,
                     prev, series, start_time>>
  BY DEF ScanStep
<1>3. \/ at' = "sample" /\ Scan /\ UNCHANGED why
      \/ at' = "report" /\ why' = "failed" /\ (FailedScan \/ UNCHANGED list)
  BY DEF ScanStep
<1>4. why' # "over"
  BY <1>1, <1>2, <1>3 DEF CliInv
<1>5. ~window' /\ ~capturing' /\ QtInv'
  BY CliKeepsQt
<1>6. CliTypeOK'
  BY <1>1, <1>2, <1>3 DEF CliInv, CliTypeOK
<1>7. CliInv'
  BY <1>1, <1>2, <1>3, <1>4, <1>5, <1>6 DEF CliInv
<1>8. MeterInv' /\ UNCHANGED now
  <2>1. list' \in Int
    BY <1>3, ScanMeter DEF CaptureInv
  <2> QED BY <1>2, <2>1, ReadMeter DEF CaptureInv, machine
<1>9. SeriesInv'
  BY <1>2, SeriesKept DEF CaptureInv
<1>10. TieInv'
  <2>1. MeterTie /\ ListTie
    BY DEF CaptureInv, TieInv
  <2>2. MeterTie'
    BY <1>2, <2>1 DEF MeterTie, ReadLast
  <2>3. ListTie'
    <3> SUFFICES ASSUME series # <<>>
                 PROVE  /\ Last.when <= now
                        /\ Last.elapsed = Second(Last.when) - start_time
                        /\ IF at' = "sample" THEN list' = now
                                             ELSE list' \in {Unfinished, Last.list}
      BY <1>2, <1>8 DEF ListTie, Last, Second
    <3>1. /\ Last.when <= now
          /\ Last.elapsed = Second(Last.when) - start_time
          /\ list \in {Unfinished, Last.list}
      BY <1>2, <2>1 DEF ListTie
    <3> QED BY <1>3, <3>1 DEF Scan, FailedScan
  <2> QED BY <2>2, <2>3 DEF TieInv
<1> QED BY <1>5, <1>7, <1>8, <1>9, <1>10 DEF CaptureInv

\* The seconds a capture has taken, by the clock it reads and really.
LEMMA SecondsTaken ==
    ASSUME NEW s \in Nat, NEW t \in Nat
    PROVE  /\ t - s < PerSecond * (Second(t) - Second(s)) + PerSecond
           /\ PerSecond * (Second(t) - Second(s)) - PerSecond < t - s
<1>1. PerSecond \in Nat /\ PerSecond > 0
  BY CaptureSeriesAssumption
<1>2. /\ Second(s) \in Nat /\ Second(t) \in Nat
      /\ PerSecond * Second(s) <= s /\ s < PerSecond * Second(s) + PerSecond
      /\ PerSecond * Second(t) <= t /\ t < PerSecond * Second(t) + PerSecond
  BY SecondsOf
<1>3. PerSecond * (Second(t) - Second(s)) = PerSecond * Second(t) - PerSecond * Second(s)
  BY <1>1, <1>2
<1>4. PerSecond * Second(t) \in Nat /\ PerSecond * Second(s) \in Nat
  BY <1>1, <1>2
<1> QED BY <1>1, <1>2, <1>3, <1>4

LEMMA SleepTimeType == SleepTime \in Nat
<1>1. PerSecond \in Nat \ {0} /\ CliInterval \in Nat
  BY CaptureSeriesAssumption, CaptureModeAssumption
<1>2. CliInterval \div PerSecond \in Nat
  BY <1>1
<1>3. (IF CliInterval > PerSecond THEN CliInterval \div PerSecond ELSE 1) \in Nat
  BY <1>2
<1>4. \A n \in Nat : PerSecond * n \in Nat
  BY <1>1
<1> QED BY <1>3, <1>4 DEF SleepTime

LEMMA SampleStepStep ==
    ASSUME CaptureInv, program = "cli", UNCHANGED <<program, qt>>, SampleStep
    PROVE  CaptureInv'
<1>1. CliInv /\ MeterInv /\ SeriesInv /\ TieInv
  BY DEF CaptureInv
<1>2. /\ at = "sample" /\ UNCHANGED list
      /\ UNCHANGED <<running, duration, began, slow, reports, status, machine>>
  BY DEF SampleStep
<1>3. \/ Over /\ at' = "report" /\ why' = "over" /\ UNCHANGED wake
      \/ ~Over /\ at' = "sleep" /\ wake' = now + SleepTime /\ UNCHANGED why
  BY DEF SampleStep
<1>4. PICK ok \in BOOLEAN : AddTo(ok) /\ Read(ok)
  BY DEF SampleStep
<1>5. list' \in Int /\ UNCHANGED now
  BY <1>1, <1>2 DEF MeterInv, machine
<1>6. MeterInv'
  BY <1>1, <1>2, <1>4, <1>5, ReadMeter
<1>7. Continues(list')
  BY <1>1, <1>2 DEF TieInv, ListTie, Continues
<1>8. SeriesInv' /\ Goes'
  BY <1>1, <1>4, <1>5, <1>7, AddToSeries
<1>9. /\ TieInv' /\ at' # "sample" /\ why # "over"
      /\ series' # <<>> /\ Last'.when = now
  <2>1. at' # "sample" /\ why # "over"
    BY <1>1, <1>2, <1>3 DEF CliInv
  <2>2. /\ MeterTie' /\ series' # <<>> /\ Last'.when = now
        /\ Last'.elapsed = Second(now)' - start_time' /\ Last'.list = list'
    BY <1>5, <1>8 DEF Goes
  <2>3. Last'.when <= now' /\ Second(Last'.when) = Second(now) /\ Second(now)' = Second(now)
    BY <1>1, <1>5, <2>2 DEF MeterInv, Second
  <2>4. ListTie'
    BY <2>1, <2>2, <2>3 DEF ListTie, Second
  <2> QED BY <2>1, <2>2, <2>4 DEF TieInv
<1>10. ~window' /\ ~capturing' /\ QtInv'
  BY CliKeepsQt
<1>11. CliTypeOK'
  BY <1>1, <1>2, <1>3 DEF CliInv, CliTypeOK
<1>12. now \in Nat /\ began \in Nat /\ duration \in Nat /\ wake \in Nat
  BY <1>1 DEF MeterInv, CliInv
<1>13. {duration, began, wake}' \subseteq Nat
  <2>1. wake' \in Nat
    BY <1>3, <1>12, SleepTimeType
  <2> QED BY <1>2, <1>12, <2>1
<1>14. why' = "over" =>
         /\ at' \in {"report", "exited"}
         /\ series' # <<>>
         /\ PerSecond * (Second(Last'.when) - Second(began')) >= duration'
  <2> SUFFICES ASSUME why' = "over"
               PROVE  /\ at' = "report"
                      /\ PerSecond * (Second(now) - Second(began)) >= duration
    BY <1>2, <1>9
  <2>1. Over /\ at' = "report"
    BY <1>3, <1>9
  <2> QED BY <2>1 DEF Over
<1>15. duration > 0 /\ at' = "sleep" => wake' - began < duration + PerSecond + SleepTime
  <2> SUFFICES ASSUME duration > 0, at' = "sleep"
               PROVE  wake' - began < duration + PerSecond + SleepTime
    OBVIOUS
  <2>1. ~Over /\ wake' = now + SleepTime
    BY <1>3
  <2>2. ~(PerSecond * (Second(now) - Second(began)) >= duration)
    BY <2>1 DEF Over
  <2> DEFINE d == PerSecond * (Second(now) - Second(began))
  <2>3. now - began < d + PerSecond
    BY <1>12, SecondsTaken
  <2>4. d \in Int /\ PerSecond \in Nat
    BY <1>12, SecondsOf, CaptureSeriesAssumption
  <2>5. d < duration
    BY <1>12, <2>2, <2>4
  <2> HIDE DEF d
  <2> QED BY <1>12, <2>1, <2>3, <2>4, <2>5, SleepTimeType
<1>16. at' = "sleep" => now' <= wake'
  BY <1>3, <1>5, <1>12, SleepTimeType
<1>17. CliInv'
  <2>1. program' = "cli"
    OBVIOUS
  <2>2. UNCHANGED <<duration, began>>
    BY <1>2
  <2>3. (duration > 0 /\ at = "sleep" => wake - began < duration + PerSecond + SleepTime)'
    BY <1>15, <2>2 DEF SleepTime
  <2>4. (why = "over" =>
            /\ at \in {"report", "exited"}
            /\ series # <<>>
            /\ PerSecond * (Second(Last.when) - Second(began)) >= duration)'
    BY <1>14 DEF Second
  <2> QED BY <1>10, <1>11, <1>13, <1>16, <2>1, <2>3, <2>4 DEF CliInv
<1> QED BY <1>6, <1>8, <1>9, <1>10, <1>17 DEF CaptureInv

LEMMA Sooner ==
    ASSUME NEW s \in Int, NEW t \in Int, NEW u \in Int, NEW bound \in Int,
           t <= u, u - s < bound
    PROVE  t - s < bound
OBVIOUS

\* Wake, Signal, Report and the clock: nothing is sampled.
LEMMA CliOtherStep ==
    ASSUME CaptureInv, program = "cli", UNCHANGED <<program, qt>>,
           Wake \/ Signal \/ Report \/ CliClock
    PROVE  CaptureInv'
<1>1. CliInv /\ now \in Nat /\ wake \in Nat
  BY DEF CaptureInv, CliInv, MeterInv
<1>2. /\ UNCHANGED <<duration, began, why, capture>>
      /\ UNCHANGED machine \/ (Pass /\ at # "sample")
  BY DEF Wake, Signal, Report, CliClock
<1>3. at' = at \/ (at = "sleep" /\ at' = "test") \/ (at = "report" /\ at' = "exited")
  BY DEF Wake, Signal, Report, CliClock
<1>4. CliTypeOK'
  <2>1. CliTypeOK
    BY <1>1 DEF CliInv
  <2>2. CASE Wake
    BY <2>1, <2>2 DEF Wake, CliTypeOK
  <2>3. CASE Signal
    BY <2>1, <2>3 DEF Signal, CliTypeOK
  <2>4. CASE Report
    BY <2>1, <2>4 DEF Report, CliTypeOK
  <2>5. CASE CliClock
    BY <2>1, <2>5 DEF CliClock, CliTypeOK
  <2> QED BY <2>2, <2>3, <2>4, <2>5
<1>5. ~window' /\ ~capturing'
  BY CliKeepsQt
<1>6. UNCHANGED series
  BY <1>2 DEF capture
<1>7. /\ wake' \in Nat
      /\ at' = "sleep" => wake' <= wake /\ now' <= wake' /\ at = "sleep"
  <2>1. at = "sleep" => now <= wake
    BY <1>1 DEF CliInv
  <2>2. CASE Wake
    BY <1>1, <2>2 DEF Wake
  <2>3. CASE Signal
    <3>1. now' = now /\ at' = at /\ wake' = IF at = "sleep" THEN now ELSE wake
      BY <2>3 DEF Signal, machine
    <3> QED BY <1>1, <2>1, <3>1
  <2>4. CASE Report
    BY <1>1, <2>4 DEF Report
  <2>5. CASE CliClock
    <3>1. wake' = wake /\ at' = at /\ now' = now + 1 /\ (at = "sleep" => now < wake)
      BY <2>5 DEF CliClock, Pass
    <3> QED BY <1>1, <3>1
  <2> QED BY <2>2, <2>3, <2>4, <2>5
<1>8. CliInv'
  <2>1. (why = "over" =>
            /\ at \in {"report", "exited"}
            /\ series # <<>>
            /\ PerSecond * (Second(Last.when) - Second(began)) >= duration)'
    BY <1>1, <1>2, <1>3, <1>6 DEF CliInv, Second, Last
  <2>2. (duration > 0 /\ at = "sleep" => wake - began < duration + PerSecond + SleepTime)'
    <3> SUFFICES ASSUME duration > 0, at' = "sleep"
                 PROVE  wake' - began < duration + PerSecond + SleepTime
      BY <1>2 DEF SleepTime
    <3>1. wake - began < duration + PerSecond + SleepTime
      BY <1>1, <1>7 DEF CliInv
    <3>2. began \in Nat /\ duration \in Nat /\ PerSecond \in Nat
      BY <1>1, CaptureSeriesAssumption DEF CliInv
    <3>3. wake' <= wake /\ wake' \in Nat /\ wake \in Nat
      BY <1>1, <1>7
    <3>4. SleepTime \in Nat
      BY SleepTimeType
    <3>5. duration + PerSecond + SleepTime \in Int
      BY <3>2, <3>4
    <3> QED BY <3>1, <3>2, <3>3, <3>5, Sooner
  <2>3. ({duration, began, wake} \subseteq Nat)'
    BY <1>1, <1>2, <1>7 DEF CliInv
  <2>4. (at = "sleep" => now <= wake)'
    BY <1>7
  <2> QED BY <1>4, <1>5, <2>1, <2>2, <2>3, <2>4 DEF CliInv
<1>9. (at = "sample") = (at' = "sample")
  BY <1>3
<1> QED BY <1>2, <1>8, <1>9, CliQuiet

-----------------------------------------------------------------------------
(* The Qt program.                                                         *)

\* It runs no capture mode.
LEMMA QtKeepsCli ==
    ASSUME CaptureInv, program = "qt", UNCHANGED <<program, cli>>
    PROVE  CliInv' /\ at = "test" /\ at' = "test"
<1>1. CliInv /\ at = "test" /\ why = ""
  BY DEF CaptureInv, CliInv
<1>2. UNCHANGED <<at, running, duration, began, wake, slow, reports, status, why>>
  BY DEF cli
<1>3. CliTypeOK'
  BY <1>1, <1>2 DEF CliInv, CliTypeOK
<1> QED BY <1>1, <1>2, <1>3 DEF CliInv

\* processesUpdated, after a scan or with the list there is.
LEMMA UpdateStep ==
    ASSUME CaptureInv, program = "qt", UNCHANGED <<program, cli, machine>>,
           UNCHANGED <<window, capturing, begun, atStop>>,
           ProcessesUpdated,
           Scan \/ UNCHANGED list
    PROVE  MeterInv' /\ SeriesInv' /\ TieInv' /\ updates' \in Nat /\ FedInv'
<1>1. MeterInv /\ SeriesInv /\ TieInv /\ QtInv
  BY DEF CaptureInv
<1>2. PICK ok \in BOOLEAN : Feed(ok) /\ Read(ok)
  BY DEF ProcessesUpdated
<1>3. updates' = (IF begun = Off THEN 0 ELSE updates + 1) /\ updates \in Nat
  BY <1>1 DEF ProcessesUpdated, QtInv
<1>4. updates' \in Nat
  BY <1>3
<1>5. UNCHANGED now /\ now \in Nat
  BY <1>1 DEF machine, MeterInv
<1>6. list' \in Int
  BY <1>1, ScanMeter
<1>7. MeterInv'
  BY <1>1, <1>2, <1>6, ReadMeter
<1>8. at = "test" /\ at' = "test"
  BY QtKeepsCli
<1>9. program' = "qt"
  OBVIOUS
<1>10. CASE window /\ capturing
  <2>1. AddTo(ok)
    BY <1>2, <1>10 DEF Feed
  <2>2. Continues(list')
    BY <1>1, <1>5, <1>8, <1>10 DEF TieInv, ListTie, Continues, Scan
  <2>3. /\ SeriesInv' /\ Goes'
        /\ Len(series') = Len(series) + 1
        /\ \A k \in DOMAIN series : series'[k] = series[k]
        /\ DOMAIN series' = DOMAIN series \cup {Len(series')}
    BY <1>1, <1>2, <1>5, <1>6, <2>1, <2>2, AddToSeries
  <2>4. /\ MeterTie' /\ Last'.when = now /\ Last'.list = list'
        /\ Last'.elapsed = Second(now)' - start_time'
    BY <1>5, <2>3 DEF Goes
  <2>5. TieInv'
    <3>1. Last'.when <= now' /\ Second(Last'.when) = Second(now) /\ Second(now)' = Second(now)
      BY <1>5, <2>4 DEF Second
    <3>2. ListTie'
      BY <1>8, <2>4, <3>1 DEF ListTie, Second
    <3> QED BY <2>4, <3>2 DEF TieInv
  <2>6. FedInv'
    <3>1. /\ Len(series) = updates
          /\ \A k \in DOMAIN series : begun <= series[k].when
      BY <1>1, <1>10 DEF QtInv, FedInv
    <3>2. begun \in Nat /\ begun <= now
      BY <1>1, <1>10 DEF QtInv, TickInv
    <3>3. Len(series') = updates'
      BY <1>3, <2>3, <3>1, <3>2 DEF Off
    <3>4. begun <= series'[Len(series')].when
      BY <2>4, <3>2 DEF Last
    <3>5. \A k \in DOMAIN series' : begun <= series'[k].when
      BY <2>3, <3>1, <3>4
    <3> QED BY <1>10, <3>3, <3>5 DEF FedInv
  <2> QED BY <1>4, <1>7, <2>3, <2>5, <2>6
<1>11. CASE ~(window /\ capturing)
  <2>1. UNCHANGED <<series, start_time>>
    BY <1>2, <1>11 DEF Feed
  <2>2. SeriesInv'
    BY <1>1, <2>1, SeriesKept
  <2>3. ~capturing'
    BY <1>1, <1>11 DEF QtInv, TickInv
  <2>4. TieInv'
    BY <1>9, <2>3 DEF TieInv
  <2>5. FedInv'
    BY <1>1, <2>1, <2>3 DEF QtInv, FedInv
  <2> QED BY <1>4, <1>7, <2>2, <2>4, <2>5
<1> QED BY <1>10, <1>11

\* Nothing is read or sampled; a scan that fails may spoil the list.
LEMMA QtQuiet ==
    ASSUME CaptureInv, program = "qt", UNCHANGED <<program, cli>>,
           UNCHANGED machine \/ (Pass /\ UNCHANGED list),
           UNCHANGED <<prev, series, start_time>>,
           FailedScan \/ UNCHANGED list,
           capturing' => capturing
    PROVE  MeterInv' /\ SeriesInv' /\ TieInv'
<1>1. MeterInv' /\ now <= now'
  <2>1. CASE UNCHANGED machine
    <3>1. now' = now /\ now \in Nat /\ list' \in Int
      BY <2>1, ScanMeter DEF CaptureInv, MeterInv, machine
    <3>2. MeterInv'
      BY <2>1, <3>1, ReadMeter DEF CaptureInv
    <3> QED BY <3>1, <3>2
  <2>2. CASE Pass /\ UNCHANGED list
    <3>1. MeterInv' /\ now' = now + 1
      BY <2>2, PassMeter DEF CaptureInv
    <3> QED BY <3>1 DEF CaptureInv, MeterInv
  <2> QED BY <2>1, <2>2
<1>2. SeriesInv'
  BY SeriesKept DEF CaptureInv
<1>3. TieInv'
  <2> SUFFICES ASSUME capturing PROVE MeterTie' /\ ListTie'
    BY DEF TieInv
  <2>1. MeterTie /\ ListTie
    BY DEF CaptureInv, TieInv
  <2>2. MeterTie'
    BY <2>1 DEF MeterTie, ReadLast
  <2>3. at = "test" /\ at' = "test"
    BY QtKeepsCli
  <2>4. series # <<>> => Last \in Samples
    <3>1. series \in Seq(Samples)
      BY DEF CaptureInv, SeriesInv
    <3> QED BY <3>1 DEF Last
  <2>5. ListTie'
    <3> SUFFICES ASSUME series # <<>>
                 PROVE  /\ Last.when <= now'
                        /\ Last.elapsed = Second(Last.when) - start_time
                        /\ list' \in {Unfinished, Last.list}
      BY <2>3 DEF ListTie, Last, Second
    <3>1. Last.when \in Nat /\ now \in Nat /\ now' \in Nat
      BY <1>1, <2>4 DEF CaptureInv, MeterInv, Samples
    <3> QED BY <1>1, <2>1, <2>3, <3>1 DEF ListTie, FailedScan
  <2> QED BY <2>2, <2>5
<1> QED BY <1>1, <1>2, <1>3

LEMMA RefreshStep ==
    ASSUME CaptureInv, program = "qt", UNCHANGED <<program, cli, machine>>,
           UNCHANGED <<window, capturing, begun, atStop>>, Refresh
    PROVE  MeterInv' /\ SeriesInv' /\ TieInv' /\ updates' \in Nat /\ FedInv'
<1>1. CASE Scan /\ ProcessesUpdated
  BY <1>1, UpdateStep
<1>2. CASE /\ FailedScan \/ UNCHANGED list
           /\ UNCHANGED <<prev, series, start_time, updates>>
  <2>1. MeterInv' /\ SeriesInv' /\ TieInv'
    BY <1>2, QtQuiet
  <2>2. updates' \in Nat /\ FedInv'
    BY <1>2 DEF CaptureInv, QtInv, FedInv
  <2> QED BY <2>1, <2>2
<1> QED BY <1>1, <1>2 DEF Refresh

\* A timer that starts over fires after now.
LEMMA TimerLater ==
    ASSUME NEW t \in Int, NEW time \in About(t), now \in Nat
    PROVE  time \in Int /\ time > 0 /\ time > now /\ t - Early <= time
<1>1. Early \in Nat
  BY CaptureWindowAssumption
<1> QED BY <1>1 DEF About

LEMMA StartedLater ==
    ASSUME NEW length \in Int, NEW time \in Started(length), now \in Nat
    PROVE  time \in Int /\ time > 0 /\ time > now /\ now + length - Early <= time
<1>1. Early \in Nat
  BY CaptureWindowAssumption
<1>2. time \in now + 1 .. now + length /\ (now + length) - time <= Early
  BY DEF Started, About
<1> QED BY <1>1, <1>2

\* One that goes on keeps a period, but for its tolerance.
LEMMA AgainLater ==
    ASSUME NEW t \in Timers, due \in [Timers -> Int], NEW length \in Nat,
           NEW time \in Again(t, length), now \in Nat
    PROVE  /\ time \in Int /\ time > 0 /\ time > now
           /\ due[t] <= now => due[t] + length - Early <= time
<1> DEFINE next == IF due[t] + length > now THEN due[t] + length ELSE now + length
<1>1. due[t] \in Int /\ next \in Int /\ time \in About(next)
  BY DEF Again
<1>2. due[t] <= now => due[t] + length <= next
  BY <1>1
<1>3. time \in Int /\ time > 0 /\ time > now /\ next - Early <= time
  BY <1>1, TimerLater
<1>4. Early \in Nat
  BY CaptureWindowAssumption
<1> HIDE DEF next
<1> QED BY <1>1, <1>2, <1>3, <1>4

\* A second has been counted.
LEMMA NextSecond ==
    ASSUME NEW e \in Nat
    PROVE  /\ Tick1 \in Nat /\ Tick1 > 0 /\ Tick1 = PerSecond - Early
           /\ PerSecond \in Nat /\ Early \in Nat
           /\ Tick1 * e \in Nat
           /\ Tick1 * (e + 1) = Tick1 * e + Tick1
<1>1. Tick1 \in Nat /\ Tick1 > 0 /\ Tick1 = PerSecond - Early
      /\ PerSecond \in Nat /\ Early \in Nat
  BY CaptureSeriesAssumption, CaptureWindowAssumption DEF Tick1
<1>2. \A d \in Nat : d * e \in Nat /\ d * (e + 1) = d * e + d
  OBVIOUS
<1> QED BY <1>1, <1>2

\* The tick timer goes on while time does not, and nobody starts or stops.
TickKept ==
    /\ UNCHANGED <<now, window, capturing, elapsed, limit, begun>>
    /\ due'.tick = due.tick

LEMMA TickInvKept ==
    ASSUME TickInv, TickKept
    PROVE  TickInv'
BY DEF TickInv, TickKept

\* An interval is a time.
LEMMA IntervalsType ==
    ASSUME NEW i \in {StartInterval, StartRefresh} \cup Intervals
    PROVE  i \in Nat /\ i > 0
BY CaptureWindowAssumption

\* Times of the timers.
LEMMA TimerTypes ==
    ASSUME QtInv
    PROVE  /\ due \in [Timers -> Int]
           /\ DOMAIN due = Timers
           /\ \A t \in Timers : due[t] = Off \/ due[t] > 0
           /\ interval \in Nat /\ interval > 0 /\ refresh \in Nat /\ refresh > 0
<1>1. due \in [Timers -> Int] /\ DOMAIN due = Timers
  BY DEF QtInv
<1>2. interval \in {StartInterval, StartRefresh} \cup Intervals
  BY DEF QtInv, QtTypeOK
<1>3. refresh \in {StartInterval, StartRefresh} \cup Intervals
  BY DEF QtInv, QtTypeOK
<1>4. \A t \in Timers : due[t] = Off \/ due[t] > 0
  BY <1>1 DEF QtInv, QtTypeOK
<1> QED BY <1>1, <1>2, <1>3, <1>4, IntervalsType

\* What is left of QtInv for a step to keep.
LEMMA QtParts ==
    ASSUME QtInv,
           due' \in [Timers -> Int],
           \A t \in Timers : due'[t] = Off \/ due'[t] > 0,
           {monitoring', window', capturing', saved'} \subseteq BOOLEAN,
           {interval', refresh'} \subseteq {StartInterval, StartRefresh} \cup Intervals,
           elapsed' \in Nat,
           limit' \in Limits \cup {0},
           updates' \in Nat, atStop' \in Nat, begun' \in Int,
           TickInv', FedInv'
    PROVE  QtInv'
<1>1. DOMAIN due' = Timers
  OBVIOUS
<1>2. QtTypeOK'
  BY <1>1 DEF QtTypeOK
<1> QED BY <1>2 DEF QtInv

\* Two of the timers are set or stopped.
LEMMA SetBoth ==
    ASSUME QtInv, NEW c \in Int, NEW r \in Int, c = Off \/ c > 0, r = Off \/ r > 0,
           due' = [due EXCEPT !.controller = c, !.refresh = r]
    PROVE  /\ due' \in [Timers -> Int]
           /\ \A u \in Timers : due'[u] = Off \/ due'[u] > 0
           /\ due'.tick = due.tick
<1> DEFINE half == [due EXCEPT !["controller"] = c]
<1>1. due' = [half EXCEPT !["refresh"] = r]
  OBVIOUS
<1>2. "controller" \in Timers /\ "refresh" \in Timers /\ "tick" \in Timers
  BY DEF Timers
<1>3. /\ half \in [Timers -> Int]
      /\ \A u \in Timers : half[u] = Off \/ half[u] > 0
      /\ half["tick"] = due["tick"]
  BY <1>2, TimerTypes
<1> HIDE DEF half
<1>4. due' \in [Timers -> Int] /\ due'["tick"] = half["tick"]
  BY <1>1, <1>2, <1>3
<1>5. \A u \in Timers : due'[u] = Off \/ due'[u] > 0
  BY <1>1, <1>2, <1>3
<1> QED BY <1>3, <1>4, <1>5

\* Timer t is set to a time or stopped.
LEMMA SetTimer ==
    ASSUME QtInv, NEW t \in Timers, NEW v \in Int, v = Off \/ v > 0,
           due' = [due EXCEPT ![t] = v]
    PROVE  /\ due' \in [Timers -> Int]
           /\ \A u \in Timers : due'[u] = Off \/ due'[u] > 0
           /\ due'[t] = v
           /\ \A u \in Timers \ {t} : due'[u] = due[u]
<1>1. due \in [Timers -> Int] /\ \A u \in Timers : due[u] = Off \/ due[u] > 0
  BY TimerTypes
<1> QED BY <1>1

\* Controller, window and button refresh; the controller's timers fire again later.
LEMMA TimeoutStep ==
    ASSUME CaptureInv, program = "qt", UNCHANGED <<program, cli>>,
           ControllerTimeout \/ RefreshTimeout \/ RefreshNow
    PROVE  CaptureInv'
<1>1. QtInv /\ MeterInv /\ TickInv /\ now \in Nat
  BY DEF CaptureInv, QtInv, MeterInv
<1>2. /\ Refresh
      /\ UNCHANGED <<machine, monitoring, interval, refresh, window, capturing, elapsed,
                     limit, saved, begun, atStop>>
  BY DEF ControllerTimeout, RefreshTimeout, RefreshNow
<1>3. MeterInv' /\ SeriesInv' /\ TieInv' /\ updates' \in Nat /\ FedInv'
  BY <1>2, RefreshStep
<1>4. CliInv'
  BY QtKeepsCli
<1>5. /\ due' \in [Timers -> Int]
      /\ \A u \in Timers : due'[u] = Off \/ due'[u] > 0
      /\ due'.tick = due.tick
  <2>1. CASE ControllerTimeout
    <3>1. PICK time \in Again("controller", interval) :
             due' = [due EXCEPT !["controller"] = time]
      BY <2>1 DEF ControllerTimeout
    <3>2. "controller" \in Timers /\ "tick" \in Timers \ {"controller"}
      BY DEF Timers
    <3>3. time \in Int /\ time > 0
      BY <1>1, <3>1, <3>2, TimerTypes, AgainLater
    <3> QED BY <1>1, <3>1, <3>2, <3>3, SetTimer
  <2>2. CASE RefreshTimeout
    <3>1. PICK time \in Again("refresh", refresh) :
             due' = [due EXCEPT !["refresh"] = time]
      BY <2>2 DEF RefreshTimeout
    <3>2. "refresh" \in Timers /\ "tick" \in Timers \ {"refresh"}
      BY DEF Timers
    <3>3. time \in Int /\ time > 0
      BY <1>1, <3>1, <3>2, TimerTypes, AgainLater
    <3> QED BY <1>1, <3>1, <3>2, <3>3, SetTimer
  <2>3. CASE RefreshNow
    <3>1. UNCHANGED due
      BY <2>3 DEF RefreshNow
    <3> QED BY <1>1, <3>1, TimerTypes
  <2> QED BY <2>1, <2>2, <2>3
<1>6. TickInv'
  BY <1>1, <1>2, <1>5, TickInvKept DEF TickKept, machine
<1>7. QtInv'
  BY <1>1, <1>2, <1>3, <1>5, <1>6, QtParts DEF QtInv, QtTypeOK
<1> QED BY <1>3, <1>4, <1>7 DEF CaptureInv

\* A mere sort.
LEMMA ResortStep ==
    ASSUME CaptureInv, program = "qt", UNCHANGED <<program, cli>>, Resort
    PROVE  CaptureInv'
<1>1. QtInv /\ TickInv
  BY DEF CaptureInv, QtInv
<1>2. /\ ProcessesUpdated
      /\ UNCHANGED <<machine, list, monitoring, interval, refresh, due, window, capturing,
                     elapsed, limit, saved, begun, atStop>>
  BY DEF Resort
<1>3. MeterInv' /\ SeriesInv' /\ TieInv' /\ updates' \in Nat /\ FedInv'
  BY <1>2, UpdateStep
<1>4. CliInv'
  BY QtKeepsCli
<1>5. TickInv'
  BY <1>1, <1>2, TickInvKept DEF TickKept, machine
<1>6. QtInv'
  BY <1>1, <1>2, <1>3, <1>5, TimerTypes, QtParts DEF QtInv, QtTypeOK
<1> QED BY <1>3, <1>4, <1>6 DEF CaptureInv

\* Pause and Resume: both refresh timers stop or start over.
LEMMA ToggleStep ==
    ASSUME CaptureInv, program = "qt", UNCHANGED <<program, cli>>, Toggle
    PROVE  CaptureInv'
<1>1. QtInv /\ MeterInv /\ TickInv /\ now \in Nat
  BY DEF CaptureInv, QtInv, MeterInv
<1>2. /\ monitoring' = ~monitoring
      /\ UNCHANGED <<machine, interval, refresh, window, capturing, elapsed, limit, saved,
                     begun, atStop>>
  BY DEF Toggle
<1>3. \/ /\ due' = [due EXCEPT !.controller = Off, !.refresh = Off]
         /\ UNCHANGED <<capture, updates>>
      \/ /\ \E c \in Started(interval), r \in Started(refresh) :
               due' = [due EXCEPT !.controller = c, !.refresh = r]
         /\ Refresh
  BY DEF Toggle
<1>4. MeterInv' /\ SeriesInv' /\ TieInv' /\ updates' \in Nat /\ FedInv'
  <2>1. CASE UNCHANGED <<capture, updates>>
    <3>1. UNCHANGED <<prev, list, series, start_time>>
      BY <2>1 DEF capture
    <3>2. MeterInv' /\ SeriesInv' /\ TieInv'
      BY <1>2, <3>1, QtQuiet
    <3> QED BY <1>1, <1>2, <2>1, <3>1, <3>2 DEF QtInv, FedInv
  <2>2. CASE Refresh
    BY <1>2, <2>2, RefreshStep
  <2> QED BY <1>3, <2>1, <2>2
<1>5. CliInv'
  BY QtKeepsCli
<1>6. PICK c \in Int, r \in Int :
         /\ c = Off \/ c > 0
         /\ r = Off \/ r > 0
         /\ due' = [due EXCEPT !.controller = c, !.refresh = r]
  <2>1. \A c \in Started(interval) : c \in Int /\ c > 0
    BY <1>1, TimerTypes, StartedLater
  <2>2. \A r \in Started(refresh) : r \in Int /\ r > 0
    BY <1>1, TimerTypes, StartedLater
  <2>3. Off \in Int
    BY DEF Off
  <2> QED BY <1>3, <2>1, <2>2, <2>3
<1>7. /\ due' \in [Timers -> Int]
      /\ \A u \in Timers : due'[u] = Off \/ due'[u] > 0
      /\ due'.tick = due.tick
  BY <1>1, <1>6, SetBoth
<1>8. TickInv'
  BY <1>1, <1>2, <1>7, TickInvKept DEF TickKept, machine
<1>9. {monitoring', window', capturing', saved'} \subseteq BOOLEAN
  BY <1>1, <1>2 DEF QtInv, QtTypeOK
<1>10. QtInv'
  BY <1>1, <1>2, <1>4, <1>7, <1>8, <1>9, QtParts DEF QtInv, QtTypeOK
<1> QED BY <1>4, <1>5, <1>10 DEF CaptureInv

\* A new interval: the refresh timers that run start over.
LEMMA SetIntervalStep ==
    ASSUME CaptureInv, program = "qt", UNCHANGED <<program, cli>>, SetInterval
    PROVE  CaptureInv'
<1>1. QtInv /\ MeterInv /\ TickInv /\ now \in Nat
  BY DEF CaptureInv, QtInv, MeterInv
<1>2. /\ UNCHANGED <<machine, capture, monitoring>>
      /\ UNCHANGED <<window, capturing, elapsed, limit, saved, begun, updates, atStop>>
  BY DEF SetInterval, view, session
<1>3. PICK i \in Intervals :
         /\ interval' = i
         /\ refresh' = i
         /\ \E c \in Started(i), r \in Started(i) :
               due' = [due EXCEPT !.controller = IF @ = Off THEN Off ELSE c,
                                  !.refresh = IF @ = Off THEN Off ELSE r]
  BY DEF SetInterval
<1>4. PICK c \in Started(i), r \in Started(i) :
         due' = [due EXCEPT !.controller = IF due.controller = Off THEN Off ELSE c,
                            !.refresh = IF due.refresh = Off THEN Off ELSE r]
  BY <1>3
<1>5. MeterInv' /\ SeriesInv' /\ TieInv'
  BY <1>2, QtQuiet DEF capture
<1>6. CliInv'
  BY QtKeepsCli
<1>7. /\ due' \in [Timers -> Int]
      /\ \A u \in Timers : due'[u] = Off \/ due'[u] > 0
      /\ due'.tick = due.tick
  <2>1. c \in Int /\ c > 0 /\ r \in Int /\ r > 0
    BY <1>1, IntervalsType, StartedLater
  <2> DEFINE cc == IF due.controller = Off THEN Off ELSE c
             rr == IF due.refresh = Off THEN Off ELSE r
  <2>2. cc \in Int /\ rr \in Int /\ (cc = Off \/ cc > 0) /\ (rr = Off \/ rr > 0)
    BY <2>1 DEF Off
  <2>3. due' = [due EXCEPT !.controller = cc, !.refresh = rr]
    BY <1>4
  <2> HIDE DEF cc, rr
  <2> QED BY <1>1, <2>2, <2>3, SetBoth
<1>8. TickInv'
  BY <1>1, <1>2, <1>7, TickInvKept DEF TickKept, machine
<1>9. updates' \in Nat /\ FedInv'
  BY <1>1, <1>2 DEF QtInv, FedInv, capture
<1>10. {interval', refresh'} \subseteq {StartInterval, StartRefresh} \cup Intervals
  BY <1>3
<1>11. QtInv'
  BY <1>1, <1>2, <1>7, <1>8, <1>9, <1>10, QtParts DEF QtInv, QtTypeOK
<1> QED BY <1>5, <1>6, <1>11 DEF CaptureInv

\* Time passes; a capture has taken longer, and the tick is due when it was.
LEMMA QtClockStep ==
    ASSUME CaptureInv, program = "qt", UNCHANGED <<program, cli>>, QtClock
    PROVE  CaptureInv'
<1>1. QtInv /\ MeterInv /\ TickInv /\ now \in Nat
  BY DEF CaptureInv, QtInv, MeterInv
<1>2. /\ Pass
      /\ UNCHANGED <<capture, monitoring, interval, refresh, due>>
      /\ UNCHANGED <<window, capturing, elapsed, limit, saved, begun, updates, atStop>>
  BY DEF QtClock, view, session
<1>3. MeterInv' /\ SeriesInv' /\ TieInv'
  BY <1>2, QtQuiet DEF capture
<1>4. CliInv'
  BY QtKeepsCli
<1>5. TickInv'
  <2>1. now' = now + 1
    BY <1>2 DEF Pass
  <2>2. elapsed \in Nat
    BY <1>1 DEF QtInv, QtTypeOK
  <2>3. Tick1 * elapsed \in Int
    BY <2>2, NextSecond
  <2>4. begun \in Nat /\ Tick1 * elapsed <= now - begun => Tick1 * elapsed <= now' - begun
    BY <1>1, <2>1, <2>3
  <2>5. begun \in Nat /\ begun <= now => begun <= now'
    BY <1>1, <2>1
  <2> QED BY <1>1, <1>2, <2>4, <2>5 DEF TickInv
<1>6. updates' \in Nat /\ FedInv'
  BY <1>1, <1>2 DEF QtInv, FedInv, capture
<1>7. QtInv'
  BY <1>1, <1>2, <1>5, <1>6, TimerTypes, QtParts DEF QtInv, QtTypeOK
<1> QED BY <1>3, <1>4, <1>7 DEF CaptureInv

-----------------------------------------------------------------------------
(* The capture window.                                                     *)

\* The series is emptied.
LEMMA Cleared ==
    ASSUME CaptureInv, program = "qt", UNCHANGED <<program, cli, machine, prev, list>>,
           ClearSeries
    PROVE  /\ MeterInv' /\ SeriesInv' /\ TieInv'
           /\ series' = <<>> /\ Len(series') = 0 /\ DOMAIN series' = {}
<1>1. series' = <<>> /\ UNCHANGED start_time
  BY DEF ClearSeries
<1>2. MeterInv'
  BY ScanMeter, ReadMeter DEF CaptureInv
<1>3. Len(series') = 0 /\ DOMAIN series' = {} /\ series' \in Seq(Samples)
  BY <1>1
<1>4. SeriesInv'
  <2>1. start_time' \in Int
    BY <1>1 DEF CaptureInv, SeriesInv
  <2> QED BY <1>1, <1>3, <2>1 DEF SeriesInv, SamplesTile, ElapsedFromZero, ListsFollow
<1>5. TieInv'
  BY <1>1, <1>3 DEF TieInv, MeterTie, ListTie
<1> QED BY <1>1, <1>2, <1>3, <1>4, <1>5

LEMMA OpenWindowStep ==
    ASSUME CaptureInv, program = "qt", UNCHANGED <<program, cli>>, OpenWindow
    PROVE  CaptureInv'
<1>1. QtInv /\ TickInv /\ FedInv
  BY DEF CaptureInv, QtInv
<1>2. /\ ~window /\ window' = TRUE /\ capturing' = FALSE /\ elapsed' = 0 /\ limit' = 0
      /\ ClearSeries
      /\ UNCHANGED <<machine, prev, list, monitoring, interval, refresh, due, saved,
                     begun, updates, atStop>>
  BY DEF OpenWindow, session
<1>3. /\ MeterInv' /\ SeriesInv' /\ TieInv'
      /\ Len(series') = 0 /\ DOMAIN series' = {}
  BY <1>2, Cleared
<1>4. CliInv'
  BY QtKeepsCli
<1>5. TickInv'
  <2>1. ~capturing /\ due.tick = Off
    BY <1>1, <1>2 DEF TickInv
  <2> QED BY <1>2, <2>1 DEF TickInv
<1>6. FedInv'
  BY <1>1, <1>2, <1>3 DEF FedInv
<1>7. {monitoring', window', capturing', saved'} \subseteq BOOLEAN
  BY <1>1, <1>2 DEF QtInv, QtTypeOK
<1>8. QtInv'
  BY <1>1, <1>2, <1>5, <1>6, <1>7, TimerTypes, QtParts DEF QtInv, QtTypeOK
<1> QED BY <1>3, <1>4, <1>8 DEF CaptureInv

\* The capture ends, by Stop or with the window.
LEMMA StoppedTick ==
    ASSUME QtInv, capturing' = FALSE, due' = [due EXCEPT !["tick"] = Off],
           limit' > 0 => elapsed' <= limit'
    PROVE  /\ TickInv'
           /\ due' \in [Timers -> Int]
           /\ \A u \in Timers : due'[u] = Off \/ due'[u] > 0
<1>1. "tick" \in Timers /\ Off \in Int
  BY DEF Timers, Off
<1>2. /\ due' \in [Timers -> Int]
      /\ \A u \in Timers : due'[u] = Off \/ due'[u] > 0
      /\ due'["tick"] = Off
  BY <1>1, SetTimer
<1> QED BY <1>2 DEF TickInv

LEMMA CloseWindowStep ==
    ASSUME CaptureInv, program = "qt", UNCHANGED <<program, cli>>, CloseWindow
    PROVE  CaptureInv'
<1>1. QtInv
  BY DEF CaptureInv
<1>2. /\ window' = FALSE /\ capturing' = FALSE /\ elapsed' = 0 /\ limit' = 0
      /\ saved' = FALSE /\ due' = [due EXCEPT !["tick"] = Off]
      /\ begun' = Off /\ updates' = 0 /\ atStop' = 0 /\ ClearSeries
      /\ UNCHANGED <<machine, prev, list, monitoring, interval, refresh>>
  BY DEF CloseWindow
<1>3. MeterInv' /\ SeriesInv' /\ TieInv'
  BY <1>2, Cleared
<1>4. CliInv'
  BY QtKeepsCli
<1>5. /\ TickInv'
      /\ due' \in [Timers -> Int]
      /\ \A u \in Timers : due'[u] = Off \/ due'[u] > 0
  <2>1. ~(limit' > 0)
    BY <1>2
  <2> QED BY <1>1, <1>2, <2>1, StoppedTick
<1>6. FedInv'
  BY <1>2 DEF FedInv
<1>7. {monitoring', window', capturing', saved'} \subseteq BOOLEAN
  BY <1>1, <1>2 DEF QtInv, QtTypeOK
<1>8. begun' \in Int
  BY <1>2 DEF Off
<1>9. QtInv'
  BY <1>1, <1>2, <1>5, <1>6, <1>7, <1>8, QtParts DEF QtInv, QtTypeOK
<1> QED BY <1>3, <1>4, <1>9 DEF CaptureInv

\* What a session held when it stopped stays.
LEMMA StoppedFed ==
    ASSUME FedInv, capturing => window, Stop, UNCHANGED <<window, series, begun>>, capturing
    PROVE  FedInv'
BY DEF FedInv, Stop

LEMMA StopCaptureStep ==
    ASSUME CaptureInv, program = "qt", UNCHANGED <<program, cli>>, StopCapture
    PROVE  CaptureInv'
<1>1. QtInv /\ TickInv /\ FedInv
  BY DEF CaptureInv, QtInv
<1>2. /\ capturing /\ window /\ Stop
      /\ UNCHANGED <<machine, capture, monitoring, interval, refresh, window, elapsed,
                     limit, saved, begun, updates>>
  BY DEF StopCapture
<1>3. capturing' = FALSE /\ due' = [due EXCEPT !["tick"] = Off] /\ atStop' = updates
  BY <1>2 DEF Stop
<1>4. /\ TickInv'
      /\ due' \in [Timers -> Int]
      /\ \A u \in Timers : due'[u] = Off \/ due'[u] > 0
  BY <1>1, <1>2, <1>3, StoppedTick DEF TickInv
<1>5. MeterInv' /\ SeriesInv' /\ TieInv'
  BY <1>2, <1>3, QtQuiet DEF capture
<1>6. CliInv'
  BY QtKeepsCli
<1>7. FedInv' /\ atStop' \in Nat
  BY <1>1, <1>2, <1>3, StoppedFed DEF QtInv, capture
<1>8. {monitoring', window', capturing', saved'} \subseteq BOOLEAN
  BY <1>1, <1>2, <1>3 DEF QtInv, QtTypeOK
<1>9. QtInv'
  BY <1>1, <1>2, <1>4, <1>7, <1>8, QtParts DEF QtInv, QtTypeOK
<1> QED BY <1>5, <1>6, <1>9 DEF CaptureInv

LEMMA StartCaptureStep ==
    ASSUME CaptureInv, program = "qt", UNCHANGED <<program, cli>>, StartCapture
    PROVE  CaptureInv'
<1>1. QtInv /\ now \in Nat
  BY DEF CaptureInv, MeterInv
<1>2. /\ window /\ ~capturing /\ capturing' = TRUE /\ elapsed' = 0
      /\ limit' \in Limits /\ saved' = FALSE
      /\ begun' = now /\ updates' = 0 /\ atStop' = 0 /\ ClearSeries
      /\ UNCHANGED <<machine, prev, list, monitoring, interval, refresh, window>>
  BY DEF StartCapture
<1>3. PICK time \in Started(PerSecond) : due' = [due EXCEPT !["tick"] = time]
  BY DEF StartCapture
<1>4. /\ MeterInv' /\ SeriesInv' /\ TieInv'
      /\ Len(series') = 0 /\ DOMAIN series' = {}
  BY <1>2, Cleared
<1>5. CliInv'
  BY QtKeepsCli
<1>6. /\ Tick1 \in Nat /\ Tick1 = PerSecond - Early /\ PerSecond \in Nat /\ Early \in Nat
      /\ Tick1 * 0 = 0 /\ Tick1 * (0 + 1) = Tick1
  BY NextSecond
<1>7. time \in Int /\ time > 0 /\ now + PerSecond - Early <= time
  BY <1>1, <1>6, StartedLater
<1>8. /\ due' \in [Timers -> Int]
      /\ \A u \in Timers : due'[u] = Off \/ due'[u] > 0
      /\ due'["tick"] = time
  <2>1. "tick" \in Timers
    BY DEF Timers
  <2> QED BY <1>1, <1>3, <1>7, <2>1, SetTimer
<1>9. limit' \in Nat
  BY <1>2, CaptureWindowAssumption
<1>10. TickInv'
  <2>1. due'["tick"] # Off
    BY <1>7, <1>8 DEF Off
  <2>2. UNCHANGED now /\ Tick1' = Tick1
    BY <1>2 DEF machine, Tick1
  <2>3. begun' + Tick1 * (elapsed' + 1) <= due'["tick"]
    BY <1>1, <1>2, <1>6, <1>7, <1>8
  <2>4. Tick1 * elapsed' <= now' - begun' /\ begun' \in Nat /\ begun' <= now'
    BY <1>1, <1>2, <1>6, <2>2
  <2> QED BY <1>2, <1>9, <2>1, <2>2, <2>3, <2>4 DEF TickInv
<1>11. FedInv'
  BY <1>2, <1>4 DEF FedInv
<1>12. {monitoring', window', capturing', saved'} \subseteq BOOLEAN
  BY <1>1, <1>2 DEF QtInv, QtTypeOK
<1>13. QtInv'
  BY <1>1, <1>2, <1>8, <1>10, <1>11, <1>12, QtParts DEF QtInv, QtTypeOK
<1> QED BY <1>4, <1>5, <1>13 DEF CaptureInv

\* tick: another second is counted, and the limit may be reached.
LEMMA TickStep ==
    ASSUME CaptureInv, program = "qt", UNCHANGED <<program, cli>>, Tick
    PROVE  CaptureInv'
<1>1. QtInv /\ TickInv /\ FedInv /\ now \in Nat /\ elapsed \in Nat
  BY DEF CaptureInv, QtInv, MeterInv, QtTypeOK
<1>2. /\ due.tick # Off /\ due.tick <= now /\ elapsed' = elapsed + 1
      /\ UNCHANGED <<machine, capture, monitoring, interval, refresh, window, limit, saved,
                     begun, updates>>
  BY DEF Tick
<1>3. capturing /\ window /\ begun \in Nat /\ begun <= now
  BY <1>1, <1>2 DEF TickInv
<1>4. limit \in Nat
  BY <1>1, CaptureWindowAssumption DEF QtInv, QtTypeOK
<1>5. limit > 0 => elapsed < limit
  BY <1>1, <1>3 DEF TickInv
<1>6. elapsed' \in Nat /\ (limit > 0 => elapsed' <= limit)
  BY <1>1, <1>2, <1>4, <1>5
<1>7. UNCHANGED now
  BY <1>2 DEF machine
<1>8. /\ TickInv' /\ FedInv' /\ atStop' \in Nat
      /\ due' \in [Timers -> Int]
      /\ \A u \in Timers : due'[u] = Off \/ due'[u] > 0
      /\ capturing' \in BOOLEAN
  <2>1. CASE limit > 0 /\ elapsed + 1 >= limit
    <3>1. Stop
      BY <2>1 DEF Tick
    <3>2. capturing' = FALSE /\ due' = [due EXCEPT !["tick"] = Off] /\ atStop' = updates
      BY <3>1 DEF Stop
    <3>3. FedInv' /\ atStop' \in Nat
      BY <1>1, <1>2, <1>3, <3>1, <3>2, StoppedFed DEF QtInv, capture
    <3> QED BY <1>1, <1>2, <1>6, <3>2, <3>3, StoppedTick
  <2>2. CASE ~(limit > 0 /\ elapsed + 1 >= limit)
    <3>1. UNCHANGED <<capturing, atStop>>
      BY <2>2 DEF Tick
    <3>2. PICK time \in Again("tick", PerSecond) : due' = [due EXCEPT !["tick"] = time]
      BY <2>2 DEF Tick
    <3>3. /\ Tick1 \in Nat /\ Tick1 = PerSecond - Early
          /\ PerSecond \in Nat /\ Early \in Nat
          /\ Tick1 * (elapsed + 1) \in Nat
          /\ Tick1 * ((elapsed + 1) + 1) = Tick1 * (elapsed + 1) + Tick1
      BY <1>1, NextSecond
    <3>4. "tick" \in Timers /\ due["tick"] \in Int /\ due \in [Timers -> Int]
      BY <1>1, TimerTypes DEF Timers
    <3>5. time \in Int /\ time > 0 /\ due["tick"] + PerSecond - Early <= time
      BY <1>1, <1>2, <3>3, <3>4, AgainLater
    <3>6. /\ due' \in [Timers -> Int]
          /\ \A u \in Timers : due'[u] = Off \/ due'[u] > 0
          /\ due'["tick"] = time
      BY <1>1, <3>2, <3>4, <3>5, SetTimer
    <3>7. begun + Tick1 * (elapsed + 1) <= due["tick"]
      BY <1>1, <1>3 DEF TickInv
    <3>8. Tick1 * elapsed' <= now' - begun'
      BY <1>1, <1>2, <1>3, <1>7, <3>3, <3>4, <3>7
    <3>9. begun' + Tick1 * (elapsed' + 1) <= due'["tick"]
      BY <1>2, <1>3, <3>3, <3>4, <3>5, <3>6, <3>7
    <3>10. limit > 0 => elapsed' < limit
      BY <1>1, <1>2, <1>4, <2>2
    <3>11. due'["tick"] # Off
      BY <3>5, <3>6 DEF Off
    <3>12. TickInv'
      <4>1. Tick1' = Tick1
        BY DEF Tick1
      <4>2. begun' \in Nat /\ begun' <= now' /\ window' /\ capturing'
        BY <1>2, <1>3, <1>7, <3>1
      <4> QED BY <1>2, <1>6, <3>8, <3>9, <3>10, <3>11, <4>1, <4>2 DEF TickInv
    <3>13. FedInv' /\ atStop' \in Nat
      BY <1>1, <1>2, <3>1 DEF FedInv, QtInv, capture
    <3> QED BY <1>3, <3>1, <3>6, <3>12, <3>13
  <2> QED BY <2>1, <2>2
<1>9. MeterInv' /\ SeriesInv' /\ TieInv'
  BY <1>2, <1>3, QtQuiet DEF capture
<1>10. CliInv'
  BY QtKeepsCli
<1>11. {monitoring', window', capturing', saved'} \subseteq BOOLEAN
  BY <1>1, <1>2, <1>8 DEF QtInv, QtTypeOK
<1>12. QtInv'
  BY <1>1, <1>2, <1>6, <1>8, <1>11, QtParts DEF QtInv, QtTypeOK
<1> QED BY <1>9, <1>10, <1>12 DEF CaptureInv

LEMMA SaveReportStep ==
    ASSUME CaptureInv, program = "qt", UNCHANGED <<program, cli>>, SaveReport
    PROVE  CaptureInv'
<1>1. QtInv /\ TickInv
  BY DEF CaptureInv, QtInv
<1>2. /\ saved' \in BOOLEAN
      /\ UNCHANGED <<machine, capture, monitoring, interval, refresh, due, window,
                     capturing, elapsed, limit, begun, updates, atStop>>
  BY DEF SaveReport, session
<1>3. MeterInv' /\ SeriesInv' /\ TieInv'
  BY <1>2, QtQuiet DEF capture
<1>4. CliInv'
  BY QtKeepsCli
<1>5. TickInv'
  BY <1>1, <1>2, TickInvKept DEF TickKept, machine
<1>6. FedInv'
  BY <1>1, <1>2 DEF QtInv, FedInv, capture
<1>7. QtInv'
  BY <1>1, <1>2, <1>5, <1>6, TimerTypes, QtParts DEF QtInv, QtTypeOK
<1> QED BY <1>3, <1>4, <1>7 DEF CaptureInv


-----------------------------------------------------------------------------
(* Both.                                                                   *)

LEMMA InitCapture == CaptureInit => CaptureInv
<1> SUFFICES ASSUME CaptureInit PROVE CaptureInv
  OBVIOUS
<1>1. /\ program \in {"cli", "qt"} /\ busy = 0 /\ idle = 0
      /\ series = <<>> /\ start_time = 0
      /\ CliInit /\ QtInit
  BY DEF CaptureInit
<1>2. now \in Nat
  BY CaptureSeriesAssumption DEF CaptureInit
<1>3. PICK scanned, has \in BOOLEAN :
         /\ list = IF scanned THEN 0 ELSE Unfinished
         /\ prev = [busy |-> 0, idle |-> 0, has |-> has, at |-> 0]
  BY DEF CaptureInit
<1>4. MeterInv
  <2>1. prev \in Reading /\ prev.busy = 0 /\ prev.at = 0
    BY <1>3 DEF Reading
  <2>2. list \in Int
    BY <1>3 DEF Unfinished
  <2> QED BY <1>1, <1>2, <2>1, <2>2 DEF MeterInv
<1>5. Len(series) = 0 /\ DOMAIN series = {} /\ series \in Seq(Samples)
  BY <1>1
<1>6. SeriesInv
  BY <1>1, <1>5 DEF SeriesInv, SamplesTile, ElapsedFromZero, ListsFollow
<1>7. TieInv
  BY <1>1, <1>5 DEF TieInv, MeterTie, ListTie
<1>8. CliInv
  <2>1. CliTypeOK
    BY <1>1 DEF CliInit, CliTypeOK
  <2>2. {duration, began, wake} \subseteq Nat
    <3>1. duration \in Nat
      BY <1>1, CaptureModeAssumption DEF CliInit
    <3>2. began = now /\ wake = 0
      BY <1>1 DEF CliInit
    <3> QED BY <1>2, <3>1, <3>2
  <2>3. ~window /\ ~capturing
    BY <1>1 DEF QtInit
  <2> QED BY <1>1, <2>1, <2>2, <2>3 DEF CliInit, CliInv
<1>9. QtInv
  <2>1. PICK c \in Started(StartInterval), r \in Started(StartRefresh) :
           due = [controller |-> c, refresh |-> r, tick |-> Off]
    BY <1>1 DEF QtInit
  <2>2. c \in Int /\ c > 0 /\ r \in Int /\ r > 0
    BY <1>2, IntervalsType, StartedLater
  <2>3. due \in [Timers -> Int] /\ \A t \in DOMAIN due : due[t] = Off \/ due[t] > 0
    BY <2>1, <2>2 DEF Timers, Off
  <2>4. QtTypeOK
    BY <1>1, <2>3 DEF QtInit, QtTypeOK
  <2>5. TickInv
    BY <1>1, <2>1 DEF QtInit, TickInv
  <2>6. FedInv
    BY <1>1 DEF QtInit, FedInv
  <2>7. {updates, atStop} \subseteq Nat /\ begun \in Int
    BY <1>1 DEF QtInit, Off
  <2> QED BY <2>3, <2>4, <2>5, <2>6, <2>7 DEF QtInv
<1> QED BY <1>4, <1>6, <1>7, <1>8, <1>9 DEF CaptureInv

LEMMA NextCapture == CaptureInv /\ [CaptureNext]_captureVars => CaptureInv'
<1> SUFFICES ASSUME CaptureInv, [CaptureNext]_captureVars PROVE CaptureInv'
  OBVIOUS
<1>1. CASE program = "cli" /\ CliNext /\ UNCHANGED <<program, qt>>
  BY <1>1, TestStep, ScanStepStep, SampleStepStep, CliOtherStep DEF CliNext, CliStep
<1>2. CASE program = "qt" /\ QtNext /\ UNCHANGED <<program, cli>>
  BY <1>2, TimeoutStep, TickStep, QtClockStep, ResortStep, ToggleStep, SetIntervalStep,
     OpenWindowStep, CloseWindowStep, StartCaptureStep, StopCaptureStep, SaveReportStep
     DEF QtNext
<1>3. CASE UNCHANGED captureVars
  <2>1. UNCHANGED <<program, machine, capture, cli, qt>>
    BY <1>3 DEF captureVars
  <2>2. CliInv
    BY DEF CaptureInv
  <2>3. CASE program = "cli"
    <3>1. UNCHANGED <<at, running, duration, began, wake, slow, reports, status, why>>
      BY <2>1 DEF cli
    <3>2. UNCHANGED <<window, capturing, series, now>>
      BY <2>1 DEF qt, capture, machine
    <3>3. CliTypeOK'
      BY <2>2, <3>1 DEF CliInv, CliTypeOK
    <3>4. CliInv'
      BY <2>1, <2>2, <3>1, <3>2, <3>3 DEF CliInv, Second, Last, SleepTime
    <3> QED BY <2>1, <2>3, <3>1, <3>4, CliQuiet
  <2>4. CASE program = "qt"
    <3>1. UNCHANGED <<prev, list, series, start_time, machine>>
      BY <2>1 DEF capture
    <3>2. UNCHANGED <<monitoring, interval, refresh, due, window, capturing, elapsed,
                      limit, saved, begun, updates, atStop, now, series>>
      BY <2>1 DEF qt, machine, capture
    <3>3. MeterInv' /\ SeriesInv' /\ TieInv'
      BY <2>1, <2>4, <3>1, <3>2, QtQuiet
    <3>4. CliInv'
      BY <2>1, <2>4, QtKeepsCli
    <3>5. QtInv
      BY DEF CaptureInv
    <3>6. QtTypeOK' /\ TickInv' /\ FedInv'
      BY <3>2, <3>5 DEF QtInv, QtTypeOK, TickInv, FedInv
    <3>7. QtInv'
      BY <3>2, <3>5, <3>6 DEF QtInv
    <3> QED BY <3>3, <3>4, <3>7 DEF CaptureInv
  <2> QED BY <2>2, <2>3, <2>4 DEF CliInv
<1> QED BY <1>1, <1>2, <1>3 DEF CaptureNext

LEMMA CaptureInvariance == CaptureSpec => []CaptureInv
BY InitCapture, NextCapture, PTL DEF CaptureSpec

\* A sample that could read the usage measures exactly the time since the last one
\* before it that could, its usage is a share, the elapsed times start at 0 and never
\* go back, and the list it adds up is of a scan right before it, or the one of the
\* sample before or what a failed scan left: for any clock, load, intervals, failing
\* readings and scans and course of the user, and although labels, alerts and graphs
\* read the same statics.
THEOREM SamplesAreSound == CaptureSpec => []SeriesIsSound
<1>1. CaptureInv => SeriesIsSound
  BY DEF CaptureInv, SeriesInv, CliInv, QtInv, SeriesIsSound, CaptureTypeOK
<1> QED BY <1>1, CaptureInvariance, PTL

\* A timed capture of the CLI that ends by itself is short of its duration by less
\* than a second, and none sleeps on by more than one sleep, which is a second at
\* least, and a second.
THEOREM DurationIsKept == CaptureSpec => []KeepsDuration
<1>1. CaptureInv => KeepsDuration
  <2> SUFFICES ASSUME CaptureInv, duration > 0 PROVE KeepsDuration
    BY DEF KeepsDuration
  <2>1. CliInv /\ SeriesInv
    BY DEF CaptureInv
  <2>2. ASSUME why = "over" PROVE Last.when - began > duration - PerSecond
    <3>1. /\ series # <<>>
          /\ PerSecond * (Second(Last.when) - Second(began)) >= duration
      BY <2>1, <2>2 DEF CliInv
    <3>2. Last.when \in Nat
      <4>1. series \in Seq(Samples) /\ Len(series) \in 1 .. Len(series)
        BY <2>1, <3>1 DEF SeriesInv
      <4>2. Last \in Samples
        BY <4>1 DEF Last
      <4> QED BY <4>2 DEF Samples
    <3>3. began \in Nat /\ duration \in Nat
      BY <2>1 DEF CliInv
    <3> DEFINE d == PerSecond * (Second(Last.when) - Second(began))
    <3>4. d - PerSecond < Last.when - began
      BY <3>2, <3>3, SecondsTaken
    <3>5. d \in Int /\ PerSecond \in Nat /\ d >= duration
      <4>1. /\ Second(Last.when) \in Nat /\ Second(began) \in Nat
            /\ PerSecond \in Nat
        BY <3>2, <3>3, SecondsOf, CaptureSeriesAssumption
      <4>2. d \in Int
        BY <4>1
      <4> QED BY <3>1, <4>1, <4>2
    <3> HIDE DEF d
    <3> QED BY <3>2, <3>3, <3>4, <3>5
  <2> QED BY <2>1, <2>2 DEF KeepsDuration, CliInv, Last
<1> QED BY <1>1, CaptureInvariance, PTL

\* A session of the capture window holds every update from Start until the capture
\* stopped, none of the session before and none after; its seconds run ahead of the
\* clock by no more than the timer's tolerance, and never past the limit.
THEOREM SessionIsItsOwn == CaptureSpec => []SeriesIsSession
<1>1. CaptureInv => SeriesIsSession
  <2>1. CaptureInv => TickInv /\ FedInv
    BY DEF CaptureInv, QtInv
  <2> QED BY <2>1 DEF TickInv, FedInv, Tick1, SeriesIsSession
<1> QED BY <1>1, CaptureInvariance, PTL
=============================================================================
