------------------------------ MODULE LogProofs ------------------------------
(***************************************************************************)
(* The circular array of monitoring_log.c implements the bounded list of   *)
(* RecentLog, for every capacity, every set of threads and sinks and       *)
(* whatever they do between: Spec => Recent!Spec.                          *)
(*                                                                         *)
(* The invariant reads the ring backwards from history_next: one step back *)
(* is the newest entry, history_count steps back the oldest that is kept.  *)
(* From there both a copy of any size and the list itself are suffixes of  *)
(* what was accepted.                                                      *)
(*                                                                         *)
(* The second part is about what log_write hands out: a sink registered    *)
(* when an entry was accepted gets it once, and the entries of one thread  *)
(* in order, however the calls of the threads interleave and nest.  The    *)
(* invariant says what a call has in hand: an entry that no other call     *)
(* has, and a rest of the sink table whose sinks have not had the entry.   *)
(* What its thread has logged since, it logged from inside a sink of that  *)
(* call.                                                                   *)
(*                                                                         *)
(* The third part adds the Logs window, whose steps are steps of the log   *)
(* or leave it alone.  Its queue is the end of what the bridge was given;  *)
(* an entry is in the window, in the queue or with its thread.             *)
(*                                                                         *)
(* Only the third part uses WindowAssumption.                              *)
(***************************************************************************)
EXTENDS LogWindow, SequenceTheorems, FiniteSetTheorems, WellFoundedInduction, TLAPS

\* A position in the ring, and the slot j steps before slot n.
Slot(x) == x % Capacity
Back(n, j) == Slot(n + Capacity - j)

RingInv ==
    /\ \E S : accepted \in Seq(S)
    /\ history_next \in 0 .. Capacity - 1
    /\ history_count = IF Len(accepted) < Capacity THEN Len(accepted) ELSE Capacity
    /\ DOMAIN history = 0 .. Capacity - 1
    /\ \A j \in 1 .. history_count :
          history[Back(history_next, j)] = accepted[Len(accepted) + 1 - j]

-----------------------------------------------------------------------------
(* Arithmetic of slots.                                                    *)

\* What is less than two rounds is wrapped by at most one.
LEMMA Wrap ==
    ASSUME NEW C \in Nat \ {0}, NEW x \in 0 .. 2 * C - 1
    PROVE  x % C = IF x < C THEN x ELSE x - C
  <1>1. CASE x < C
    BY <1>1, Z3
  <1>2. CASE x >= C
    BY <1>2, Z3
  <1> QED
    BY <1>1, <1>2

LEMMA SlotIs ==
    ASSUME NEW x \in 0 .. 2 * Capacity - 1
    PROVE  Slot(x) = IF x < Capacity THEN x ELSE x - Capacity
  BY Wrap, LogAssumption DEF Slot

\* A step forward and j back is j - 1 back; one forward and one back is none.
LEMMA BackFromNext ==
    ASSUME NEW n \in 0 .. Capacity - 1, NEW j \in 1 .. Capacity
    PROVE  /\ Slot(n + 1) \in 0 .. Capacity - 1
           /\ Back(n, j) \in 0 .. Capacity - 1
           /\ Back(Slot(n + 1), j) = IF j = 1 THEN n ELSE Back(n, j - 1)
           /\ j < Capacity => Back(n, j) # n
  <1>1. Capacity \in Nat \ {0}
    BY LogAssumption
  <1>2. Slot(n + 1) = IF n + 1 < Capacity THEN n + 1 ELSE 0
    BY <1>1, SlotIs
  <1>3. ASSUME NEW m \in 0 .. Capacity - 1, NEW k \in 1 .. Capacity
        PROVE  Back(m, k) = IF m < k THEN m + Capacity - k ELSE m - k
    BY <1>1, SlotIs DEF Back
  <1>4. Back(n, j) = IF n < j THEN n + Capacity - j ELSE n - j
    BY <1>3
  <1>5. Slot(n + 1) \in 0 .. Capacity - 1
    BY <1>1, <1>2
  <1>6. Back(Slot(n + 1), j) = IF j = 1 THEN n ELSE Back(n, j - 1)
    <2>1. Back(Slot(n + 1), j) =
             IF Slot(n + 1) < j THEN Slot(n + 1) + Capacity - j
                                       ELSE Slot(n + 1) - j
      BY <1>3, <1>5
    <2>2. j # 1 => Back(n, j - 1) = IF n < j - 1 THEN n + Capacity - (j - 1) ELSE n - (j - 1)
      BY <1>1, <1>3
    <2> QED
      BY <1>1, <1>2, <2>1, <2>2
  <1> QED
    BY <1>1, <1>4, <1>5, <1>6

\* k steps back and i - 1 forward are k + 1 - i back.
LEMMA BackThenForward ==
    ASSUME NEW n \in 0 .. Capacity - 1, NEW k \in 0 .. Capacity, NEW i \in 1 .. k
    PROVE  Slot(Slot(n + Capacity - k) + i - 1) = Back(n, k + 1 - i)
  <1>1. Capacity \in Nat \ {0}
    BY LogAssumption
  <1> DEFINE s == Slot(n + Capacity - k)
  <1>2. s = IF n < k THEN n + Capacity - k ELSE n - k
    BY <1>1, SlotIs
  <1>3. s \in 0 .. Capacity - 1
    BY <1>1, <1>2
  <1> HIDE DEF s
  <1>4. Slot(s + i - 1) = IF s + i - 1 < Capacity THEN s + i - 1 ELSE s + i - 1 - Capacity
    BY <1>1, <1>3, SlotIs
  <1>5. Back(n, k + 1 - i) = IF n < k + 1 - i THEN n + Capacity - (k + 1 - i)
                                               ELSE n - (k + 1 - i)
    BY <1>1, SlotIs DEF Back
  <1> QED
    BY <1>1, <1>2, <1>3, <1>4, <1>5 DEF s

-----------------------------------------------------------------------------
(* The ring.                                                               *)

LEMMA InitRingInv == Init => RingInv
  <1> SUFFICES ASSUME Init PROVE RingInv
    OBVIOUS
  <1>1. accepted \in Seq({}) /\ Len(accepted) = 0
    BY DEF Init
  <1> QED
    BY <1>1, LogAssumption DEF Init, RingInv

\* What Accept does to the ring and to the accepted entries.
Push(e) ==
    /\ history' = [history EXCEPT ![history_next] = e]
    /\ history_next' = Slot(history_next + 1)
    /\ history_count' = CountNext
    /\ accepted' = Append(accepted, e)

LEMMA PushKeeps ==
    ASSUME RingInv, NEW e, Push(e)
    PROVE  RingInv'
  <1> USE DEF RingInv, Push
  <1>1. Capacity \in Nat \ {0}
    BY LogAssumption
  <1>2. PICK S : accepted \in Seq(S)
    OBVIOUS
  <1>3. accepted \in Seq(S \cup {e}) /\ Len(accepted) \in Nat
    BY <1>2
  <1>4. /\ accepted' \in Seq(S \cup {e})
        /\ Len(accepted') = Len(accepted) + 1
        /\ accepted'[Len(accepted) + 1] = e
        /\ \A i \in 1 .. Len(accepted) : accepted'[i] = accepted[i]
    BY <1>3
  <1>5. history_next' \in 0 .. Capacity - 1 /\ DOMAIN history' = 0 .. Capacity - 1
    BY <1>1, BackFromNext
  <1>6. history_count' = IF Len(accepted') < Capacity THEN Len(accepted') ELSE Capacity
    BY <1>1, <1>3, <1>4 DEF CountNext
  <1>7. ASSUME NEW j \in 1 .. history_count'
        PROVE  history'[Back(history_next', j)] = accepted'[Len(accepted') + 1 - j]
    <2>1. j \in 1 .. Capacity
      BY <1>1, <1>3, <1>4, <1>6
    <2>2. CASE j = 1
      BY <1>4, <2>1, <2>2, BackFromNext
    <2>3. CASE j # 1
      <3>1. j - 1 \in 1 .. history_count /\ j - 1 \in 1 .. Capacity /\ j - 1 < Capacity
        BY <1>1, <1>3, <1>4, <1>6, <2>1, <2>3
      <3>2. Back(history_next', j) = Back(history_next, j - 1)
        BY <2>1, <2>3, BackFromNext
      <3>3. history'[Back(history_next, j - 1)] = history[Back(history_next, j - 1)]
        BY <3>1, BackFromNext
      <3>4. history[Back(history_next, j - 1)] = accepted[Len(accepted) + 1 - (j - 1)]
        BY <3>1
      <3>5. Len(accepted) + 1 - (j - 1) = Len(accepted') + 1 - j
        BY <1>3, <1>4
      <3>6. Len(accepted') + 1 - j \in 1 .. Len(accepted)
        BY <1>1, <1>3, <1>4, <1>6, <2>3
      <3> QED
        BY <1>4, <3>2, <3>3, <3>4, <3>5, <3>6
    <2> QED  BY <2>2, <2>3
  <1> QED
    BY <1>4, <1>5, <1>6, <1>7

-----------------------------------------------------------------------------
(* A copy.                                                                 *)

\* The last k elements of a sequence.
Suffix(s, k) == SubSeq(s, Len(s) - k + 1, Len(s))

LEMMA SuffixIs ==
    ASSUME NEW S, NEW s \in Seq(S), NEW k \in 0 .. Len(s)
    PROVE  /\ Suffix(s, k) = [i \in 1 .. k |-> s[Len(s) - k + i]]
           /\ Suffix(s, k) \in Seq(S) /\ Len(Suffix(s, k)) = k
  <1>1. Len(s) \in Nat /\ Len(s) - k + 1 \in 1 .. Len(s) + 1
    OBVIOUS
  <1>2. Suffix(s, k) = [i \in 1 .. k |-> s[Len(s) - k + i]]
    BY <1>1 DEF Suffix
  <1>3. Suffix(s, k) \in Seq(S)
    BY <1>1, SubSeqProperties DEF Suffix
  <1> QED
    BY <1>1, <1>2, <1>3

LEMMA SuffixOfOne ==
    ASSUME NEW S, NEW s \in Seq(S), Len(s) > 0
    PROVE  Suffix(s, 1) # <<>> /\ Suffix(s, 1)[1] = s[Len(s)]
  <1>1. PICK k \in 0 .. Len(s) : k = 1
    OBVIOUS
  <1>2. Suffix(s, k) = [i \in 1 .. k |-> s[Len(s) - k + i]] /\ Len(Suffix(s, k)) = k
    BY SuffixIs
  <1>3. Suffix(s, k)[1] = s[Len(s) - k + 1]
    BY <1>1, <1>2
  <1>4. Len(s) - k + 1 = Len(s) /\ Len(<<>>) = 0
    BY <1>1
  <1> QED
    BY <1>1, <1>2, <1>3, <1>4

\* To have the last n after an append it is enough to have kept the last c
\* before it, when nothing was dropped yet or n are kept.
LEMMA AppendToSuffix ==
    ASSUME NEW S, NEW s \in Seq(S), NEW e, NEW n \in Nat \ {0},
           NEW c \in 0 .. Len(s), c = Len(s) \/ n <= c
    PROVE  Recent!LastOf(Append(Suffix(s, c), e), n)
              = Suffix(Append(s, e), IF Len(s) < n THEN Len(s) + 1 ELSE n)
  <1> DEFINE T == S \cup {e}
             long == Append(s, e)
             kept == Append(Suffix(s, c), e)
  <1>1. PICK len \in Nat, m \in Nat : len = Len(s) /\ m = IF len < n THEN len + 1 ELSE n
    OBVIOUS
  <1>2. m \in 1 .. len + 1 /\ m <= c + 1 /\ c \in 0 .. len
    BY <1>1
  <1>3. /\ long \in Seq(T) /\ Len(long) = len + 1 /\ long[len + 1] = e
        /\ \A i \in 1 .. len : long[i] = s[i]
    BY <1>1
  <1>4. /\ kept \in Seq(T) /\ Len(kept) = c + 1 /\ kept[c + 1] = e
        /\ \A i \in 1 .. c : kept[i] = s[len - c + i]
    <2> DEFINE old == Suffix(s, c)
    <2>1. old = [i \in 1 .. c |-> s[Len(s) - c + i]] /\ old \in Seq(S) /\ Len(old) = c
      BY SuffixIs
    <2> HIDE DEF old
    <2>2. /\ Append(old, e) \in Seq(T) /\ Len(Append(old, e)) = c + 1
          /\ Append(old, e)[c + 1] = e
          /\ \A i \in 1 .. c : Append(old, e)[i] = old[i]
      BY <1>2, <2>1
    <2> QED
      BY <1>1, <2>1, <2>2 DEF old
  <1> HIDE DEF long, kept, T
  <1>5. Suffix(kept, m) = [i \in 1 .. m |-> kept[c + 1 - m + i]]
    <2>1. m \in 0 .. Len(kept)
      BY <1>2, <1>4
    <2>2. Suffix(kept, m) = [i \in 1 .. m |-> kept[Len(kept) - m + i]]
      BY <1>4, <2>1, SuffixIs
    <2> QED
      BY <1>4, <2>2
  <1>6. Suffix(long, m) = [i \in 1 .. m |-> long[len + 1 - m + i]]
    <2>1. m \in 0 .. Len(long)
      BY <1>2, <1>3
    <2>2. Suffix(long, m) = [i \in 1 .. m |-> long[Len(long) - m + i]]
      BY <1>3, <2>1, SuffixIs
    <2> QED
      BY <1>3, <2>2
  <1>7. ASSUME NEW i \in 1 .. m
        PROVE  kept[c + 1 - m + i] = long[len + 1 - m + i]
    <2>1. CASE i = m
      BY <1>2, <1>3, <1>4, <2>1
    <2>2. CASE i # m
      <3>1. c + 1 - m + i \in 1 .. c /\ len + 1 - m + i \in 1 .. len
        BY <1>2, <2>2
      <3>2. len - c + (c + 1 - m + i) = len + 1 - m + i
        BY <1>2
      <3> QED
        BY <1>3, <1>4, <3>1, <3>2
    <2> QED
      BY <2>1, <2>2
  <1>8. Suffix(kept, m) = Suffix(long, m)
    BY <1>5, <1>6, <1>7
  <1>9. Recent!LastOf(kept, n) = Suffix(kept, m)
    <2>1. CASE c + 1 <= n
      <3>1. m = c + 1
        BY <1>1, <1>2, <2>1
      <3>2. kept = Suffix(kept, m)
        BY <1>2, <1>4, <1>5, <3>1
      <3> QED
        BY <1>2, <1>4, <2>1, <3>2 DEF Recent!LastOf
    <2>2. CASE n < c + 1
      <3>1. m = n
        BY <1>1, <1>2, <2>2
      <3> QED
        BY <1>2, <1>4, <2>2, <3>1 DEF Recent!LastOf, Suffix
    <2> QED
      BY <1>2, <2>1, <2>2
  <1> QED
    BY <1>1, <1>8, <1>9 DEF long, kept

\* How many entries log_copy_recent returns to an array of n.
CountOf(n) == IF history_count < n THEN history_count ELSE n

LEMMA CopyIsNewest ==
    ASSUME RingInv, NEW n \in Nat
    PROVE  CopyRecent(n) = Suffix(accepted, CountOf(n))
  <1> DEFINE k == CountOf(n)
             start == Slot(history_next + Capacity - k)
  <1>1. Capacity \in Nat \ {0} /\ history_next \in 0 .. Capacity - 1
    BY LogAssumption DEF RingInv
  <1>2. PICK S : accepted \in Seq(S)
    BY DEF RingInv
  <1>3. /\ k \in 0 .. Capacity /\ k <= Len(accepted) /\ k <= history_count
        /\ Len(accepted) \in Nat
    BY <1>1, <1>2 DEF RingInv, CountOf
  <1>4. CopyRecent(n) = [i \in 1 .. k |-> history[Slot(start + i - 1)]]
    BY DEF CopyRecent, CountOf, Slot
  <1>5. ASSUME NEW i \in 1 .. k
        PROVE  history[Slot(start + i - 1)] = accepted[Len(accepted) - k + i]
    <2>1. Slot(start + i - 1) = Back(history_next, k + 1 - i)
      BY <1>1, <1>3, BackThenForward
    <2>2. k + 1 - i \in 1 .. history_count
      BY <1>1, <1>3 DEF RingInv
    <2>3. history[Back(history_next, k + 1 - i)] = accepted[Len(accepted) + 1 - (k + 1 - i)]
      BY <2>2 DEF RingInv
    <2>4. Len(accepted) + 1 - (k + 1 - i) = Len(accepted) - k + i
      BY <1>3
    <2> QED
      BY <2>1, <2>3, <2>4
  <1>6. Suffix(accepted, k) = [i \in 1 .. k |-> accepted[Len(accepted) - k + i]]
    <2>1. k \in 0 .. Len(accepted)
      BY <1>3
    <2> QED
      BY <1>2, <2>1, SuffixIs
  <1> QED
    BY <1>4, <1>5, <1>6

\* The copies of every size are suffixes of what was accepted.
CopiesAreNewest ==
    \A n \in 1 .. Capacity : CopyRecent(n) = Suffix(accepted, CountOf(n))

LEMMA RingCopies == RingInv => CopiesAreNewest
  BY CopyIsNewest, LogAssumption DEF CopiesAreNewest

LEMMA RingCopiesNext == RingInv' => CopiesAreNewest'
  BY RingCopies, PTL

-----------------------------------------------------------------------------
(* The refinement.                                                         *)

\* What the abstract history is mapped to.
Copies == [n \in 1 .. Capacity |-> CopyRecent(n)]

\* A push gives every size of array the last of the longest copy and the entry.
LEMMA PushRecords ==
    ASSUME RingInv, NEW e, Push(e), NEW n \in 1 .. Capacity
    PROVE  /\ CopyRecent(n)' = Recent!LastOf(Append(CopyRecent(Capacity), e), n)
           /\ n = 1 => CopyRecent(n)' # <<>> /\ CopyRecent(n)'[1] = e
  <1>1. Capacity \in Nat \ {0} /\ n \in Nat \ {0} /\ n <= Capacity
    BY LogAssumption
  <1>2. PICK S : accepted \in Seq(S)
    BY DEF RingInv
  <1>3. /\ Len(accepted) \in Nat
        /\ history_count \in 0 .. Len(accepted)
        /\ history_count = Len(accepted) \/ n <= history_count
        /\ CountOf(n)' = IF Len(accepted) < n THEN Len(accepted) + 1 ELSE n
    BY <1>1, <1>2 DEF RingInv, Push, CountNext, CountOf
  <1>4. /\ accepted' = Append(accepted, e) /\ accepted' \in Seq(S \cup {e})
        /\ Len(accepted') = Len(accepted) + 1 /\ accepted'[Len(accepted) + 1] = e
    BY <1>2 DEF Push
  <1>5. CopyRecent(Capacity) = Suffix(accepted, history_count)
    BY <1>1, <1>3, CopyIsNewest DEF CountOf, RingInv
  <1>6. CopyRecent(n)' = Suffix(accepted', CountOf(n)')
    BY PushKeeps, RingCopiesNext DEF CopiesAreNewest, Suffix
  <1>7. CopyRecent(n)' = Recent!LastOf(Append(CopyRecent(Capacity), e), n)
    BY <1>1, <1>2, <1>3, <1>4, <1>5, <1>6, AppendToSuffix
  <1>8. ASSUME n = 1
        PROVE  CopyRecent(n)' # <<>> /\ CopyRecent(n)'[1] = e
    <2>1. CopyRecent(n)' = Suffix(accepted', 1)
      BY <1>3, <1>6, <1>8
    <2>2. Suffix(accepted', 1) # <<>> /\ Suffix(accepted', 1)[1] = accepted'[Len(accepted')]
      <3>1. accepted' \in Seq(S \cup {e}) /\ Len(accepted') > 0
        BY <1>3, <1>4
      <3> QED
        BY <3>1, SuffixOfOne
    <2> QED
      BY <1>4, <2>1, <2>2
  <1> QED
    BY <1>7, <1>8

\* The variables of the ring and the accepted entries.
ring == <<history, history_count, history_next, accepted>>

\* A step of the module pushes an entry that passes the threshold, or changes
\* the threshold, or does not concern the history.
LEMMA RingSteps ==
    ASSUME [Next]_vars
    PROVE  \/ \E e : Push(e) /\ e.level <= level /\ UNCHANGED level
           \/ UNCHANGED ring /\ \E l \in Levels : level' = l
           \/ UNCHANGED <<ring, level>>
  <1>1. ASSUME NEW t \in Threads, Accept(t)
        PROVE  \E e : Push(e) /\ e.level <= level /\ UNCHANGED level
    <2> DEFINE e == [id |-> Len(accepted) + 1, by |-> t, level |-> Last(calls[t]).level,
                     nested |-> InSink(t)]
    <2>1. Push(e) /\ UNCHANGED level
      BY <1>1 DEF Accept, Push, Slot
    <2>2. e.level <= level
      BY <1>1 DEF Accept, Passes
    <2> QED
      BY <2>1, <2>2
  <1>2. ASSUME NEW t \in Threads, Lock(t) \/ Reject(t) \/ CallSink(t) \/ SinkReturns(t)
        PROVE  UNCHANGED <<ring, level>>
    BY <1>2 DEF Lock, Reject, CallSink, SinkReturns, log, ring
  <1>3. ASSUME NEW t \in Threads, NEW l \in Levels, LogWrite(t, l)
        PROVE  UNCHANGED <<ring, level>>
    BY <1>3 DEF LogWrite, log, ring
  <1>4. ASSUME NEW l \in Levels, LogInit(l)
        PROVE  UNCHANGED ring /\ level' = l
    BY <1>4 DEF LogInit, ring
  <1>5. ASSUME NEW s \in Sinks, LogAddSink(s) \/ LogRemoveSink(s)
        PROVE  UNCHANGED <<ring, level>>
    BY <1>5 DEF LogAddSink, LogRemoveSink, ring
  <1>6. CASE UNCHANGED vars
    BY <1>6 DEF vars, log, ring
  <1> QED
    BY <1>1, <1>2, <1>3, <1>4, <1>5, <1>6 DEF Next, Writer

LEMMA RingUnchanged ==
    ASSUME RingInv, UNCHANGED ring
    PROVE  RingInv' /\ Copies' = Copies
  BY DEF RingInv, ring, Copies, CopyRecent, Back, Slot

LEMMA StepRefines ==
    ASSUME RingInv, [Next]_vars
    PROVE  RingInv' /\ [Recent!Next]_(Recent!vars)
  <1>1. CASE \E e : Push(e) /\ e.level <= level /\ UNCHANGED level
    <2>1. PICK e : Push(e) /\ e.level <= level /\ UNCHANGED level
      BY <1>1
    <2>2. 1 \in 1 .. Capacity /\ Capacity \in 1 .. Capacity
      BY LogAssumption
    <2>3. Copies'[1] # <<>> /\ Copies'[1][1] = e
      BY <2>1, <2>2, PushRecords DEF Copies
    <2>4. Copies' = [n \in 1 .. Capacity |-> Recent!LastOf(Append(Copies[Capacity], e), n)]
      BY <2>1, <2>2, PushRecords DEF Copies
    <2>5. Recent!Record
      BY <2>1, <2>3, <2>4 DEF Recent!Record, Recent!Sizes, Copies
    <2> QED
      BY <2>1, <2>5, PushKeeps DEF Recent!Next
  <1>2. CASE UNCHANGED ring /\ \E l \in Levels : level' = l
    <2>1. \E l \in Levels : Recent!SetThreshold(l)
      BY <1>2, RingUnchanged DEF Recent!SetThreshold, Copies
    <2> QED
      BY <1>2, <2>1, RingUnchanged DEF Recent!Next
  <1>3. CASE UNCHANGED <<ring, level>>
    BY <1>3, RingUnchanged DEF Recent!vars, Copies
  <1> QED
    BY <1>1, <1>2, <1>3, RingSteps

LEMMA InitRefines == Init => Recent!Init
  <1> SUFFICES ASSUME Init PROVE Recent!Init
    OBVIOUS
  <1>1. RingInv
    BY InitRingInv
  <1>2. accepted = <<>> /\ history_count = 0 /\ level \in Levels
    BY LogAssumption DEF Init
  <1>3. ASSUME NEW n \in 1 .. Capacity
        PROVE  CopyRecent(n) = <<>>
    <2>1. CountOf(n) = 0
      BY <1>2, LogAssumption DEF CountOf
    <2>2. CopyRecent(n) = Suffix(accepted, 0)
      BY <1>1, <2>1, RingCopies DEF CopiesAreNewest
    <2> QED
      BY <1>2, <2>2 DEF Suffix
  <1> QED
    BY <1>2, <1>3 DEF Recent!Init, Recent!Sizes

\* The ring is the bounded list monitoring_log.h promises: every step of the
\* module is a step of RecentLog or none.  log_write pushes the last entry and
\* drops the first, and log_copy_recent gives a caller with an array of any size
\* the newest entries, oldest first.
THEOREM RingImplementsRecentLog == Spec => ImplementsRecentLog
  <1>1. Spec => []RingInv
    BY InitRingInv, StepRefines, PTL DEF Spec
  <1>2. Spec => Recent!Spec
    BY <1>1, InitRefines, StepRefines, PTL DEF Spec, Recent!Spec
  <1> QED
    BY <1>2 DEF ImplementsRecentLog

-----------------------------------------------------------------------------
(* What log_write hands out.                                               *)

\* An entry that was accepted: its number is its place.
Logged(e, list) == e.id \in 1 .. Len(list) /\ list[e.id] = e

\* All calls of a thread but the innermost are inside a sink; a call has an
\* entry once it has left the mutex, and nothing to hand out before.
StackInv ==
    \A t \in Threads : \A i \in DOMAIN calls[t] :
        LET c == calls[t][i]
        IN  /\ i < Len(calls[t]) => c.phase = "calling"
            /\ c.phase \in {"enter", "locked"} <=> c.entry = NoEntry
            /\ c.entry = NoEntry => DOMAIN c.todo = {}

\* The entry of a call is its thread's and no other call's; what the thread logged
\* since it logged from inside that call's sinks.
HeldInv ==
    \A t \in Threads : \A i \in DOMAIN calls[t] :
        LET e == calls[t][i].entry
        IN  e # NoEntry =>
            /\ Logged(e, accepted) /\ e.by = t
            /\ \A k \in e.id + 1 .. Len(accepted) :
                  accepted[k].by = t => accepted[k].nested
            /\ \A j \in DOMAIN calls[t] : calls[t][j].entry = e => i = j

\* What is left of a call's copy has each sink once, and none that had the entry.
Owes(c, received) ==
    /\ IsInjective(c.todo)
    /\ \A j \in DOMAIN c.todo : \A k \in DOMAIN received[c.todo[j]] :
          received[c.todo[j]][k] # c.entry

TodoInv == \A t \in Threads : \A i \in DOMAIN calls[t] : Owes(calls[t][i], delivered)

\* Entries are numbered in the order they were accepted, and only those were
\* delivered.
NumberInv ==
    /\ \A k \in 1 .. Len(accepted) : accepted[k].id = k
    /\ \A s \in Sinks : \A k \in DOMAIN delivered[s] : Logged(delivered[s][k], accepted)

\* A sink is registered once.
SinksInv == \A i, j \in DOMAIN sinks : sinks[i] = sinks[j] /\ sinks[i] # Nobody => i = j

\* The threads on their way to the mutex have not used up their call of log_write.
Pending == {t \in Threads : InPhase(t, "enter") \/ InPhase(t, "locked")}
CountInv == IsFiniteSet(Pending) /\ Len(accepted) + Cardinality(Pending) <= writes

DeliveryInv ==
    /\ TypeOK
    /\ StackInv /\ HeldInv /\ TodoInv
    /\ NumberInv /\ SinksInv /\ CountInv
    /\ NoDuplicateDelivery /\ NothingDropped /\ SinkKeepsThreadOrder

-----------------------------------------------------------------------------
(* The stack of calls a thread is in.                                      *)

CallOf(p, l, e, d) == [phase |-> p, level |-> l, entry |-> e, todo |-> d]

\* What the steps make of a call: of its phase, of its entry, of its copy.
InPhaseOf(c, p) == [c EXCEPT !.phase = p]
Notifying(c, e, d) == [c EXCEPT !.phase = "notify", !.entry = e, !.todo = d]
Calling(c, i) == [c EXCEPT !.phase = "calling", !.todo = Restrict(@, DOMAIN @ \ {i})]

LEMMA CallOfSteps ==
    ASSUME NEW p, NEW l, NEW e, NEW d
    PROVE  /\ \A x : InPhaseOf(CallOf(p, l, e, d), x) = CallOf(x, l, e, d)
           /\ \A e1, d1 : Notifying(CallOf(p, l, e, d), e1, d1) = CallOf("notify", l, e1, d1)
           /\ \A i : Calling(CallOf(p, l, e, d), i)
                        = CallOf("calling", l, e, Restrict(d, DOMAIN d \ {i}))
  <1>1. \A x : InPhaseOf(CallOf(p, l, e, d), x) = CallOf(x, l, e, d)
    BY DEF InPhaseOf, CallOf
  <1>2. ASSUME NEW e1, NEW d1
        PROVE  Notifying(CallOf(p, l, e, d), e1, d1) = CallOf("notify", l, e1, d1)
    <2>1. /\ [CallOf(p, l, e, d) EXCEPT !.phase = "notify"] = CallOf("notify", l, e, d)
          /\ [CallOf("notify", l, e, d) EXCEPT !.entry = e1] = CallOf("notify", l, e1, d)
          /\ [CallOf("notify", l, e1, d) EXCEPT !.todo = d1] = CallOf("notify", l, e1, d1)
      BY DEF CallOf
    <2> QED
      BY <2>1, Zenon DEF Notifying
  <1>3. ASSUME NEW i
        PROVE  Calling(CallOf(p, l, e, d), i) = CallOf("calling", l, e, Restrict(d, DOMAIN d \ {i}))
    <2>1. /\ [CallOf(p, l, e, d) EXCEPT !.phase = "calling"] = CallOf("calling", l, e, d)
          /\ CallOf(p, l, e, d).todo = d
          /\ \A x : [CallOf("calling", l, e, d) EXCEPT !.todo = x] = CallOf("calling", l, e, x)
      BY DEF CallOf
    <2> QED
      BY <2>1, Zenon DEF Calling
  <1> QED
    BY <1>1, <1>2, <1>3

LEMMA CallForm ==
    ASSUME NEW c \in Call
    PROVE  /\ c.phase \in {"enter", "locked", "notify", "calling"}
           /\ c.level \in Levels /\ c.entry \in Entry \cup {NoEntry} /\ c.todo \in Copy
           /\ \A p : InPhaseOf(c, p) = CallOf(p, c.level, c.entry, c.todo)
           /\ \A e, d : Notifying(c, e, d) = CallOf("notify", c.level, e, d)
           /\ \A i : Calling(c, i)
                        = CallOf("calling", c.level, c.entry, Restrict(c.todo, DOMAIN c.todo \ {i}))
  <1>1. c = CallOf(c.phase, c.level, c.entry, c.todo)
    BY DEF Call, CallOf
  <1>2. /\ c.phase \in {"enter", "locked", "notify", "calling"}
        /\ c.level \in Levels /\ c.entry \in Entry \cup {NoEntry} /\ c.todo \in Copy
    BY DEF Call
  <1>3. PICK p0, l0, e0, d0 :
            c.phase = p0 /\ c.level = l0 /\ c.entry = e0 /\ c.todo = d0
    OBVIOUS
  <1>4. c = CallOf(p0, l0, e0, d0)
    BY <1>1, <1>3
  <1> QED
    BY <1>2, <1>3, <1>4, CallOfSteps

LEMMA CallOfIsCall ==
    ASSUME NEW p \in {"enter", "locked", "notify", "calling"}, NEW l \in Levels,
           NEW e \in Entry \cup {NoEntry}, NEW d \in Copy
    PROVE  /\ CallOf(p, l, e, d) \in Call
           /\ CallOf(p, l, e, d).phase = p /\ CallOf(p, l, e, d).entry = e
           /\ CallOf(p, l, e, d).todo = d
  BY DEF CallOf, Call

\* A copy is a function from some slots to sinks; so is any part of it.
LEMMA CopyForm ==
    ASSUME NEW d \in Copy
    PROVE  /\ DOMAIN d \subseteq 1 .. MaxSinks
           /\ \A j \in DOMAIN d : d[j] \in Sinks
           /\ \A S \in SUBSET DOMAIN d : Restrict(d, S) \in Copy
  <1>1. PICK D \in SUBSET (1 .. MaxSinks) : d \in [D -> Sinks]
    BY DEF Copy
  <1>2. ASSUME NEW S \in SUBSET DOMAIN d
        PROVE  Restrict(d, S) \in Copy
    <2>1. S \in SUBSET (1 .. MaxSinks) /\ Restrict(d, S) \in [S -> Sinks]
      BY <1>1 DEF Restrict
    <2> QED
      BY <2>1 DEF Copy
  <1> QED
    BY <1>1, <1>2

LEMMA NoSinks == <<>> \in Copy /\ DOMAIN <<>> = {}
  <1>1. DOMAIN <<>> = {}
    OBVIOUS
  <1>2. <<>> = [i \in {} |-> i]
    OBVIOUS
  <1>3. {} \in SUBSET (1 .. MaxSinks) /\ [i \in {} |-> i] \in [{} -> Sinks]
    OBVIOUS
  <1> QED
    BY <1>1, <1>2, <1>3, Zenon DEF Copy

LEMMA Stack ==
    ASSUME NEW s \in Seq(Call), s # <<>>
    PROVE  /\ Len(s) \in Nat \ {0} /\ Last(s) = s[Len(s)] /\ Last(s) \in Call
           /\ Front(s) \in Seq(Call) /\ Len(Front(s)) = Len(s) - 1
           /\ \A i \in 1 .. Len(s) - 1 : Front(s)[i] = s[i]
  <1>1. Len(s) \in Nat \ {0} /\ s[Len(s)] \in Call
    OBVIOUS
  <1>2. \A i \in 1 .. Len(s) - 1 : s[i] \in Call
    OBVIOUS
  <1>3. /\ Front(s) \in Seq(Call) /\ Len(Front(s)) = Len(s) - 1
        /\ \A i \in 1 .. Len(s) - 1 : Front(s)[i] = s[i]
    <2>1. PICK n \in Int : n = Len(s) - 1
      BY <1>1
    <2>2. n >= 0 /\ \A i \in 1 .. n : s[i] \in Call
      BY <1>1, <1>2, <2>1
    <2>3. /\ SubSeq(s, 1, n) \in Seq(Call)
          /\ Len(SubSeq(s, 1, n)) = IF 1 <= n THEN n - 1 + 1 ELSE 0
          /\ \A i \in 1 .. n - 1 + 1 : SubSeq(s, 1, n)[i] = s[1 + i - 1]
      BY <2>2, SubSeqProperties
    <2>4. \A i \in 1 .. n : 1 + i - 1 = i /\ i \in 1 .. n - 1 + 1
      OBVIOUS
    <2> QED
      BY <2>1, <2>2, <2>3, <2>4 DEF Front
  <1> QED
    BY <1>1, <1>3 DEF Last

\* The position of the innermost call.
Top(t) == Len(calls[t])

LEMMA TopCall ==
    ASSUME TypeOK, NEW t \in Threads, NEW p, InPhase(t, p)
    PROVE  /\ Top(t) \in Nat \ {0} /\ Top(t) \in DOMAIN calls[t]
           /\ Last(calls[t]) = calls[t][Top(t)]
           /\ Last(calls[t]) \in Call /\ calls[t][Top(t)].phase = p
  <1>1. calls[t] \in Seq(Call) /\ calls[t] # <<>>
    BY DEF TypeOK, InPhase
  <1> QED
    BY <1>1, Stack DEF InPhase, Top

\* calls is of its type, and a call is one.
LEMMA CallsTyped ==
    ASSUME TypeOK
    PROVE  /\ DOMAIN calls = Threads
           /\ \A u \in Threads :
                 /\ calls[u] \in Seq(Call) /\ Len(calls[u]) \in Nat
                 /\ DOMAIN calls[u] = 1 .. Len(calls[u])
                 /\ \A i \in DOMAIN calls[u] : calls[u][i] \in Call
  BY DEF TypeOK

LEMMA ReplaceTop ==
    ASSUME NEW s \in Seq(Call), s # <<>>, NEW c \in Call
    PROVE  /\ Append(Front(s), c) \in Seq(Call) /\ Len(Append(Front(s), c)) = Len(s)
           /\ DOMAIN Append(Front(s), c) = DOMAIN s
           /\ Append(Front(s), c)[Len(s)] = c
           /\ \A i \in DOMAIN s \ {Len(s)} : Append(Front(s), c)[i] = s[i]
  <1> DEFINE f == Front(s)
  <1>1. Len(s) \in Nat \ {0} /\ DOMAIN s = 1 .. Len(s)
    OBVIOUS
  <1>2. f \in Seq(Call) /\ Len(f) = Len(s) - 1 /\ \A i \in 1 .. Len(s) - 1 : f[i] = s[i]
    BY Stack
  <1> HIDE DEF f
  <1>3. Append(f, c) \in Seq(Call) /\ Len(Append(f, c)) = Len(f) + 1
    BY <1>2
  <1>4. Append(f, c)[Len(f) + 1] = c /\ \A i \in 1 .. Len(f) : Append(f, c)[i] = f[i]
    BY <1>2
  <1> DEFINE g == Append(f, c)
  <1>5. g \in Seq(Call) /\ Len(g) = Len(s)
    BY <1>1, <1>2, <1>3
  <1> HIDE DEF g
  <1>6. DOMAIN g = 1 .. Len(s)
    BY <1>5
  <1>7. g[Len(s)] = c /\ \A i \in 1 .. Len(s) - 1 : g[i] = s[i]
    BY <1>1, <1>2, <1>4 DEF g
  <1>8. DOMAIN s \ {Len(s)} = 1 .. Len(s) - 1
    BY <1>1
  <1> QED
    BY <1>1, <1>5, <1>6, <1>7, <1>8 DEF f, g

LEMMA BecomeIs ==
    ASSUME TypeOK, NEW t \in Threads, calls[t] # <<>>, NEW c \in Call, Become(t, c)
    PROVE  /\ calls' \in [Threads -> Seq(Call)]
           /\ \A u \in Threads :
                 DOMAIN calls'[u] = DOMAIN calls[u] /\ Len(calls'[u]) = Len(calls[u])
           /\ calls'[t][Top(t)] = c
           /\ \A u \in Threads \ {t} : calls'[u] = calls[u]
           /\ \A i \in DOMAIN calls[t] \ {Top(t)} : calls'[t][i] = calls[t][i]
  <1> DEFINE g == Append(Front(calls[t]), c)
  <1>1. calls[t] \in Seq(Call)
    BY DEF TypeOK
  <1>2. /\ g \in Seq(Call) /\ Len(g) = Len(calls[t]) /\ DOMAIN g = DOMAIN calls[t]
        /\ g[Len(calls[t])] = c
        /\ \A i \in DOMAIN calls[t] \ {Len(calls[t])} : g[i] = calls[t][i]
    BY <1>1, ReplaceTop
  <1>3. calls' = [calls EXCEPT ![t] = g]
    BY DEF Become
  <1> HIDE DEF g
  <1>4. calls'[t] = g /\ \A u \in Threads \ {t} : calls'[u] = calls[u]
    BY <1>3 DEF TypeOK
  <1>5. calls' \in [Threads -> Seq(Call)]
    BY <1>2, <1>3 DEF TypeOK
  <1> QED
    BY <1>2, <1>4, <1>5 DEF Top

LEMMA ReturnIs ==
    ASSUME TypeOK, NEW t \in Threads, calls[t] # <<>>, Return(t)
    PROVE  /\ calls' \in [Threads -> Seq(Call)]
           /\ Len(calls'[t]) = Top(t) - 1 /\ DOMAIN calls'[t] = DOMAIN calls[t] \ {Top(t)}
           /\ \A u \in Threads \ {t} : calls'[u] = calls[u]
           /\ \A i \in DOMAIN calls[t] \ {Top(t)} : calls'[t][i] = calls[t][i]
  <1> DEFINE f == Front(calls[t])
  <1>1. calls[t] \in Seq(Call) /\ Len(calls[t]) \in Nat \ {0} /\ DOMAIN calls[t] = 1 .. Len(calls[t])
    BY DEF TypeOK
  <1>2. /\ f \in Seq(Call) /\ Len(f) = Len(calls[t]) - 1
        /\ \A i \in 1 .. Len(calls[t]) - 1 : f[i] = calls[t][i]
    BY <1>1, Stack
  <1>3. calls' = [calls EXCEPT ![t] = f]
    BY DEF Return
  <1> HIDE DEF f
  <1>4. calls'[t] = f /\ \A u \in Threads \ {t} : calls'[u] = calls[u]
    BY <1>3 DEF TypeOK
  <1>5. calls' \in [Threads -> Seq(Call)]
    BY <1>2, <1>3 DEF TypeOK
  <1>6. DOMAIN f = DOMAIN calls[t] \ {Len(calls[t])}
    <2>1. DOMAIN f = 1 .. Len(f)
      BY <1>2
    <2> QED
      BY <1>1, <1>2, <2>1
  <1>7. \A i \in DOMAIN f : f[i] = calls[t][i]
    BY <1>1, <1>2
  <1> QED
    BY <1>1, <1>2, <1>4, <1>5, <1>6, <1>7 DEF Top

-----------------------------------------------------------------------------
(* Steps that deliver nothing.                                             *)

SameHand(c, d) == c.entry = d.entry /\ c.todo = d.todo

\* Calls go on with what they have in hand, begin with nothing, end with nothing.
Quiet ==
    /\ UNCHANGED <<accepted, delivered, owed, sinks>>
    /\ \A u \in Threads : \A i \in DOMAIN calls'[u] :
          \/ i \in DOMAIN calls[u] /\ SameHand(calls'[u][i], calls[u][i])
          \/ calls'[u][i].entry = NoEntry /\ DOMAIN calls'[u][i].todo = {}
    /\ \A u \in Threads : \A i \in DOMAIN calls[u] :
          \/ i \in DOMAIN calls'[u] /\ SameHand(calls'[u][i], calls[u][i])
          \/ DOMAIN calls[u][i].todo = {}

\* What the steps must keep beside the types, the stacks and the count.
HandOut ==
    /\ HeldInv /\ TodoInv /\ NumberInv /\ SinksInv
    /\ NoDuplicateDelivery /\ NothingDropped /\ SinkKeepsThreadOrder

LEMMA QuietKeeps ==
    ASSUME TypeOK, HandOut, Quiet
    PROVE  HandOut'
  <1> USE DEF HandOut
  <1>1. HeldInv'
    <2> SUFFICES ASSUME NEW u \in Threads, NEW i \in DOMAIN calls'[u],
                        calls'[u][i].entry # NoEntry
                 PROVE  LET e == calls'[u][i].entry
                        IN  /\ Logged(e, accepted') /\ e.by = u
                            /\ \A k \in e.id + 1 .. Len(accepted') :
                                  accepted'[k].by = u => accepted'[k].nested
                            /\ \A j \in DOMAIN calls'[u] : calls'[u][j].entry = e => i = j
      BY DEF HeldInv, Logged
    <2>1. i \in DOMAIN calls[u] /\ calls'[u][i].entry = calls[u][i].entry
      BY DEF Quiet, SameHand
    <2>2. \A j \in DOMAIN calls'[u] :
             calls'[u][j].entry # NoEntry =>
                j \in DOMAIN calls[u] /\ calls'[u][j].entry = calls[u][j].entry
      BY DEF Quiet, SameHand
    <2> QED
      BY <2>1, <2>2 DEF HeldInv, Logged, Quiet
  <1>2. TodoInv'
    BY DEF TodoInv, Owes, Quiet, SameHand, IsInjective
  <1>3. NumberInv' /\ SinksInv' /\ NoDuplicateDelivery' /\ SinkKeepsThreadOrder'
    BY DEF NumberInv, SinksInv, NoDuplicateDelivery, SinkKeepsThreadOrder, Logged, Quiet
  <1>4. NothingDropped'
    <2> SUFFICES ASSUME NEW pair \in owed,
                        NEW i \in DOMAIN calls[pair[1].by],
                        calls[pair[1].by][i].entry = pair[1],
                        NEW j \in DOMAIN calls[pair[1].by][i].todo,
                        calls[pair[1].by][i].todo[j] = pair[2]
                 PROVE  /\ i \in DOMAIN calls'[pair[1].by]
                        /\ calls'[pair[1].by][i].entry = pair[1]
                        /\ calls'[pair[1].by][i].todo = calls[pair[1].by][i].todo
      BY DEF NothingDropped, Quiet
    <2>1. pair[1].by \in Threads
      BY DEF TypeOK, Entry
    <2> QED
      BY <2>1 DEF Quiet, SameHand
  <1> QED
    BY <1>1, <1>2, <1>3, <1>4

-----------------------------------------------------------------------------
(* What a step of t leaves of the stacks and of those on their way.        *)

\* A call that has what its phase needs.
SoundCall(c) ==
    /\ c.phase \in {"enter", "locked"} <=> c.entry = NoEntry
    /\ c.entry = NoEntry => DOMAIN c.todo = {}

LEMMA BecomeStacks ==
    ASSUME TypeOK, StackInv, NEW t \in Threads, calls[t] # <<>>, NEW c \in Call,
           Become(t, c), SoundCall(c)
    PROVE  StackInv' /\ (t \in Pending' <=> c.phase \in {"enter", "locked"})
  <1>1. /\ \A u \in Threads : DOMAIN calls'[u] = DOMAIN calls[u] /\ Len(calls'[u]) = Len(calls[u])
        /\ calls'[t][Len(calls[t])] = c
        /\ \A u \in Threads \ {t} : calls'[u] = calls[u]
        /\ \A i \in DOMAIN calls[t] \ {Len(calls[t])} : calls'[t][i] = calls[t][i]
        /\ calls'[t] \in Seq(Call)
    BY BecomeIs DEF Top
  <1>2. Len(calls[t]) \in Nat \ {0}
    BY DEF TypeOK
  <1>3. StackInv'
    BY <1>1, <1>2 DEF StackInv, SoundCall
  <1>4. Last(calls'[t]) = c /\ calls'[t] # <<>>
    BY <1>1, <1>2 DEF Last
  <1>5. t \in Pending' <=> c.phase \in {"enter", "locked"}
    BY <1>4 DEF Pending, InPhase
  <1> QED
    BY <1>3, <1>5

LEMMA ReturnStacks ==
    ASSUME TypeOK, StackInv, NEW t \in Threads, calls[t] # <<>>, Return(t)
    PROVE  StackInv' /\ t \notin Pending'
  <1>1. /\ Len(calls'[t]) = Len(calls[t]) - 1
        /\ DOMAIN calls'[t] = DOMAIN calls[t] \ {Len(calls[t])}
        /\ \A u \in Threads \ {t} : calls'[u] = calls[u]
        /\ \A i \in DOMAIN calls[t] \ {Len(calls[t])} : calls'[t][i] = calls[t][i]
        /\ calls'[t] \in Seq(Call)
    BY ReturnIs DEF Top
  <1>2. Len(calls[t]) \in Nat \ {0} /\ DOMAIN calls[t] = 1 .. Len(calls[t])
    BY DEF TypeOK
  <1>3. StackInv'
    BY <1>1, <1>2 DEF StackInv
  <1>4. ASSUME calls'[t] # <<>>
        PROVE  Last(calls'[t]).phase = "calling"
    <2>1. Last(calls'[t]) = calls'[t][Len(calls'[t])] /\ Len(calls'[t]) \in DOMAIN calls'[t]
      BY <1>1, <1>4 DEF Last
    <2> QED
      BY <1>1, <1>2, <2>1 DEF StackInv
  <1>5. t \notin Pending'
    BY <1>4 DEF Pending, InPhase
  <1> QED
    BY <1>3, <1>5

LEMMA OthersPending ==
    ASSUME NEW t \in Threads, \A u \in Threads \ {t} : calls'[u] = calls[u]
    PROVE  Pending' \ {t} = Pending \ {t}
  BY DEF Pending, InPhase

LEMMA BecomePending ==
    ASSUME TypeOK, StackInv, NEW t \in Threads, calls[t] # <<>>, NEW c \in Call,
           Become(t, c), SoundCall(c)
    PROVE  Pending' = IF c.phase \in {"enter", "locked"} THEN Pending \cup {t} ELSE Pending \ {t}
  <1>1. \A u \in Threads \ {t} : calls'[u] = calls[u]
    BY BecomeIs
  <1> QED
    BY <1>1, OthersPending, BecomeStacks

LEMMA ReturnPending ==
    ASSUME TypeOK, StackInv, NEW t \in Threads, calls[t] # <<>>, Return(t)
    PROVE  Pending' = Pending \ {t}
  <1>1. \A u \in Threads \ {t} : calls'[u] = calls[u]
    BY ReturnIs
  <1> QED
    BY <1>1, OthersPending, ReturnStacks

\* t is not on its way to the mutex, now or after; or it was and has done with it.
LEMMA CountWithout ==
    ASSUME TypeOK, CountInv, NEW t \in Threads, Pending' = Pending \ {t},
           writes' = writes,
           \/ accepted' = accepted
           \/ t \in Pending /\ Len(accepted') = Len(accepted) + 1
    PROVE  CountInv'
  <1>1. /\ IsFiniteSet(Pending')
        /\ Cardinality(Pending')
              = IF t \in Pending THEN Cardinality(Pending) - 1 ELSE Cardinality(Pending)
    BY FS_RemoveElement DEF CountInv
  <1>2. Cardinality(Pending) \in Nat /\ Len(accepted) \in Nat /\ writes \in Nat
    BY FS_CardinalityType DEF CountInv, TypeOK
  <1> QED
    BY <1>1, <1>2 DEF CountInv

LEMMA CountWith ==
    ASSUME TypeOK, CountInv, NEW t \in Threads, Pending' = Pending \cup {t},
           accepted' = accepted,
           \/ t \in Pending /\ writes' = writes
           \/ writes' = writes + 1
    PROVE  CountInv'
  <1>1. /\ IsFiniteSet(Pending')
        /\ Cardinality(Pending')
              = IF t \in Pending THEN Cardinality(Pending) ELSE Cardinality(Pending) + 1
    BY FS_AddElement DEF CountInv
  <1>2. Cardinality(Pending) \in Nat /\ Len(accepted) \in Nat /\ writes \in Nat
    BY FS_CardinalityType DEF CountInv, TypeOK
  <1> QED
    BY <1>1, <1>2 DEF CountInv

\* A thread in the critical section has not used up its call.
LEMMA PendingRoom ==
    ASSUME TypeOK, CountInv, NEW t \in Pending
    PROVE  Len(accepted) + 1 \in 1 .. MaxWrites
  <1>1. Cardinality(Pending) \in Nat /\ Len(accepted) \in Nat /\ writes \in 0 .. MaxWrites
    BY FS_CardinalityType DEF CountInv, TypeOK
  <1>2. Cardinality(Pending) # 0
    BY FS_EmptySet DEF CountInv
  <1> QED
    BY <1>1, <1>2, LogAssumption DEF CountInv

-----------------------------------------------------------------------------
(* The steps.                                                              *)

LEMMA InvParts == DeliveryInv <=> TypeOK /\ StackInv /\ CountInv /\ HandOut
  BY DEF DeliveryInv, HandOut

LEMMA InvPartsNext == DeliveryInv' <=> TypeOK' /\ StackInv' /\ CountInv' /\ HandOut'
  BY DEF DeliveryInv, HandOut

LEMMA NoEntryIsNone == NoEntry \notin Entry /\ NoEntry.id = 0
  BY DEF NoEntry, Entry

LEMMA LogWriteStep ==
    ASSUME DeliveryInv, NEW t \in Threads, NEW l \in Levels, LogWrite(t, l)
    PROVE  DeliveryInv' /\ Quiet
  <1> USE InvParts
  <1> DEFINE c == CallOf("enter", l, NoEntry, <<>>)
             s == calls[t]
             g == Append(s, c)
  <1>1. c \in Call /\ c.phase = "enter" /\ c.entry = NoEntry /\ DOMAIN c.todo = {}
    BY NoSinks, CallOfIsCall
  <1>2. calls' = [calls EXCEPT ![t] = g]
    BY Zenon DEF LogWrite, CallOf
  <1> HIDE DEF c
  <1>3. s \in Seq(Call) /\ Len(s) \in Nat /\ DOMAIN s = 1 .. Len(s)
    BY DEF TypeOK
  <1>4. /\ g \in Seq(Call) /\ Len(g) = Len(s) + 1
        /\ g[Len(s) + 1] = c /\ \A i \in 1 .. Len(s) : g[i] = s[i]
    BY <1>1, <1>3
  <1> HIDE DEF g
  <1>5. DOMAIN g = 1 .. Len(s) + 1 /\ Last(g) = c /\ g # <<>>
    BY <1>3, <1>4 DEF Last
  <1>6. calls'[t] = g /\ \A u \in Threads \ {t} : calls'[u] = calls[u]
    BY <1>2 DEF TypeOK
  <1>7. TypeOK'
    <2>1. calls' \in [Threads -> Seq(Call)]
      BY <1>2, <1>4 DEF TypeOK
    <2>2. writes' \in 0 .. MaxWrites
      BY LogAssumption DEF LogWrite, TypeOK
    <2> QED
      BY <2>1, <2>2 DEF LogWrite, TypeOK, log
  <1>8. StackInv'
    <2>1. \A i \in DOMAIN s : s[i].phase = "calling"
      BY <1>3 DEF StackInv, LogWrite, InPhase, Last
    <2>2. \A u \in Threads \ {t} : StackInv => \A i \in DOMAIN calls'[u] :
             /\ i < Len(calls'[u]) => calls'[u][i].phase = "calling"
             /\ SoundCall(calls'[u][i])
      BY <1>6 DEF StackInv, SoundCall
    <2>3. \A i \in DOMAIN g :
             /\ i < Len(g) => g[i].phase = "calling"
             /\ SoundCall(g[i])
      BY <1>1, <1>3, <1>4, <1>5, <2>1 DEF StackInv, SoundCall
    <2> QED
      BY <1>6, <2>2, <2>3 DEF StackInv, SoundCall
  <1>9. Pending' = Pending \cup {t}
    BY <1>1, <1>5, <1>6, OthersPending DEF Pending, InPhase
  <1>10. CountInv'
    BY <1>9, CountWith DEF LogWrite
  <1>11. Quiet
    <2>1. UNCHANGED <<accepted, delivered, owed, sinks>>
      BY DEF LogWrite, log
    <2>2. \A i \in DOMAIN g : (i \in DOMAIN s /\ g[i] = s[i]) \/ g[i] = c
      BY <1>3, <1>4, <1>5
    <2>3. \A i \in DOMAIN s : i \in DOMAIN g /\ g[i] = s[i]
      BY <1>3, <1>4, <1>5
    <2> HIDE DEF s
    <2> QED
      BY <1>1, <1>6, <2>1, <2>2, <2>3 DEF Quiet, SameHand, s
  <1> QED
    BY <1>7, <1>8, <1>10, <1>11, QuietKeeps, InvPartsNext

LEMMA LockStep ==
    ASSUME DeliveryInv, NEW t \in Threads, Lock(t)
    PROVE  DeliveryInv' /\ Quiet
  <1> USE InvParts
  <1> DEFINE c == Last(calls[t])
             d == CallOf("locked", c.level, c.entry, c.todo)
  <1>1. InPhase(t, "enter") /\ calls[t] # <<>>
    BY DEF Lock, InPhase
  <1>2. c \in Call /\ c = calls[t][Top(t)] /\ c.phase = "enter" /\ Top(t) \in DOMAIN calls[t]
    BY <1>1, TopCall
  <1>3. Become(t, d)
    BY <1>2, CallForm, Zenon DEF Lock, InPhaseOf
  <1>4. d \in Call /\ d.phase = "locked" /\ SameHand(d, c)
    <2>1. c.level \in Levels /\ c.entry \in Entry \cup {NoEntry} /\ c.todo \in Copy
      BY <1>2, CallForm
    <2> QED
      BY <2>1, CallOfIsCall DEF SameHand
  <1>5. SoundCall(d)
    BY <1>2, <1>4 DEF StackInv, SoundCall, SameHand
  <1> HIDE DEF c, d
  <1>6. StackInv' /\ Pending' = Pending \cup {t} /\ t \in Pending
    BY <1>1, <1>3, <1>4, <1>5, BecomeStacks, BecomePending DEF Pending
  <1>7. /\ calls' \in [Threads -> Seq(Call)]
        /\ \A u \in Threads : DOMAIN calls'[u] = DOMAIN calls[u]
        /\ calls'[t][Top(t)] = d
        /\ \A u \in Threads \ {t} : calls'[u] = calls[u]
        /\ \A i \in DOMAIN calls[t] \ {Top(t)} : calls'[t][i] = calls[t][i]
    BY <1>1, <1>3, <1>4, BecomeIs
  <1>8. TypeOK'
    BY <1>7 DEF TypeOK, Lock, log
  <1>9. CountInv'
    BY <1>6, CountWith DEF Lock
  <1>10. Quiet
    <2>1. UNCHANGED <<accepted, delivered, owed, sinks>>
      BY DEF Lock, log
    <2> QED
      BY <1>2, <1>4, <1>7, <2>1 DEF Quiet, SameHand
  <1> QED
    BY <1>6, <1>8, <1>9, <1>10, QuietKeeps, InvPartsNext

\* The innermost call returns with nothing left to hand out.
LEMMA ReturnQuiet ==
    ASSUME DeliveryInv, NEW t \in Threads, calls[t] # <<>>, Return(t),
           DOMAIN calls[t][Top(t)].todo = {}, lock' \in Threads \cup {Nobody},
           UNCHANGED <<log, writes, accepted, delivered, owed>>
    PROVE  DeliveryInv' /\ Quiet
  <1> USE InvParts
  <1>1. StackInv' /\ Pending' = Pending \ {t}
    BY ReturnStacks, ReturnPending
  <1>2. /\ calls' \in [Threads -> Seq(Call)]
        /\ DOMAIN calls'[t] = DOMAIN calls[t] \ {Top(t)}
        /\ \A u \in Threads \ {t} : calls'[u] = calls[u]
        /\ \A i \in DOMAIN calls[t] \ {Top(t)} : calls'[t][i] = calls[t][i]
    BY ReturnIs
  <1>3. TypeOK'
    BY <1>2 DEF TypeOK, log
  <1>4. CountInv'
    BY <1>1, CountWithout
  <1>5. Quiet
    BY <1>2 DEF Quiet, SameHand, log
  <1> QED
    BY <1>1, <1>3, <1>4, <1>5, QuietKeeps, InvPartsNext

LEMMA RejectStep ==
    ASSUME DeliveryInv, NEW t \in Threads, Reject(t)
    PROVE  DeliveryInv' /\ Quiet
  <1>1. InPhase(t, "locked") /\ calls[t] # <<>>
    BY DEF Reject, InPhase
  <1>2. DOMAIN calls[t][Top(t)].todo = {}
    BY <1>1, TopCall, InvParts DEF StackInv
  <1> QED
    BY <1>1, <1>2, ReturnQuiet DEF Reject

LEMMA SinkReturnsStep ==
    ASSUME DeliveryInv, NEW t \in Threads, SinkReturns(t)
    PROVE  DeliveryInv' /\ Quiet
  <1> USE InvParts
  <1> DEFINE c == Last(calls[t])
             d == CallOf("notify", c.level, c.entry, c.todo)
  <1>1. InPhase(t, "calling") /\ calls[t] # <<>>
    BY DEF SinkReturns, InPhase
  <1>2. c \in Call /\ c = calls[t][Top(t)] /\ c.phase = "calling" /\ Top(t) \in DOMAIN calls[t]
    BY <1>1, TopCall
  <1>3. CASE DOMAIN c.todo = {}
    <2>1. Return(t) /\ lock' \in Threads \cup {Nobody}
      BY <1>3 DEF SinkReturns, TypeOK
    <2> QED
      BY <1>1, <1>2, <1>3, <2>1, ReturnQuiet DEF SinkReturns
  <1>4. CASE DOMAIN c.todo # {}
    <2>1. Become(t, d)
      BY <1>2, <1>4, CallForm, Zenon DEF SinkReturns, InPhaseOf
    <2>2. d \in Call /\ d.phase = "notify" /\ SameHand(d, c)
      <3>1. c.level \in Levels /\ c.entry \in Entry \cup {NoEntry} /\ c.todo \in Copy
        BY <1>2, CallForm
      <3> QED
        BY <3>1, CallOfIsCall DEF SameHand
    <2>3. SoundCall(d)
      BY <1>2, <2>2 DEF StackInv, SoundCall, SameHand
    <2> HIDE DEF c, d
    <2>4. StackInv' /\ Pending' = Pending \ {t}
      BY <1>1, <2>1, <2>2, <2>3, BecomeStacks, BecomePending
    <2>5. /\ calls' \in [Threads -> Seq(Call)]
          /\ \A u \in Threads : DOMAIN calls'[u] = DOMAIN calls[u]
          /\ calls'[t][Top(t)] = d
          /\ \A u \in Threads \ {t} : calls'[u] = calls[u]
          /\ \A i \in DOMAIN calls[t] \ {Top(t)} : calls'[t][i] = calls[t][i]
      BY <1>1, <2>1, <2>2, BecomeIs
    <2>6. TypeOK'
      BY <2>5 DEF TypeOK, SinkReturns, log
    <2>7. CountInv'
      BY <2>4, CountWithout DEF SinkReturns
    <2>8. Quiet
      <3>1. UNCHANGED <<accepted, delivered, owed, sinks>>
        BY DEF SinkReturns, log
      <3> QED
        BY <1>2, <2>2, <2>5, <3>1 DEF Quiet, SameHand
    <2> QED
      BY <2>4, <2>6, <2>7, <2>8, QuietKeeps, InvPartsNext
  <1> QED
    BY <1>3, <1>4

-----------------------------------------------------------------------------
(* The step that accepts an entry.                                         *)

\* Only the innermost call of t goes on, as d, or it is gone.
Replaced(t, d) ==
    /\ \A u \in Threads : \A i \in DOMAIN calls'[u] :
          \/ u = t /\ i = Top(t) /\ calls'[u][i] = d
          \/ i \in DOMAIN calls[u] /\ calls'[u][i] = calls[u][i] /\ ~(u = t /\ i = Top(t))
    /\ \A u \in Threads : \A i \in DOMAIN calls[u] :
          \/ u = t /\ i = Top(t)
          \/ i \in DOMAIN calls'[u] /\ calls'[u][i] = calls[u][i]

LEMMA BecomeReplaces ==
    ASSUME TypeOK, NEW t \in Threads, calls[t] # <<>>, NEW c \in Call, Become(t, c)
    PROVE  /\ Replaced(t, c)
           /\ Top(t) \in DOMAIN calls'[t] /\ calls'[t][Top(t)] = c
  <1>1. Top(t) \in DOMAIN calls[t]
    BY DEF TypeOK, Top
  <1> QED
    BY <1>1, BecomeIs DEF Replaced

LEMMA ReturnReplaces ==
    ASSUME TypeOK, NEW t \in Threads, calls[t] # <<>>, Return(t), NEW d
    PROVE  Replaced(t, d)
  BY ReturnIs DEF Replaced

\* sinks_copy has each registered sink once.
LEMMA SinksCopyIs ==
    ASSUME TypeOK, SinksInv
    PROVE  /\ SinksCopy \in Copy /\ IsInjective(SinksCopy)
           /\ \A i \in DOMAIN sinks : sinks[i] # Nobody =>
                 i \in DOMAIN SinksCopy /\ SinksCopy[i] = sinks[i]
  <1> DEFINE D == {i \in DOMAIN sinks : sinks[i] # Nobody}
  <1>1. D \in SUBSET (1 .. MaxSinks) /\ \A i \in D : sinks[i] \in Sinks
    BY DEF TypeOK
  <1>2. SinksCopy = [i \in D |-> sinks[i]]
    BY DEF SinksCopy, Restrict
  <1>3. SinksCopy \in [D -> Sinks]
    BY <1>1, <1>2
  <1>4. SinksCopy \in Copy
    BY <1>1, <1>3 DEF Copy
  <1>5. IsInjective(SinksCopy)
    BY <1>2 DEF SinksInv, IsInjective
  <1> QED
    BY <1>2, <1>4, <1>5

LEMMA AcceptKeeps ==
    ASSUME TypeOK, StackInv, HandOut, NEW t \in Threads, NEW e \in Entry, NEW d \in Call,
           calls[t] # <<>>, calls[t][Top(t)].entry = NoEntry,
           e.id = Len(accepted) + 1, e.by = t, e.nested = InSink(t),
           accepted' = Append(accepted, e), UNCHANGED <<sinks, delivered>>,
           owed' = owed \cup {<<e, sinks[i]>> : i \in {j \in DOMAIN sinks : sinks[j] # Nobody}},
           d.entry = e, d.todo = SinksCopy, Replaced(t, d),
           \/ DOMAIN SinksCopy = {}
           \/ Top(t) \in DOMAIN calls'[t] /\ calls'[t][Top(t)] = d
    PROVE  HandOut'
  <1> USE DEF HandOut
  <1> DEFINE n == Len(accepted)
  <1>1. /\ n \in Nat /\ Len(accepted') = n + 1 /\ accepted'[n + 1] = e
        /\ \A k \in 1 .. n : accepted'[k] = accepted[k]
    BY DEF TypeOK
  <1>2. Len(calls[t]) \in Nat \ {0} /\ DOMAIN calls[t] = 1 .. Len(calls[t])
    BY DEF TypeOK
  <1>3. ASSUME NEW x, Logged(x, accepted)
        PROVE  Logged(x, accepted') /\ x # e
    BY <1>1, <1>3 DEF Logged
  <1>4. Logged(e, accepted') /\ e # NoEntry
    BY <1>1, NoEntryIsNone DEF Logged
  <1>5. ASSUME NEW u \in Threads, NEW i \in DOMAIN calls[u], calls[u][i].entry # NoEntry
        PROVE  LET x == calls[u][i].entry
               IN  /\ Logged(x, accepted') /\ x.by = u /\ x # e
                   /\ \A k \in x.id + 1 .. Len(accepted') :
                         accepted'[k].by = u => accepted'[k].nested
    <2> DEFINE x == calls[u][i].entry
    <2>1. /\ Logged(x, accepted) /\ x.by = u
          /\ \A k \in x.id + 1 .. n : accepted[k].by = u => accepted[k].nested
      BY <1>5 DEF HeldInv
    <2>2. u = t => e.nested
      <3> SUFFICES ASSUME u = t PROVE InSink(t)
        OBVIOUS
      <3>1. i # Len(calls[t])
        BY <1>5 DEF Top
      <3>2. calls[t][i].phase = "calling"
        BY <1>2, <3>1 DEF StackInv
      <3> QED
        BY <3>2 DEF InSink
    <2>3. x.id \in 1 .. n
      BY <2>1 DEF Logged
    <2>4. ASSUME NEW k \in x.id + 1 .. Len(accepted'), accepted'[k].by = u
          PROVE  accepted'[k].nested
      <3>1. CASE k = n + 1
        BY <1>1, <2>2, <2>4, <3>1
      <3>2. CASE k # n + 1
        <4>1. k \in x.id + 1 .. n /\ k \in 1 .. n
          BY <1>1, <2>3, <3>2
        <4> QED
          BY <1>1, <2>1, <2>4, <4>1
      <3> QED
        BY <3>1, <3>2
    <2> QED
      BY <1>3, <2>1, <2>4
  <1>6. HeldInv'
    <2> SUFFICES ASSUME NEW u \in Threads, NEW i \in DOMAIN calls'[u],
                        calls'[u][i].entry # NoEntry
                 PROVE  LET x == calls'[u][i].entry
                        IN  /\ Logged(x, accepted') /\ x.by = u
                            /\ \A k \in x.id + 1 .. Len(accepted') :
                                  accepted'[k].by = u => accepted'[k].nested
                            /\ \A j \in DOMAIN calls'[u] : calls'[u][j].entry = x => i = j
      BY DEF HeldInv, Logged
    <2>1. CASE u = t /\ i = Top(t) /\ calls'[u][i] = d
      <3>1. \A k \in e.id + 1 .. Len(accepted') : FALSE
        BY <1>1
      <3>2. \A j \in DOMAIN calls'[u] : calls'[u][j].entry = e => i = j
        BY <1>4, <1>5, <2>1 DEF Replaced
      <3> QED
        BY <1>4, <2>1, <3>1, <3>2
    <2>2. CASE i \in DOMAIN calls[u] /\ calls'[u][i] = calls[u][i]
      <3>1. calls[u][i].entry # NoEntry /\ calls[u][i].entry # e
        BY <1>5, <2>2
      <3>2. ASSUME NEW j \in DOMAIN calls'[u], calls'[u][j].entry = calls[u][i].entry
            PROVE  i = j
        <4>1. j \in DOMAIN calls[u] /\ calls[u][j].entry = calls[u][i].entry
          BY <3>1, <3>2 DEF Replaced
        <4> QED
          BY <2>2, <3>1, <4>1 DEF HeldInv
      <3>3. /\ Logged(calls[u][i].entry, accepted') /\ calls[u][i].entry.by = u
            /\ \A k \in calls[u][i].entry.id + 1 .. Len(accepted') :
                  accepted'[k].by = u => accepted'[k].nested
        BY <1>5, <2>2, <3>1
      <3> QED
        BY <2>2, <3>2, <3>3
    <2>3. \/ u = t /\ i = Top(t) /\ calls'[u][i] = d
          \/ i \in DOMAIN calls[u] /\ calls'[u][i] = calls[u][i]
      BY DEF Replaced
    <2> QED
      BY <2>1, <2>2, <2>3
  <1>7. NumberInv'
    <2>1. \A k \in 1 .. Len(accepted') : accepted'[k].id = k
      BY <1>1 DEF NumberInv
    <2>2. \A s \in Sinks : \A k \in DOMAIN delivered'[s] : Logged(delivered'[s][k], accepted')
      BY <1>3 DEF NumberInv
    <2> QED
      BY <2>1, <2>2 DEF NumberInv, Logged
  <1>8. TodoInv'
    <2>1. IsInjective(d.todo) /\ \A j \in DOMAIN d.todo : d.todo[j] \in Sinks
      BY SinksCopyIs, CallForm, CopyForm
    <2>2. \A s \in Sinks : \A k \in DOMAIN delivered[s] : delivered[s][k] # e
      BY <1>3 DEF NumberInv
    <2>3. Owes(d, delivered)
      BY <2>1, <2>2 DEF Owes
    <2> QED
      BY <2>3 DEF TodoInv, Replaced
  <1>9. NothingDropped'
    <2> SUFFICES ASSUME NEW pair \in owed',
                        ~ \E i \in DOMAIN delivered[pair[2]] : delivered[pair[2]][i] = pair[1]
                 PROVE  \E i \in DOMAIN calls'[pair[1].by] :
                           LET c == calls'[pair[1].by][i]
                           IN  c.entry = pair[1] /\ \E j \in DOMAIN c.todo : c.todo[j] = pair[2]
      BY DEF NothingDropped
    <2>1. CASE pair \in owed
      <3>1. PICK i \in DOMAIN calls[pair[1].by] :
               LET c == calls[pair[1].by][i]
               IN  c.entry = pair[1] /\ \E j \in DOMAIN c.todo : c.todo[j] = pair[2]
        BY <2>1 DEF NothingDropped
      <3>2. pair[1].by \in Threads /\ pair[1] # NoEntry
        BY <2>1, NoEntryIsNone DEF TypeOK, Entry
      <3>3. i \in DOMAIN calls'[pair[1].by] /\ calls'[pair[1].by][i] = calls[pair[1].by][i]
        BY <3>1, <3>2 DEF Replaced
      <3> QED
        BY <3>1, <3>3
    <2>2. CASE pair \notin owed
      <3>1. PICK i \in DOMAIN sinks : sinks[i] # Nobody /\ pair = <<e, sinks[i]>>
        BY <2>2
      <3>2. i \in DOMAIN SinksCopy /\ SinksCopy[i] = sinks[i]
        BY <3>1, SinksCopyIs
      <3>3. Top(t) \in DOMAIN calls'[t] /\ calls'[t][Top(t)] = d
        BY <3>2
      <3> QED
        BY <3>1, <3>2, <3>3
    <2> QED
      BY <2>1, <2>2
  <1>10. SinksInv' /\ NoDuplicateDelivery' /\ SinkKeepsThreadOrder'
    BY DEF SinksInv, NoDuplicateDelivery, SinkKeepsThreadOrder
  <1> QED
    BY <1>6, <1>7, <1>8, <1>9, <1>10

LEMMA EntryForm ==
    ASSUME NEW i \in 1 .. MaxWrites, NEW t \in Threads, NEW l \in Levels, NEW b \in BOOLEAN
    PROVE  LET e == [id |-> i, by |-> t, level |-> l, nested |-> b]
           IN  e \in Entry /\ e.id = i /\ e.by = t /\ e.nested = b
  BY DEF Entry

\* t accepts e and goes on with d, or returns.
Accepts(t, e, d) ==
    /\ e.by = t /\ e.id = Len(accepted) + 1
    /\ accepted' = Append(accepted, e)
    /\ owed' = owed \cup {<<e, sinks[i]>> : i \in {j \in DOMAIN sinks : sinks[j] # Nobody}}
    /\ UNCHANGED <<delivered, sinks>>
    /\ Top(t) \in DOMAIN calls[t] /\ calls[t][Top(t)].entry = NoEntry
    /\ Replaced(t, d)
    /\ \/ DOMAIN SinksCopy = {}
       \/ Top(t) \in DOMAIN calls'[t] /\ calls'[t][Top(t)] = d
    /\ d.entry = e /\ d.todo = SinksCopy

LEMMA AcceptStep ==
    ASSUME DeliveryInv, NEW t \in Threads, Accept(t)
    PROVE  DeliveryInv' /\ \E e \in Entry, d \in Call : Accepts(t, e, d)
  <1> USE InvParts
  <1> DEFINE c == Last(calls[t])
             e == [id |-> Len(accepted) + 1, by |-> t, level |-> c.level,
                   nested |-> InSink(t)]
             d == CallOf("notify", c.level, e, SinksCopy)
  <1>1. InPhase(t, "locked") /\ calls[t] # <<>> /\ t \in Pending
    BY DEF Accept, InPhase, Pending
  <1>2. c \in Call /\ c = calls[t][Top(t)] /\ c.phase = "locked" /\ Top(t) \in DOMAIN calls[t]
    BY <1>1, TopCall
  <1>3. c.level \in Levels /\ c.entry = NoEntry
    BY <1>2, CallForm DEF StackInv
  <1>4. e \in Entry /\ e.id = Len(accepted) + 1 /\ e.by = t /\ e.nested = InSink(t)
    <2>1. Len(accepted) + 1 \in 1 .. MaxWrites
      BY <1>1, PendingRoom
    <2>2. InSink(t) \in BOOLEAN
      BY DEF InSink
    <2> HIDE DEF c
    <2> QED
      BY <1>3, <2>1, <2>2, EntryForm
  <1>5. /\ Become(t, d) \/ (DOMAIN SinksCopy = {} /\ Return(t))
        /\ history' = [history EXCEPT ![history_next] = e]
        /\ history_next' = Slot(history_next + 1)
        /\ accepted' = Append(accepted, e)
        /\ owed' = owed \cup {<<e, sinks[i]>> : i \in {j \in DOMAIN sinks : sinks[j] # Nobody}}
        /\ UNCHANGED <<level, sinks, writes, delivered>>
        /\ lock' = Nobody /\ history_count' = CountNext
    <2>1. Notifying(c, e, SinksCopy) = d
      BY <1>2, CallForm, Zenon
    <2> QED
      BY <2>1, Zenon DEF Accept, Notifying, Slot
  <1> HIDE DEF e, c
  <1>6. SinksCopy \in Copy /\ \A i \in DOMAIN sinks : sinks[i] # Nobody => sinks[i] \in Sinks
    BY SinksCopyIs DEF HandOut, TypeOK
  <1>7. d \in Call /\ d.phase = "notify" /\ d.entry = e /\ d.todo = SinksCopy
    BY <1>3, <1>4, <1>6, CallOfIsCall
  <1>8. SoundCall(d)
    BY <1>4, <1>7, NoEntryIsNone DEF SoundCall
  <1> HIDE DEF d
  <1>9. StackInv' /\ Pending' = Pending \ {t} /\ calls' \in [Threads -> Seq(Call)]
    BY <1>1, <1>5, <1>7, <1>8, BecomeStacks, BecomePending, BecomeIs, ReturnStacks,
       ReturnPending, ReturnIs
  <1>10. /\ Replaced(t, d)
         /\ \/ DOMAIN SinksCopy = {}
            \/ Top(t) \in DOMAIN calls'[t] /\ calls'[t][Top(t)] = d
    BY <1>1, <1>5, <1>7, BecomeReplaces, ReturnReplaces
  <1>11. TypeOK'
    <2>1. history' \in [0 .. Capacity - 1 -> Entry \cup {NoEntry}]
      BY <1>4, <1>5 DEF TypeOK
    <2>2. history_next' \in 0 .. Capacity - 1
      BY <1>5, LogAssumption, BackFromNext DEF TypeOK
    <2>3. history_count' \in 0 .. Capacity
      BY <1>5, LogAssumption DEF TypeOK, CountNext
    <2>4. accepted' \in Seq(Entry)
      BY <1>4, <1>5 DEF TypeOK
    <2>5. owed' \subseteq Entry \X Sinks
      BY <1>4, <1>5, <1>6 DEF TypeOK
    <2> QED
      BY <1>5, <1>9, <2>1, <2>2, <2>3, <2>4, <2>5 DEF TypeOK
  <1>12. CountInv'
    <2>1. Len(accepted') = Len(accepted) + 1
      BY <1>5 DEF TypeOK
    <2> QED
      BY <1>1, <1>5, <1>9, <2>1, CountWithout
  <1>13. HandOut'
    BY <1>1, <1>2, <1>3, <1>4, <1>5, <1>7, <1>10, AcceptKeeps
  <1>14. Accepts(t, e, d)
    BY <1>2, <1>3, <1>4, <1>5, <1>7, <1>10 DEF Accepts
  <1> QED
    BY <1>4, <1>7, <1>9, <1>11, <1>12, <1>13, <1>14, InvPartsNext

-----------------------------------------------------------------------------
(* The step that calls a sink.                                             *)

InThreadOrder(received) ==
    \A i, j \in DOMAIN received :
        i < j /\ received[i].by = received[j].by /\ ~received[i].nested
        => received[i].id < received[j].id

LEMMA ThreadOrderNext ==
    ASSUME \A s \in Sinks : InThreadOrder(delivered'[s])
    PROVE  SinkKeepsThreadOrder'
  BY DEF SinkKeepsThreadOrder, InThreadOrder

\* What is left of a copy without the sink called.
LEMMA WithoutOne ==
    ASSUME NEW f, IsInjective(f), NEW i \in DOMAIN f,
           NEW g, g = Restrict(f, DOMAIN f \ {i})
    PROVE  /\ IsInjective(g)
           /\ \A j \in DOMAIN g : j \in DOMAIN f /\ g[j] = f[j] /\ g[j] # f[i]
  BY DEF IsInjective, Restrict

LEMMA CallSinkKeeps ==
    ASSUME TypeOK, HandOut, NEW t \in Threads, NEW c \in Call, NEW i \in DOMAIN c.todo,
           NEW d \in Call,
           Top(t) \in DOMAIN calls[t], calls[t][Top(t)] = c, c.entry # NoEntry,
           delivered' = [delivered EXCEPT ![c.todo[i]] = Append(@, c.entry)],
           UNCHANGED <<accepted, owed, sinks>>,
           d.entry = c.entry, d.todo = Restrict(c.todo, DOMAIN c.todo \ {i}),
           Replaced(t, d), Top(t) \in DOMAIN calls'[t], calls'[t][Top(t)] = d
    PROVE  HandOut'
  <1> USE DEF HandOut
  <1> DEFINE s == c.todo[i]
             e == c.entry
             got == delivered[s]
  <1>1. s \in Sinks /\ \A j \in DOMAIN c.todo : c.todo[j] \in Sinks
    BY CallForm, CopyForm
  <1>2. got \in Seq(Entry) /\ Len(got) \in Nat /\ DOMAIN got = 1 .. Len(got)
    BY <1>1 DEF TypeOK
  <1>3. e \in Entry
    BY CallForm
  <1>4. /\ \A r \in Sinks \ {s} : delivered'[r] = delivered[r]
        /\ delivered'[s] = Append(got, e)
    BY <1>1 DEF TypeOK
  <1>5. /\ Len(delivered'[s]) = Len(got) + 1 /\ delivered'[s][Len(got) + 1] = e
        /\ \A k \in DOMAIN got : delivered'[s][k] = got[k]
        /\ DOMAIN delivered'[s] = DOMAIN got \cup {Len(got) + 1}
    <2> DEFINE g == Append(got, e)
    <2>1. g \in Seq(Entry) /\ Len(g) = Len(got) + 1 /\ g[Len(got) + 1] = e
          /\ \A k \in 1 .. Len(got) : g[k] = got[k]
      BY <1>2, <1>3
    <2> HIDE DEF g
    <2>2. DOMAIN g = 1 .. Len(got) + 1
      BY <1>2, <2>1
    <2> QED
      BY <1>2, <1>4, <2>1, <2>2 DEF g
  <1>6. /\ Logged(e, accepted) /\ e.by = t
        /\ \A k \in e.id + 1 .. Len(accepted) : accepted[k].by = t => accepted[k].nested
    BY DEF HeldInv
  <1>7. Owes(c, delivered)
    BY DEF TodoInv
  <1>8. \A k \in DOMAIN got : got[k] # e
    BY <1>7 DEF Owes
  <1>9. \A k \in DOMAIN got : Logged(got[k], accepted)
    BY <1>1 DEF NumberInv
  <1> HIDE DEF s, e, got
  <1>10. HeldInv'
    <2> SUFFICES ASSUME NEW u \in Threads, NEW j \in DOMAIN calls'[u],
                        calls'[u][j].entry # NoEntry
                 PROVE  LET x == calls'[u][j].entry
                        IN  /\ Logged(x, accepted) /\ x.by = u
                            /\ \A k \in x.id + 1 .. Len(accepted) :
                                  accepted[k].by = u => accepted[k].nested
                            /\ \A m \in DOMAIN calls'[u] : calls'[u][m].entry = x => j = m
      BY DEF HeldInv, Logged
    <2>1. \A m \in DOMAIN calls'[u] :
             m \in DOMAIN calls[u] /\ calls'[u][m].entry = calls[u][m].entry
      BY DEF Replaced
    <2> QED
      BY <2>1 DEF HeldInv
  <1>11. TodoInv'
    <2>1. Owes(d, delivered')
      <3>1. /\ IsInjective(d.todo)
            /\ \A j \in DOMAIN d.todo :
                  j \in DOMAIN c.todo /\ d.todo[j] = c.todo[j] /\ d.todo[j] # s
        BY <1>7, WithoutOne DEF Owes, s
      <3>2. \A j \in DOMAIN d.todo : delivered'[d.todo[j]] = delivered[d.todo[j]]
        BY <1>1, <1>4, <3>1
      <3>3. \A j \in DOMAIN c.todo : \A k \in DOMAIN delivered[c.todo[j]] :
               delivered[c.todo[j]][k] # d.entry
        BY <1>7 DEF Owes
      <3>4. ASSUME NEW j \in DOMAIN d.todo
            PROVE  \A k \in DOMAIN delivered'[d.todo[j]] : delivered'[d.todo[j]][k] # d.entry
        <4> DEFINE r == c.todo[j]
        <4>1. d.todo[j] = r /\ delivered'[r] = delivered[r] /\ j \in DOMAIN c.todo
          BY <3>1, <3>2
        <4>2. \A k \in DOMAIN delivered[r] : delivered[r][k] # d.entry
          BY <3>3, <4>1
        <4> HIDE DEF r
        <4> QED
          BY <4>1, <4>2
      <3> QED
        BY <3>1, <3>4 DEF Owes
    <2>2. ASSUME NEW u \in Threads, NEW j \in DOMAIN calls[u], ~(u = t /\ j = Top(t))
          PROVE  Owes(calls[u][j], delivered')
      <3> DEFINE b == calls[u][j]
      <3>1. Owes(b, delivered) /\ b \in Call
        BY CallsTyped DEF TodoInv
      <3>2. b.entry # e
        BY <1>6, <2>2 DEF HeldInv, e
      <3>3. ASSUME NEW m \in DOMAIN b.todo, NEW k \in DOMAIN delivered'[b.todo[m]]
            PROVE  delivered'[b.todo[m]][k] # b.entry
        <4>1. b.todo[m] \in Sinks
          BY <3>1, CallForm, CopyForm
        <4>2. CASE b.todo[m] = s
          <5>1. delivered'[s][k] = e \/ (k \in DOMAIN got /\ delivered'[s][k] = got[k])
            BY <1>5, <3>3, <4>2
          <5>2. \A x \in DOMAIN got : got[x] # b.entry
            BY <3>1, <4>2 DEF Owes, got
          <5> QED
            BY <3>2, <4>2, <5>1, <5>2
        <4>3. CASE b.todo[m] # s
          BY <1>4, <3>1, <3>3, <4>1, <4>3 DEF Owes
        <4> QED
          BY <4>2, <4>3
      <3> QED
        BY <3>1, <3>3 DEF Owes
    <2> QED
      BY <2>1, <2>2 DEF TodoInv, Replaced
  <1>12. NumberInv'
    <2>1. \A k \in DOMAIN delivered'[s] : Logged(delivered'[s][k], accepted)
      BY <1>5, <1>6, <1>9
    <2>2. \A r \in Sinks \ {s} : \A k \in DOMAIN delivered'[r] : Logged(delivered'[r][k], accepted)
      BY <1>4 DEF NumberInv
    <2> QED
      BY <2>1, <2>2 DEF NumberInv, Logged
  <1>13. NoDuplicateDelivery'
    <2>1. IsInjective(delivered'[s])
      BY <1>1, <1>5, <1>8 DEF NoDuplicateDelivery, IsInjective, got
    <2> QED
      BY <1>4, <2>1 DEF NoDuplicateDelivery
  <1>14. SinkKeepsThreadOrder'
    <2>a. \A r \in Sinks : InThreadOrder(delivered[r])
      BY DEF SinkKeepsThreadOrder, InThreadOrder
    <2>b. \A r \in Sinks \ {s} : InThreadOrder(delivered'[r])
      BY <1>4, <2>a
    <2> SUFFICES ASSUME NEW j \in DOMAIN delivered'[s], NEW k \in DOMAIN delivered'[s],
                        j < k, delivered'[s][j].by = delivered'[s][k].by,
                        ~delivered'[s][j].nested
                 PROVE  delivered'[s][j].id < delivered'[s][k].id
      <3>1. InThreadOrder(delivered'[s])
        BY DEF InThreadOrder
      <3> QED
        BY <2>b, <3>1, ThreadOrderNext
    <2>1. j \in DOMAIN got /\ delivered'[s][j] = got[j]
      BY <1>2, <1>5
    <2>2. CASE k \in DOMAIN got
      BY <1>1, <1>5, <2>1, <2>2, <2>a DEF InThreadOrder, got
    <2>3. CASE k = Len(got) + 1
      <3> DEFINE x == got[j]
      <3>1. x.by = t /\ ~x.nested /\ x # e
        BY <1>5, <1>6, <1>8, <2>1, <2>3
      <3>2. x.id \in 1 .. Len(accepted) /\ accepted[x.id] = x
        BY <1>9, <2>1 DEF Logged
      <3>3. e.id \in 1 .. Len(accepted) /\ accepted[e.id] = e
        BY <1>6 DEF Logged
      <3>4. Len(accepted) \in Nat
        BY DEF TypeOK
      <3>5. x.id # e.id
        BY <3>1, <3>2, <3>3
      <3>6. x.id \notin e.id + 1 .. Len(accepted)
        BY <1>6, <3>1, <3>2
      <3>7. x.id < e.id
        BY <3>2, <3>3, <3>4, <3>5, <3>6
      <3> QED
        BY <1>5, <2>1, <2>3, <3>7
    <2> QED
      BY <1>5, <2>2, <2>3
  <1>15. NothingDropped'
    <2> SUFFICES ASSUME NEW pair \in owed
                 PROVE  \/ \E k \in DOMAIN delivered'[pair[2]] : delivered'[pair[2]][k] = pair[1]
                        \/ \E j \in DOMAIN calls'[pair[1].by] :
                              LET b == calls'[pair[1].by][j]
                              IN  b.entry = pair[1] /\ \E m \in DOMAIN b.todo : b.todo[m] = pair[2]
      BY DEF NothingDropped
    <2>1. pair[1].by \in Threads /\ pair[2] \in Sinks
      BY DEF TypeOK, Entry
    <2>2. CASE \E k \in DOMAIN delivered[pair[2]] : delivered[pair[2]][k] = pair[1]
      BY <1>4, <1>5, <2>1, <2>2 DEF got
    <2>3. CASE \E j \in DOMAIN calls[pair[1].by] :
                  LET b == calls[pair[1].by][j]
                  IN  b.entry = pair[1] /\ \E m \in DOMAIN b.todo : b.todo[m] = pair[2]
      <3>1. PICK j \in DOMAIN calls[pair[1].by] :
               LET b == calls[pair[1].by][j]
               IN  b.entry = pair[1] /\ \E m \in DOMAIN b.todo : b.todo[m] = pair[2]
        BY <2>3
      <3>2. CASE pair[1].by = t /\ j = Top(t)
        <4>1. PICK m \in DOMAIN c.todo : c.todo[m] = pair[2]
          BY <3>1, <3>2
        <4>2. pair[1] = e
          BY <3>1, <3>2 DEF e
        <4>3. CASE m = i
          BY <1>5, <4>1, <4>2, <4>3 DEF s
        <4>4. CASE m # i
          <5>1. m \in DOMAIN d.todo /\ d.todo[m] = pair[2]
            BY <4>1, <4>4 DEF Restrict
          <5> QED
            BY <3>2, <4>2, <5>1 DEF e
        <4> QED
          BY <4>3, <4>4
      <3>3. CASE ~(pair[1].by = t /\ j = Top(t))
        <4>1. j \in DOMAIN calls'[pair[1].by] /\ calls'[pair[1].by][j] = calls[pair[1].by][j]
          BY <2>1, <3>3 DEF Replaced
        <4> QED
          BY <3>1, <4>1
      <3> QED
        BY <3>2, <3>3
    <2> QED
      BY <2>2, <2>3 DEF NothingDropped
  <1>16. SinksInv'
    BY DEF SinksInv
  <1> QED
    BY <1>10, <1>11, <1>12, <1>13, <1>14, <1>15, <1>16

\* t calls the sink at slot i of its call c and goes on with d.
Calls(t, c, i, d) ==
    /\ c = Last(calls[t]) /\ c.entry \in Entry
    /\ Top(t) \in DOMAIN calls[t] /\ calls[t][Top(t)] = c
    /\ delivered' = [delivered EXCEPT ![c.todo[i]] = Append(@, c.entry)]
    /\ UNCHANGED <<accepted, sinks, owed>>
    /\ Replaced(t, d)
    /\ d.entry = c.entry /\ d.todo = Restrict(c.todo, DOMAIN c.todo \ {i})

LEMMA CallSinkStep ==
    ASSUME DeliveryInv, NEW t \in Threads, CallSink(t)
    PROVE  DeliveryInv' /\ \E c \in Call : \E i \in DOMAIN c.todo, d \in Call : Calls(t, c, i, d)
  <1> USE InvParts
  <1> DEFINE c == Last(calls[t])
  <1>1. InPhase(t, "notify") /\ calls[t] # <<>>
    BY DEF CallSink, InPhase
  <1>2. c \in Call /\ c = calls[t][Top(t)] /\ c.phase = "notify" /\ Top(t) \in DOMAIN calls[t]
    BY <1>1, TopCall
  <1>3. c.entry # NoEntry
    BY <1>2 DEF StackInv
  <1>4. PICK i \in DOMAIN c.todo :
           /\ delivered' = [delivered EXCEPT ![c.todo[i]] = Append(@, c.entry)]
           /\ Become(t, Calling(c, i))
    BY Zenon DEF CallSink, Calling
  <1>5. UNCHANGED <<lock, log, writes, accepted, owed>>
    BY DEF CallSink
  <1> DEFINE d == CallOf("calling", c.level, c.entry, Restrict(c.todo, DOMAIN c.todo \ {i}))
  <1> HIDE DEF c
  <1>6. /\ c.level \in Levels /\ c.entry \in Entry /\ c.todo \in Copy /\ Calling(c, i) = d
        /\ c.todo[i] \in Sinks
    BY <1>2, <1>3, CallForm, CopyForm
  <1>7. Restrict(c.todo, DOMAIN c.todo \ {i}) \in Copy
    BY <1>6, CopyForm
  <1>8. /\ d \in Call /\ d.phase = "calling" /\ d.entry = c.entry
        /\ d.todo = Restrict(c.todo, DOMAIN c.todo \ {i})
    BY <1>6, <1>7, CallOfIsCall
  <1> HIDE DEF d
  <1>9. SoundCall(d) /\ Become(t, d)
    BY <1>3, <1>4, <1>6, <1>8 DEF SoundCall
  <1>10. StackInv' /\ Pending' = Pending \ {t} /\ calls' \in [Threads -> Seq(Call)]
    BY <1>1, <1>8, <1>9, BecomeStacks, BecomePending, BecomeIs
  <1>11. Replaced(t, d) /\ Top(t) \in DOMAIN calls'[t] /\ calls'[t][Top(t)] = d
    BY <1>1, <1>8, <1>9, BecomeReplaces
  <1>12. TypeOK'
    <2>1. delivered' \in [Sinks -> Seq(Entry)]
      BY <1>4, <1>6 DEF TypeOK
    <2> QED
      BY <1>5, <1>10, <2>1 DEF TypeOK, log
  <1>13. CountInv'
    BY <1>5, <1>10, CountWithout
  <1>14. HandOut'
    <2>1. UNCHANGED <<accepted, owed, sinks>>
      BY <1>5 DEF log
    <2> QED
      BY <1>2, <1>3, <1>4, <1>8, <1>11, <2>1, CallSinkKeeps
  <1>15. Calls(t, c, i, d)
    BY <1>1, <1>2, <1>4, <1>5, <1>6, <1>8, <1>11 DEF Calls, log, c
  <1> QED
    BY <1>2, <1>8, <1>10, <1>12, <1>13, <1>14, <1>15, InvPartsNext

-----------------------------------------------------------------------------
(* The other operations, and the theorems.                                 *)

\* An operation that concerns no call keeps what it leaves alone.
LEMMA TableStep ==
    ASSUME DeliveryInv, UNCHANGED <<calls, writes, accepted, delivered, owed>>,
           TypeOK', SinksInv'
    PROVE  DeliveryInv'
  BY DEF DeliveryInv, StackInv, HeldInv, TodoInv, NumberInv, CountInv, Pending, InPhase,
         NoDuplicateDelivery, NothingDropped, SinkKeepsThreadOrder

LEMMA LogInitStep ==
    ASSUME DeliveryInv, NEW l \in Levels, LogInit(l)
    PROVE  DeliveryInv'
  <1>1. TypeOK' /\ SinksInv'
    BY DEF LogInit, DeliveryInv, TypeOK, SinksInv
  <1> QED
    BY <1>1, TableStep DEF LogInit

LEMMA LogAddSinkStep ==
    ASSUME DeliveryInv, NEW s \in Sinks, LogAddSink(s)
    PROVE  DeliveryInv'
  <1>1. PICK i \in DOMAIN sinks : sinks' = [sinks EXCEPT ![i] = s]
    BY DEF LogAddSink
  <1>2. \A j \in DOMAIN sinks : sinks[j] # s
    BY DEF LogAddSink
  <1>3. TypeOK'
    BY <1>1 DEF LogAddSink, DeliveryInv, TypeOK
  <1>4. SinksInv'
    BY <1>1, <1>2 DEF DeliveryInv, TypeOK, SinksInv
  <1> QED
    BY <1>3, <1>4, TableStep DEF LogAddSink

LEMMA LogRemoveSinkStep ==
    ASSUME DeliveryInv, NEW s \in Sinks, LogRemoveSink(s)
    PROVE  DeliveryInv'
  <1>1. PICK i \in DOMAIN sinks : sinks' = [sinks EXCEPT ![i] = Nobody]
    BY DEF LogRemoveSink
  <1>2. TypeOK'
    BY <1>1 DEF LogRemoveSink, DeliveryInv, TypeOK
  <1>3. SinksInv'
    BY <1>1 DEF DeliveryInv, TypeOK, SinksInv
  <1> QED
    BY <1>2, <1>3, TableStep DEF LogRemoveSink

LEMMA InitDelivery == Init => DeliveryInv
  <1> SUFFICES ASSUME Init PROVE DeliveryInv
    OBVIOUS
  <1>1. TypeOK
    BY LogAssumption DEF Init, TypeOK
  <1>2. \A t \in Threads : calls[t] = <<>> /\ DOMAIN calls[t] = {}
    BY DEF Init
  <1>3. StackInv /\ HeldInv /\ TodoInv
    BY <1>2 DEF StackInv, HeldInv, TodoInv
  <1>4. Len(accepted) = 0 /\ \A s \in Sinks : DOMAIN delivered[s] = {}
    BY DEF Init
  <1>5. NumberInv /\ SinksInv
    BY <1>4 DEF Init, NumberInv, SinksInv
  <1>6. CountInv
    <2>1. Pending = {}
      BY <1>2 DEF Pending, InPhase
    <2> QED
      BY <1>4, <2>1, FS_EmptySet DEF Init, CountInv
  <1>7. NoDuplicateDelivery /\ NothingDropped /\ SinkKeepsThreadOrder
    BY <1>4 DEF Init, NoDuplicateDelivery, NothingDropped, SinkKeepsThreadOrder, IsInjective
  <1> QED
    BY <1>1, <1>3, <1>5, <1>6, <1>7 DEF DeliveryInv

LEMMA NextDelivery == DeliveryInv /\ [Next]_vars => DeliveryInv'
  <1> SUFFICES ASSUME DeliveryInv, [Next]_vars PROVE DeliveryInv'
    OBVIOUS
  <1>1. ASSUME NEW t \in Threads, Writer(t)
        PROVE  DeliveryInv'
    BY <1>1, LockStep, RejectStep, AcceptStep, CallSinkStep, SinkReturnsStep DEF Writer
  <1>2. ASSUME NEW t \in Threads, NEW l \in Levels, LogWrite(t, l)
        PROVE  DeliveryInv'
    BY <1>2, LogWriteStep
  <1>3. ASSUME NEW l \in Levels, LogInit(l)
        PROVE  DeliveryInv'
    BY <1>3, LogInitStep
  <1>4. ASSUME NEW s \in Sinks, LogAddSink(s) \/ LogRemoveSink(s)
        PROVE  DeliveryInv'
    BY <1>4, LogAddSinkStep, LogRemoveSinkStep
  <1>5. CASE UNCHANGED vars
    <2>1. UNCHANGED <<lock, level, history, history_count, history_next, sinks>>
      BY <1>5 DEF vars, log
    <2>2. TypeOK' /\ SinksInv'
      BY <1>5, <2>1 DEF vars, DeliveryInv, TypeOK, SinksInv
    <2> QED
      BY <1>5, <2>2, TableStep DEF vars
  <1> QED
    BY <1>1, <1>2, <1>3, <1>4, <1>5 DEF Next

LEMMA AlwaysDelivery == Spec => []DeliveryInv
  BY InitDelivery, NextDelivery, PTL DEF Spec

-----------------------------------------------------------------------------
(* Nobody else is called.                                                  *)

\* What is left of a copy is due to the sinks in it, as what they had was.
AskedInv ==
    /\ \A t \in Threads : \A i \in DOMAIN calls[t] :
          LET c == calls[t][i]
          IN  \A j \in DOMAIN c.todo : <<c.entry, c.todo[j]>> \in owed
    /\ NothingUnasked

LEMMA QuietAsked ==
    ASSUME AskedInv, Quiet
    PROVE  AskedInv'
  <1>1. NothingUnasked'
    BY DEF AskedInv, NothingUnasked, Quiet
  <1>2. ASSUME NEW u \in Threads, NEW i \in DOMAIN calls'[u], NEW j \in DOMAIN calls'[u][i].todo
        PROVE  <<calls'[u][i].entry, calls'[u][i].todo[j]>> \in owed'
    <2>1. i \in DOMAIN calls[u] /\ SameHand(calls'[u][i], calls[u][i]) /\ owed' = owed
      BY <1>2 DEF Quiet
    <2> QED
      BY <1>2, <2>1 DEF AskedInv, SameHand
  <1> QED
    BY <1>1, <1>2 DEF AskedInv

LEMMA AcceptAsked ==
    ASSUME DeliveryInv, AskedInv, NEW t \in Threads, NEW e, NEW d, Accepts(t, e, d)
    PROVE  AskedInv'
  <1>1. NothingUnasked'
    BY DEF AskedInv, NothingUnasked, Accepts
  <1>2. \A j \in DOMAIN d.todo : <<d.entry, d.todo[j]>> \in owed'
    BY DEF Accepts, SinksCopy, Restrict
  <1>3. ASSUME NEW u \in Threads, NEW i \in DOMAIN calls'[u], NEW j \in DOMAIN calls'[u][i].todo
        PROVE  <<calls'[u][i].entry, calls'[u][i].todo[j]>> \in owed'
    <2>1. calls'[u][i] = d \/ (i \in DOMAIN calls[u] /\ calls'[u][i] = calls[u][i])
      BY <1>3 DEF Accepts, Replaced
    <2>2. owed \subseteq owed'
      BY DEF Accepts
    <2> QED
      BY <1>2, <1>3, <2>1, <2>2 DEF AskedInv
  <1> QED
    BY <1>1, <1>3 DEF AskedInv

LEMMA CallAsked ==
    ASSUME DeliveryInv, AskedInv, NEW t \in Threads, NEW c \in Call, NEW i \in DOMAIN c.todo,
           NEW d \in Call, Calls(t, c, i, d)
    PROVE  AskedInv'
  <1>1. <<c.entry, c.todo[i]>> \in owed /\ owed' = owed
    BY DEF Calls, AskedInv
  <1>2. c.todo[i] \in Sinks /\ c.entry \in Entry
    BY CallForm, CopyForm DEF Calls
  <1>3. NothingUnasked'
    <2> SUFFICES ASSUME NEW s \in Sinks, NEW k \in DOMAIN delivered'[s]
                 PROVE  <<delivered'[s][k], s>> \in owed
      BY <1>1 DEF NothingUnasked
    <2>1. CASE s = c.todo[i]
      <3>1. PICK got \in Seq(Entry) : got = delivered[s]
        BY InvParts DEF TypeOK
      <3>2. delivered'[s] = Append(got, c.entry)
        BY <2>1, <3>1, InvParts DEF Calls, TypeOK
      <3>3. (k \in DOMAIN got /\ delivered'[s][k] = got[k]) \/ delivered'[s][k] = c.entry
        BY <1>2, <3>1, <3>2
      <3> QED
        BY <1>1, <2>1, <3>1, <3>3 DEF AskedInv, NothingUnasked
    <2>2. CASE s # c.todo[i]
      <3>1. delivered'[s] = delivered[s]
        BY <2>2, InvParts DEF Calls, TypeOK
      <3> QED
        BY <3>1 DEF AskedInv, NothingUnasked
    <2> QED
      BY <2>1, <2>2
  <1>4. ASSUME NEW u \in Threads, NEW m \in DOMAIN calls'[u], NEW j \in DOMAIN calls'[u][m].todo
        PROVE  <<calls'[u][m].entry, calls'[u][m].todo[j]>> \in owed'
    <2>1. calls'[u][m] = d \/ (m \in DOMAIN calls[u] /\ calls'[u][m] = calls[u][m])
      BY <1>4 DEF Calls, Replaced
    <2>2. CASE calls'[u][m] = d
      <3>1. d.entry = c.entry /\ j \in DOMAIN c.todo /\ d.todo[j] = c.todo[j]
        BY <1>4, <2>2 DEF Calls, Restrict
      <3> QED
        BY <1>1, <2>2, <3>1 DEF AskedInv, Calls
    <2>3. CASE m \in DOMAIN calls[u] /\ calls'[u][m] = calls[u][m]
      BY <1>1, <1>4, <2>3 DEF AskedInv
    <2> QED
      BY <2>1, <2>2, <2>3
  <1> QED
    BY <1>3, <1>4 DEF AskedInv

LEMMA TableAsked ==
    ASSUME AskedInv, UNCHANGED <<calls, delivered, owed>>
    PROVE  AskedInv'
  BY DEF AskedInv, NothingUnasked

LEMMA InitAsked == Init => AskedInv
  <1> SUFFICES ASSUME Init PROVE AskedInv
    OBVIOUS
  <1>1. \A t \in Threads : DOMAIN calls[t] = {}
    BY DEF Init
  <1>2. \A s \in Sinks : DOMAIN delivered[s] = {}
    BY DEF Init
  <1> QED
    BY <1>1, <1>2 DEF AskedInv, NothingUnasked

LEMMA NextAsked == DeliveryInv /\ AskedInv /\ [Next]_vars => AskedInv'
  <1> SUFFICES ASSUME DeliveryInv, AskedInv, [Next]_vars PROVE AskedInv'
    OBVIOUS
  <1>1. ASSUME NEW t \in Threads, Lock(t) \/ Reject(t) \/ SinkReturns(t)
        PROVE  AskedInv'
    BY <1>1, LockStep, RejectStep, SinkReturnsStep, QuietAsked
  <1>2. ASSUME NEW t \in Threads, Accept(t)
        PROVE  AskedInv'
    BY <1>2, AcceptStep, AcceptAsked
  <1>3. ASSUME NEW t \in Threads, CallSink(t)
        PROVE  AskedInv'
    BY <1>3, CallSinkStep, CallAsked
  <1>4. ASSUME NEW t \in Threads, NEW l \in Levels, LogWrite(t, l)
        PROVE  AskedInv'
    BY <1>4, LogWriteStep, QuietAsked
  <1>5. CASE \/ \E l \in Levels : LogInit(l)
            \/ \E s \in Sinks : LogAddSink(s) \/ LogRemoveSink(s)
    BY <1>5, TableAsked DEF LogInit, LogAddSink, LogRemoveSink
  <1>6. CASE UNCHANGED vars
    BY <1>6, TableAsked DEF vars
  <1> QED
    BY <1>1, <1>2, <1>3, <1>4, <1>5, <1>6 DEF Next, Writer

LEMMA AlwaysAsked == Spec => []AskedInv
  BY InitAsked, NextAsked, AlwaysDelivery, PTL DEF Spec

\* Every sink registered when an entry is accepted is called with it once and
\* only once, and no other sink ever is: log_write hands out a copy of the table
\* taken under the mutex, and neither the entries other threads or the sinks
\* themselves log meanwhile, nor a sink added or removed, makes it skip or repeat
\* one, or call one that was not there.
THEOREM SinksGetEntriesOnce == Spec => []ExactlyOnce
  <1>1. DeliveryInv /\ AskedInv => ExactlyOnce
    BY DEF DeliveryInv, AskedInv, ExactlyOnce
  <1> QED
    BY <1>1, AlwaysDelivery, AlwaysAsked, PTL

\* The entries of one thread reach a sink in the order log_write accepted them,
\* except that what a sink logs overtakes the entry it was called with at the
\* sinks after it.
THEOREM SinksGetThreadsInOrder == Spec => []SinkKeepsThreadOrder
  <1>1. DeliveryInv => SinkKeepsThreadOrder
    BY DEF DeliveryInv
  <1> QED
    BY <1>1, AlwaysDelivery, PTL

-----------------------------------------------------------------------------
(* The filter of a list.                                                   *)

\* Induction over the numbers.
LEMMA Induction ==
    ASSUME NEW T, 0 \in T, \A n \in T : n + 1 \in T
    PROVE  Nat \subseteq T
  <1> DEFINE R == {p \in Nat \X Nat : p[1] < p[2]}
             Rest == Nat \ T
  <1>1. IsWellFoundedOn(R, Nat)
    BY NatLessThanWellFounded DEF OpToRel
  <1>2. SUFFICES ASSUME Rest # {} PROVE FALSE
    OBVIOUS
  <1>3. PICK x \in Rest : \A y \in Rest : ~ (<<y, x>> \in R)
    <2> HIDE DEF R
    <2> QED
      BY <1>1, <1>2, WFMin
  <1>4. x \in Nat /\ x \notin T /\ x # 0
    BY <1>3
  <1>5. x - 1 \in Nat /\ <<x - 1, x>> \in R
    BY <1>4
  <1>6. x - 1 \notin Rest
    BY <1>3, <1>5
  <1>7. x - 1 \in T /\ (x - 1) + 1 = x
    BY <1>4, <1>5, <1>6
  <1> QED
    BY <1>4, <1>7

\* One entry is shown after the list, or not.
Show(list, e, min) == IF e.level <= min THEN Append(list, e) ELSE list

\* f has what is shown of the first entries of s, up to the n-th.
Shows(f, s, min, n) ==
    f = [i \in 0 .. n |-> IF i = 0 THEN <<>> ELSE Show(f[i - 1], s[i], min)]

LEMMA ShowsOnce ==
    ASSUME NEW s, NEW t, NEW min, NEW m \in Nat, NEW n \in Nat, m <= n,
           \A i \in 1 .. m : s[i] = t[i],
           NEW f, Shows(f, s, min, m), NEW g, Shows(g, t, min, n)
    PROVE  f[m] = g[m]
  <1> DEFINE T == {i \in Nat : i <= m => f[i] = g[i]}
  <1>1. 0 \in T
    BY DEF Shows
  <1>2. ASSUME NEW i \in T
        PROVE  i + 1 \in T
    <2>1. CASE i + 1 <= m
      <3>1. i + 1 \in 0 .. m /\ i + 1 \in 0 .. n /\ i + 1 # 0 /\ (i + 1) - 1 = i
        BY <2>1
      <3>2. f[i + 1] = Show(f[i], s[i + 1], min)
        BY <3>1 DEF Shows
      <3>3. g[i + 1] = Show(g[i], t[i + 1], min)
        BY <3>1 DEF Shows
      <3>4. f[i] = g[i] /\ s[i + 1] = t[i + 1]
        BY <2>1
      <3> QED
        BY <3>2, <3>3, <3>4
    <2> QED
      BY <2>1
  <1> HIDE DEF T
  <1>3. Nat \subseteq T
    BY <1>1, <1>2, Induction
  <1> QED
    BY <1>3 DEF T

LEMMA ShowsExtends ==
    ASSUME NEW s, NEW min, NEW n \in Nat, NEW f, Shows(f, s, min, n)
    PROVE  \E g : /\ Shows(g, s, min, n + 1)
                  /\ g[n + 1] = Show(f[n], s[n + 1], min)
  <1> DEFINE g == [i \in 0 .. n + 1 |-> IF i <= n THEN f[i] ELSE Show(f[n], s[n + 1], min)]
  <1>1. \A i \in 0 .. n : f[i] = IF i = 0 THEN <<>> ELSE Show(f[i - 1], s[i], min)
    BY DEF Shows
  <1>2. ASSUME NEW i \in 0 .. n + 1
        PROVE  g[i] = IF i = 0 THEN <<>> ELSE Show(g[i - 1], s[i], min)
    <2>1. CASE i = n + 1
      <3>1. i # 0 /\ i - 1 = n /\ n \in 0 .. n + 1 /\ n <= n /\ ~(i <= n)
        BY <2>1
      <3>2. g[i - 1] = f[n] /\ g[i] = Show(f[n], s[n + 1], min)
        BY <3>1
      <3> QED
        BY <2>1, <3>1, <3>2
    <2>2. CASE i # n + 1
      <3>1. i \in 0 .. n /\ i <= n /\ (i # 0 => i - 1 \in 0 .. n + 1 /\ i - 1 <= n)
        BY <2>2
      <3>2. g[i] = f[i] /\ (i # 0 => g[i - 1] = f[i - 1])
        BY <3>1
      <3> QED
        BY <1>1, <3>1, <3>2
    <2> QED
      BY <2>1, <2>2
  <1>3. g[n + 1] = Show(f[n], s[n + 1], min)
    BY <1>2
  <1>4. g = [i \in 0 .. n + 1 |-> g[i]]
    OBVIOUS
  <1> HIDE DEF g
  <1>5. Shows(g, s, min, n + 1)
    BY <1>2, <1>4 DEF Shows
  <1> QED
    BY <1>3, <1>5

LEMMA ShowsExists ==
    ASSUME NEW s, NEW min, NEW n \in Nat
    PROVE  \E f : Shows(f, s, min, n)
  <1> DEFINE T == {i \in Nat : \E f : Shows(f, s, min, i)}
  <1>1. 0 \in T
    <2>1. Shows([i \in 0 .. 0 |-> <<>>], s, min, 0)
      BY DEF Shows
    <2> QED
      BY <2>1
  <1>2. ASSUME NEW i \in T
        PROVE  i + 1 \in T
    <2>1. i \in Nat /\ \E f : Shows(f, s, min, i)
      OBVIOUS
    <2>2. \E g : Shows(g, s, min, i + 1)
      BY <2>1, ShowsExtends
    <2> QED
      BY <2>1, <2>2
  <1> HIDE DEF T
  <1>3. Nat \subseteq T
    BY <1>1, <1>2, Induction
  <1> QED
    BY <1>3 DEF T

LEMMA FilteredIs ==
    ASSUME NEW S, NEW s \in Seq(S), NEW min
    PROVE  \E f : Shows(f, s, min, Len(s)) /\ Filtered(s, min) = f[Len(s)]
  <1>1. \E f : Shows(f, s, min, Len(s))
    <2>1. Len(s) \in Nat
      OBVIOUS
    <2> QED
      BY <2>1, ShowsExists
  <1>2. Filtered(s, min) = (CHOOSE f : Shows(f, s, min, Len(s)))[Len(s)]
    BY DEF Filtered, Shows, Show
  <1> QED
    BY <1>1, <1>2

LEMMA FilteredAppend ==
    ASSUME NEW S, NEW s \in Seq(S), NEW e \in S, NEW min
    PROVE  Filtered(Append(s, e), min) = Show(Filtered(s, min), e, min)
  <1> DEFINE long == Append(s, e)
  <1>1. PICK n \in Nat : n = Len(s)
    OBVIOUS
  <1>2. /\ long \in Seq(S) /\ Len(long) = n + 1 /\ long[n + 1] = e
        /\ \A i \in 1 .. n : long[i] = s[i]
    BY <1>1
  <1> HIDE DEF long
  <1>3. PICK f : Shows(f, s, min, n) /\ Filtered(s, min) = f[n]
    BY <1>1, FilteredIs
  <1>4. PICK h : Shows(h, long, min, n + 1) /\ Filtered(long, min) = h[n + 1]
    BY <1>2, FilteredIs
  <1>5. h[n + 1] = Show(h[n], e, min)
    <2>1. n + 1 \in 0 .. n + 1 /\ n + 1 # 0 /\ (n + 1) - 1 = n
      OBVIOUS
    <2> QED
      BY <1>2, <1>4, <2>1 DEF Shows
  <1>6. f[n] = h[n]
    <2>1. n <= n + 1 /\ n + 1 \in Nat /\ \A i \in 1 .. n : s[i] = long[i]
      BY <1>2
    <2> QED
      BY <1>3, <1>4, <2>1, ShowsOnce
  <1> QED
    BY <1>3, <1>4, <1>5, <1>6 DEF long

LEMMA FilteredOfNone ==
    ASSUME NEW min
    PROVE  Filtered(<<>>, min) = <<>>
  <1>1. <<>> \in Seq({}) /\ Len(<<>>) = 0
    OBVIOUS
  <1>2. PICK f : Shows(f, <<>>, min, 0) /\ Filtered(<<>>, min) = f[0]
    BY <1>1, FilteredIs
  <1>3. 0 \in 0 .. 0
    OBVIOUS
  <1> QED
    BY <1>2, <1>3 DEF Shows

\* What is delivered extends the filter of the list by the filter of the entry.
LEMMA FilteredGrows ==
    ASSUME NEW S, NEW s \in Seq(S), NEW e \in S, NEW min, Filtered(s, min) \in Seq(S)
    PROVE  Filtered(Append(s, e), min) = Filtered(s, min) \o Filtered(<<e>>, min)
  <1>1. <<>> \in Seq(S) /\ <<e>> = Append(<<>>, e)
    OBVIOUS
  <1>2. Filtered(<<e>>, min) = Show(<<>>, e, min)
    <2>1. Filtered(Append(<<>>, e), min) = Show(Filtered(<<>>, min), e, min)
      BY <1>1, FilteredAppend
    <2> QED
      BY <1>1, <2>1, FilteredOfNone
  <1>3. Filtered(Append(s, e), min) = Show(Filtered(s, min), e, min)
    BY FilteredAppend
  <1> DEFINE l == Filtered(s, min)
  <1>4. Append(l, e) = l \o <<e>> /\ l = l \o <<>>
    OBVIOUS
  <1> QED
    BY <1>1, <1>2, <1>3, <1>4 DEF Show

LEMMA FilteredType ==
    ASSUME NEW S, NEW s \in Seq(S), NEW min
    PROVE  Filtered(s, min) \in Seq(S)
  <1>1. PICK n \in Nat : n = Len(s)
    OBVIOUS
  <1>2. PICK f : Shows(f, s, min, n) /\ Filtered(s, min) = f[n]
    BY <1>1, FilteredIs
  <1> DEFINE T == {i \in Nat : i <= n => f[i] \in Seq(S)}
  <1>3. 0 \in T
    <2>1. f[0] = <<>> /\ <<>> \in Seq(S)
      BY <1>2 DEF Shows
    <2> QED
      BY <2>1
  <1>4. ASSUME NEW i \in T
        PROVE  i + 1 \in T
    <2>1. CASE i + 1 <= n
      <3>1. i + 1 \in 0 .. n /\ i + 1 # 0 /\ (i + 1) - 1 = i /\ s[i + 1] \in S
        BY <1>1, <2>1
      <3>2. f[i + 1] = Show(f[i], s[i + 1], min) /\ f[i] \in Seq(S)
        BY <1>2, <2>1, <3>1 DEF Shows
      <3>3. Show(f[i], s[i + 1], min) \in Seq(S)
        BY <3>1, <3>2 DEF Show
      <3> QED
        BY <3>2, <3>3
    <2> QED
      BY <2>1
  <1> HIDE DEF T
  <1>5. Nat \subseteq T
    BY <1>3, <1>4, Induction
  <1> QED
    BY <1>2, <1>5 DEF T

-----------------------------------------------------------------------------
(* The Logs window: the invariant.                                         *)

\* The bridge, once constructed, is registered for good.
BridgeInv ==
    /\ bridged => \E i \in DOMAIN sinks : sinks[i] = bridge
    /\ rejoined => bridged

\* How many of the entries posted the event loop has run.
HandedOn == Len(delivered[bridge]) - Len(events)

\* The others are in the queue, in the order they were posted.
EventsInv ==
    /\ Len(events) <= Len(delivered[bridge])
    /\ \A k \in 1 .. Len(events) : events[k] = delivered[bridge][HandedOn + k]

\* An entry of the window that is newer than its copy came through the queue.
EntriesInv ==
    /\ opened_at <= Len(accepted)
    /\ \A i \in DOMAIN entries : entries[i].id > opened_at =>
          \E k \in 1 .. HandedOn : delivered[bridge][k] = entries[i]

\* The view already is the filter while the window is built.
ViewInv == window # "closed" => view = Filtered(entries, minimum)

\* Nothing is missing from the copy on, window connected or not.
CompleteInv ==
    window # "closed" /\ rejoined /\ ~cleared =>
        \A i \in 1 .. Len(accepted) :
            i > opened_at - Capacity => InWindowOrUnderWay(accepted[i])

WindowInv ==
    /\ WindowTypeOK
    /\ BridgeInv /\ EventsInv /\ EntriesInv /\ ViewInv
    /\ LaterEntriesShownOnce /\ CompleteInv

LEMMA Bridge == bridge \in Sinks /\ bridge # Nobody /\ \A s \in Sinks : s = bridge
  BY WindowAssumption, LogAssumption

LEMMA WindowTypes ==
    ASSUME WindowTypeOK
    PROVE  /\ TypeOK
           /\ events \in Seq(Entry) /\ Len(events) \in Nat
           /\ entries \in Seq(Entry) /\ Len(entries) \in Nat
           /\ DOMAIN entries = 1 .. Len(entries)
           /\ delivered[bridge] \in Seq(Entry) /\ Len(delivered[bridge]) \in Nat
           /\ accepted \in Seq(Entry) /\ Len(accepted) \in Nat
           /\ opened_at \in Nat /\ minimum \in Levels
           /\ \A i \in 1 .. Len(accepted) : accepted[i] \in Entry /\ accepted[i].by \in Threads
  <1>1. /\ events \in Seq(Entry) /\ entries \in Seq(Entry) /\ accepted \in Seq(Entry)
        /\ delivered[bridge] \in Seq(Entry) /\ TypeOK /\ opened_at \in Nat /\ minimum \in Levels
    BY Bridge DEF WindowTypeOK, TypeOK
  <1>2. ASSUME NEW i \in 1 .. Len(accepted)
        PROVE  accepted[i] \in Entry /\ accepted[i].by \in Threads
    <2>1. accepted[i] \in Entry
      BY <1>1
    <2> QED
      BY <2>1 DEF Entry
  <1> QED
    BY <1>1, <1>2

-----------------------------------------------------------------------------
(* The window while threads log.                                           *)

LEMMA QuietWindow ==
    ASSUME WindowInv, TypeOK', Quiet, UNCHANGED wvars
    PROVE  WindowInv'
  <1> USE DEF WindowInv
  <1>1. UNCHANGED <<bridged, events, window, entries, minimum, view, opened_at, rejoined,
                    cleared, accepted, delivered, sinks>>
    BY DEF wvars, Quiet
  <1>2. WindowTypeOK' /\ BridgeInv' /\ EventsInv' /\ EntriesInv' /\ ViewInv'
        /\ LaterEntriesShownOnce'
    BY <1>1 DEF WindowTypeOK, BridgeInv, EventsInv, HandedOn, EntriesInv, ViewInv,
                LaterEntriesShownOnce
  <1>3. ASSUME NEW e, e.by \in Threads, InWindowOrUnderWay(e)
        PROVE  InWindowOrUnderWay(e)'
    <2>1. \A i \in DOMAIN calls[e.by] :
             \/ i \in DOMAIN calls'[e.by] /\ SameHand(calls'[e.by][i], calls[e.by][i])
             \/ DOMAIN calls[e.by][i].todo = {}
      BY <1>3 DEF Quiet
    <2> QED
      BY <1>1, <1>3, <2>1 DEF InWindowOrUnderWay, SameHand
  <1>4. CompleteInv'
    <2>1. \A i \in 1 .. Len(accepted) : accepted[i].by \in Threads
      BY WindowTypes
    <2> QED
      BY <1>1, <1>3, <2>1 DEF CompleteInv
  <1> QED
    BY <1>2, <1>4

\* A call of which only the entry's own step is missing stays under way.
LEMMA StaysUnderWay ==
    ASSUME NEW t \in Threads, NEW d, Replaced(t, d), NEW e, e.by \in Threads,
           InWindowOrUnderWay(e), entries' = entries, Range(events) \subseteq Range(events'),
           Top(t) \in DOMAIN calls[t] => calls[t][Top(t)].entry # e
    PROVE  InWindowOrUnderWay(e)'
  <1>1. \A i \in DOMAIN calls[e.by] :
           \/ e.by = t /\ i = Top(t)
           \/ i \in DOMAIN calls'[e.by] /\ calls'[e.by][i] = calls[e.by][i]
    BY DEF Replaced
  <1> QED
    BY <1>1 DEF InWindowOrUnderWay

LEMMA AcceptWindow ==
    ASSUME WindowInv, DeliveryInv, TypeOK', NEW t \in Threads, NEW e \in Entry, NEW d \in Call,
           Accepts(t, e, d), UNCHANGED wvars
    PROVE  WindowInv'
  <1> USE DEF WindowInv
  <1>1. UNCHANGED <<bridged, events, window, entries, minimum, view, opened_at, rejoined,
                    cleared, delivered, sinks>>
    BY DEF wvars, Accepts
  <1>2. PICK n \in Nat : n = Len(accepted)
    BY WindowTypes
  <1>3. /\ Len(accepted') = n + 1 /\ accepted'[n + 1] = e
        /\ \A i \in 1 .. n : accepted'[i] = accepted[i]
    BY <1>2, WindowTypes DEF Accepts
  <1>4. WindowTypeOK' /\ BridgeInv' /\ EventsInv' /\ ViewInv' /\ LaterEntriesShownOnce'
    BY <1>1 DEF WindowTypeOK, BridgeInv, EventsInv, HandedOn, ViewInv, LaterEntriesShownOnce
  <1>5. EntriesInv'
    <2>1. opened_at \in Nat /\ opened_at <= n
      BY <1>2, WindowTypes DEF EntriesInv
    <2>2. opened_at' <= Len(accepted')
      BY <1>1, <1>3, <2>1
    <2> QED
      BY <1>1, <2>2 DEF EntriesInv, HandedOn
  <1>6. ASSUME window # "closed", rejoined, ~cleared, NEW i \in 1 .. n + 1,
               i > opened_at - Capacity, NEW a, a = accepted'[i]
        PROVE  InWindowOrUnderWay(a)'
    <2>1. CASE i \in 1 .. n
      <3>1. InWindowOrUnderWay(a) /\ a \in Entry /\ a.by \in Threads
        BY <1>2, <1>3, <1>6, <2>1, WindowTypes DEF CompleteInv
      <3>2. /\ Replaced(t, d)
            /\ Top(t) \in DOMAIN calls[t] => calls[t][Top(t)].entry # a
        BY <3>1, NoEntryIsNone DEF Accepts
      <3> QED
        BY <1>1, <3>1, <3>2, StaysUnderWay
    <2>2. CASE i = n + 1
      <3>1. PICK j \in DOMAIN sinks : sinks[j] = bridge
        BY <1>6 DEF BridgeInv
      <3>2. j \in DOMAIN SinksCopy
        BY <3>1, Bridge, SinksCopyIs DEF DeliveryInv
      <3>3. /\ Top(t) \in DOMAIN calls'[t] /\ calls'[t][Top(t)] = d
            /\ d.entry = e /\ DOMAIN d.todo # {} /\ e.by = t
        BY <3>2 DEF Accepts
      <3>4. a = e
        BY <1>3, <1>6, <2>2
      <3> QED
        BY <3>3, <3>4 DEF InWindowOrUnderWay
    <2> QED
      BY <2>1, <2>2
  <1>7. CompleteInv'
    <2> SUFFICES ASSUME (window # "closed" /\ rejoined /\ ~cleared)',
                        NEW i \in 1 .. Len(accepted'), i > opened_at' - Capacity,
                        NEW a, a = accepted'[i]
                 PROVE  InWindowOrUnderWay(a)'
      BY DEF CompleteInv
    <2> QED
      BY <1>1, <1>3, <1>6
  <1> QED
    BY <1>4, <1>5, <1>7

LEMMA CallWindow ==
    ASSUME WindowInv, TypeOK', NEW t \in Threads, NEW c \in Call, NEW i \in DOMAIN c.todo,
           NEW d \in Call, Calls(t, c, i, d),
           events' = Append(events, Last(calls[t]).entry),
           UNCHANGED <<bridged, window, entries, minimum, view, opened_at, rejoined, cleared>>
    PROVE  WindowInv'
  <1> USE DEF WindowInv
  <1> DEFINE got == delivered[bridge]
             e == c.entry
  <1>1. PICK n \in Nat, m \in Nat : n = Len(got) /\ m = Len(events)
    BY WindowTypes
  <1>2. e \in Entry /\ events' = Append(events, e)
    BY DEF Calls
  <1>3. delivered'[bridge] = Append(got, e)
    <2>1. c.todo[i] = bridge
      BY CallForm, CopyForm, Bridge
    <2>2. bridge \in DOMAIN delivered
      BY WindowTypes, Bridge DEF TypeOK
    <2> QED
      BY <2>1, <2>2 DEF Calls
  <1>4. /\ Len(delivered'[bridge]) = n + 1 /\ delivered'[bridge][n + 1] = e
        /\ \A k \in 1 .. n : delivered'[bridge][k] = got[k]
    BY <1>1, <1>2, <1>3, WindowTypes
  <1>5. /\ events' \in Seq(Entry) /\ Len(events') = m + 1 /\ events'[m + 1] = e
        /\ \A k \in 1 .. m : events'[k] = events[k]
        /\ DOMAIN events' = 1 .. m + 1 /\ DOMAIN events = 1 .. m
    BY <1>1, <1>2, WindowTypes
  <1>6. /\ UNCHANGED <<accepted, sinks>>
        /\ \A k \in 1 .. m : events[k] = got[n - m + k]
        /\ m <= n
    BY <1>1 DEF Calls, EventsInv, HandedOn
  <1>7. HandedOn = n - m /\ HandedOn' = n - m
    BY <1>1, <1>4, <1>5 DEF HandedOn
  <1>8. WindowTypeOK' /\ BridgeInv' /\ ViewInv' /\ LaterEntriesShownOnce'
    BY <1>5, <1>6 DEF WindowTypeOK, BridgeInv, ViewInv, LaterEntriesShownOnce
  <1>9. EventsInv'
    <2>1. ASSUME NEW k \in 1 .. m + 1
          PROVE  events'[k] = delivered'[bridge][n - m + k]
      <3>1. CASE k \in 1 .. m
        <4>1. n - m + k \in 1 .. n
          BY <1>6, <3>1
        <4> QED
          BY <1>4, <1>5, <1>6, <3>1, <4>1
      <3>2. CASE k = m + 1
        <4>1. n - m + k = n + 1
          BY <3>2
        <4> QED
          BY <1>4, <1>5, <3>2, <4>1
      <3>3. k \in 1 .. m \/ k = m + 1
        OBVIOUS
      <3> HIDE DEF got, e
      <3> QED
        BY <3>1, <3>2, <3>3, Zenon
    <2>2. m + 1 <= n + 1
      BY <1>6
    <2> QED
      BY <1>4, <1>5, <1>7, <2>1, <2>2 DEF EventsInv
  <1>10. EntriesInv'
    <2>1. \A k \in 1 .. n - m : k \in 1 .. n /\ delivered'[bridge][k] = got[k]
      BY <1>4, <1>6
    <2> QED
      BY <1>6, <1>7, <2>1 DEF EntriesInv
  <1>11. Range(events) \subseteq Range(events') /\ e \in Range(events')
    BY <1>5 DEF Range
  <1>12. ASSUME NEW a, a.by \in Threads, InWindowOrUnderWay(a)
         PROVE  InWindowOrUnderWay(a)'
    <2>1. CASE a = e
      BY <1>11, <2>1 DEF InWindowOrUnderWay
    <2>2. CASE a # e
      <3>1. Replaced(t, d) /\ calls[t][Top(t)].entry # a /\ entries' = entries
        BY <2>2 DEF Calls
      <3> QED
        BY <1>11, <1>12, <3>1, StaysUnderWay
    <2> QED
      BY <2>1, <2>2
  <1>13. CompleteInv'
    <2>1. \A k \in 1 .. Len(accepted) : accepted[k].by \in Threads
      BY WindowTypes
    <2> QED
      BY <1>6, <1>12, <2>1 DEF CompleteInv
  <1> QED
    BY <1>8, <1>9, <1>10, <1>13

-----------------------------------------------------------------------------
(* The UI thread's steps.                                                  *)

LEMMA OpenWindowStep ==
    ASSUME WindowInv, RingInv, DeliveryInv, OpenWindow
    PROVE  WindowInv'
  <1> USE DEF WindowInv
  <1>1. UNCHANGED <<lock, level, history, history_count, history_next, sinks, calls, writes,
                    accepted, delivered, owed, bridged, events>>
    BY DEF OpenWindow, vars, log
  <1>2. PICK n \in Nat, k \in Nat :
           /\ n = Len(accepted) /\ k = CountOf(Capacity)
           /\ k <= n /\ (k = Capacity \/ k = n)
    BY WindowTypes, LogAssumption DEF RingInv, CountOf
  <1>3. /\ entries' = [j \in 1 .. k |-> accepted[n - k + j]]
        /\ entries' \in Seq(Entry) /\ Len(entries') = k
    <2>1. entries' = Suffix(accepted, k)
      BY <1>2, CopyIsNewest, LogAssumption DEF OpenWindow
    <2>2. accepted \in Seq(Entry) /\ k \in 0 .. Len(accepted)
      BY <1>2, WindowTypes
    <2>3. /\ Suffix(accepted, k) = [j \in 1 .. k |-> accepted[Len(accepted) - k + j]]
          /\ Suffix(accepted, k) \in Seq(Entry) /\ Len(Suffix(accepted, k)) = k
      BY <2>2, SuffixIs
    <2> QED
      BY <1>2, <2>1, <2>3
  <1>4. /\ window' = "opening" /\ minimum' = NEO_LOG_INFO /\ opened_at' = n
        /\ rejoined' = bridged /\ cleared' = FALSE
        /\ view' = Filtered(entries', NEO_LOG_INFO)
    BY <1>2 DEF OpenWindow
  <1>5. ViewInv'
    BY <1>4 DEF ViewInv
  <1>6. WindowTypeOK'
    <2>1. view' \in Seq(Entry)
      BY <1>3, <1>4, FilteredType
    <2>2. TypeOK'
      BY <1>1, WindowTypes DEF TypeOK
    <2> QED
      BY <1>1, <1>3, <1>4, <2>1, <2>2, LogAssumption DEF WindowTypeOK
  <1>7. BridgeInv' /\ EventsInv'
    BY <1>1, <1>4 DEF BridgeInv, EventsInv, HandedOn
  <1>8. \A j \in DOMAIN entries' : entries'[j].id <= n
    <2>1. ASSUME NEW j \in 1 .. k
          PROVE  accepted[n - k + j].id = n - k + j /\ n - k + j <= n
      <3>1. n - k + j \in 1 .. n
        BY <1>2
      <3> QED
        BY <1>2, <3>1 DEF DeliveryInv, NumberInv
    <2> QED
      BY <1>2, <1>3, <2>1
  <1>9. EntriesInv' /\ LaterEntriesShownOnce'
    <2>1. \A j \in DOMAIN entries' : ~ (entries'[j].id > opened_at')
      <3>1. ASSUME NEW j \in 1 .. k
            PROVE  entries'[j].id \in Nat /\ j \in DOMAIN entries'
        <4>1. entries'[j] \in Entry /\ j \in DOMAIN entries'
          BY <1>3
        <4> QED
          BY <4>1 DEF Entry
      <3>2. DOMAIN entries' = 1 .. k
        BY <1>3
      <3> QED
        BY <1>4, <1>8, <3>1, <3>2
    <2>2. opened_at' <= Len(accepted')
      BY <1>1, <1>2, <1>4
    <2> QED
      BY <2>1, <2>2 DEF EntriesInv, LaterEntriesShownOnce
  <1>10. CompleteInv'
    <2> SUFFICES ASSUME NEW i \in 1 .. Len(accepted'), i > opened_at' - Capacity,
                        NEW a, a = accepted'[i]
                 PROVE  InWindowOrUnderWay(a)'
      BY DEF CompleteInv
    <2>1. i \in 1 .. n /\ i > n - Capacity /\ a = accepted[i]
      BY <1>1, <1>2, <1>4
    <2>2. i - (n - k) \in 1 .. k
      BY <1>2, <2>1, LogAssumption
    <2>3. entries'[i - (n - k)] = a
      <3>1. n - k + (i - (n - k)) = i
        BY <2>1
      <3> QED
        BY <1>3, <2>1, <2>2, <3>1
    <2>4. a \in Range(entries')
      BY <1>3, <2>2, <2>3 DEF Range
    <2> QED
      BY <2>4 DEF InWindowOrUnderWay
  <1> QED
    BY <1>5, <1>6, <1>7, <1>9, <1>10

LEMMA ConnectWindowStep ==
    ASSUME WindowInv, TypeOK', ConnectWindow
    PROVE  WindowInv'
  <1> USE DEF WindowInv
  <1>1. UNCHANGED <<calls, accepted, delivered, events, entries, minimum, view, opened_at,
                    rejoined, cleared>>
    BY DEF ConnectWindow, LogAddSink, vars
  <1>2. window = "opening" /\ window' = "open" /\ bridged' = TRUE
    BY DEF ConnectWindow
  <1>3. \E i \in DOMAIN sinks' : sinks'[i] = bridge
    <2>1. CASE bridged
      BY <2>1 DEF ConnectWindow, BridgeInv, vars, log
    <2>2. CASE ~bridged
      <3>1. PICK i \in DOMAIN sinks : sinks' = [sinks EXCEPT ![i] = bridge]
        BY <2>2 DEF ConnectWindow, LogAddSink
      <3>2. sinks'[i] = bridge /\ DOMAIN sinks' = DOMAIN sinks
        BY <3>1
      <3> QED
        BY <3>2
    <2> QED
      BY <2>1, <2>2
  <1>4. WindowTypeOK' /\ BridgeInv' /\ EventsInv' /\ EntriesInv' /\ ViewInv'
        /\ LaterEntriesShownOnce'
    BY <1>1, <1>2, <1>3 DEF WindowTypeOK, BridgeInv, EventsInv, HandedOn, EntriesInv, ViewInv,
                            LaterEntriesShownOnce
  <1>5. CompleteInv'
    BY <1>1, <1>2 DEF CompleteInv, InWindowOrUnderWay
  <1> QED
    BY <1>4, <1>5

\* What the steps of the event loop leave alone.
LEMMA LogAlone ==
    ASSUME UNCHANGED vars
    PROVE  UNCHANGED <<lock, level, history, history_count, history_next, sinks, calls, writes,
                       accepted, delivered, owed>>
  BY DEF vars, log

LEMMA DeliverEventStep ==
    ASSUME WindowInv, DeliveryInv, DeliverEvent
    PROVE  WindowInv'
  <1> USE DEF WindowInv
  <1> DEFINE e == Head(events)
             got == delivered[bridge]
  <1>1. UNCHANGED <<lock, level, history, history_count, history_next, sinks, calls, writes,
                    accepted, delivered, owed, bridged, window, minimum, opened_at, rejoined,
                    cleared>>
    BY LogAlone DEF DeliverEvent
  <1>2. PICK n \in Nat, m \in Nat : n = Len(got) /\ m = Len(events) - 1
    <2>1. events \in Seq(Entry) /\ events # <<>> /\ Len(got) \in Nat
      BY WindowTypes DEF DeliverEvent
    <2>2. Len(events) - 1 \in Nat
      BY <2>1
    <2> QED
      BY <2>1, <2>2
  <1>3. /\ events \in Seq(Entry) /\ events # <<>> /\ events' = Tail(events)
        /\ Len(events) = m + 1
    BY <1>2, WindowTypes DEF DeliverEvent
  <1>4. /\ e \in Entry /\ e = events[1]
        /\ events' \in Seq(Entry) /\ Len(events') = m
        /\ \A k \in 1 .. m : events'[k] = events[k + 1]
    BY <1>3
  <1>5. HandedOn = n - (m + 1) /\ HandedOn' = n - m /\ m + 1 <= n
    BY <1>1, <1>2, <1>3, <1>4 DEF HandedOn, EventsInv
  <1>6. \A k \in 1 .. m + 1 : events[k] = got[n - (m + 1) + k]
    BY <1>3, <1>5 DEF EventsInv
  <1>7. EventsInv'
    <2>1. ASSUME NEW k \in 1 .. m
          PROVE  events'[k] = got[n - m + k]
      <3>1. k + 1 \in 1 .. m + 1 /\ n - (m + 1) + (k + 1) = n - m + k
        OBVIOUS
      <3> QED
        BY <1>4, <1>6, <3>1
    <2>2. m <= n
      BY <1>5
    <2> QED
      BY <1>1, <1>2, <1>4, <1>5, <2>1, <2>2 DEF EventsInv
  <1>8. e = got[n - m] /\ n - m \in 1 .. n
    <2>1. 1 \in 1 .. m + 1 /\ n - (m + 1) + 1 = n - m /\ n - m \in 1 .. n
      BY <1>5
    <2> QED
      BY <1>4, <1>6, <2>1
  <1>9. BridgeInv'
    BY <1>1 DEF BridgeInv
  <1>10. TypeOK'
    BY <1>1, WindowTypes DEF TypeOK
  <1>11. \A a \in Range(events) : a = e \/ a \in Range(events')
    <2>1. ASSUME NEW k \in 1 .. m + 1
          PROVE  events[k] = e \/ events[k] \in Range(events')
      <3>1. CASE k = 1
        BY <1>4, <3>1
      <3>2. CASE k # 1
        <4>1. k - 1 \in 1 .. m /\ (k - 1) + 1 = k
          BY <3>2
        <4>2. events[k] = events'[k - 1]
          BY <1>4, <4>1
        <4> QED
          BY <1>4, <4>1, <4>2 DEF Range
      <3> QED
        BY <3>1, <3>2
    <2> QED
      BY <1>3, <2>1 DEF Range
  <1> HIDE DEF e
  <1>12. CASE window = "open"
    <2>1. entries' = Append(entries, e) /\ view' = view \o Filtered(<<e>>, minimum)
      BY <1>12 DEF DeliverEvent, e
    <2>2. PICK p \in Nat : p = Len(entries)
      BY WindowTypes
    <2>3. /\ entries \in Seq(Entry) /\ entries' \in Seq(Entry) /\ Len(entries') = p + 1
          /\ entries'[p + 1] = e /\ \A i \in 1 .. p : entries'[i] = entries[i]
      BY <1>4, <2>1, <2>2, WindowTypes
    <2>4. view' = Filtered(entries', minimum)
      <3>1. Filtered(entries, minimum) \in Seq(Entry)
        BY <2>3, FilteredType
      <3>2. view = Filtered(entries, minimum)
        BY <1>12 DEF ViewInv
      <3> QED
        <4>1. entries \in Seq(Entry) /\ e \in Entry
          BY <1>4, <2>3
        <4>2. Filtered(Append(entries, e), minimum)
                 = Filtered(entries, minimum) \o Filtered(<<e>>, minimum)
          BY <3>1, <4>1, FilteredGrows
        <4> QED
          BY <2>1, <3>2, <4>2
    <2>5. ViewInv'
      BY <1>1, <2>4 DEF ViewInv
    <2>6. WindowTypeOK'
      <3>1. view' \in Seq(Entry)
        BY <2>3, <2>4, FilteredType
      <3> QED
        BY <1>1, <1>4, <1>10, <2>3, <3>1 DEF WindowTypeOK
    <2>7. \A i \in 1 .. p : entries[i].id > opened_at =>
             \E k \in 1 .. n - m : got[k] = entries[i] /\ k # n - m
      BY <1>5, <2>2, WindowTypes DEF EntriesInv
    <2>8. EntriesInv'
      <3>1. \A i \in 1 .. p + 1 : entries'[i].id > opened_at =>
               \E k \in 1 .. n - m : got[k] = entries'[i]
        <4>1. n - m \in 1 .. n - m
          BY <1>8
        <4>2. \A i \in 1 .. p + 1 : i \in 1 .. p \/ i = p + 1
          OBVIOUS
        <4> HIDE DEF got
        <4> QED
          BY <1>8, <2>3, <2>7, <4>1, <4>2
      <3>2. DOMAIN entries' = 1 .. p + 1
        BY <2>3
      <3> QED
        BY <1>1, <1>5, <3>1, <3>2 DEF EntriesInv
    <2>9. ASSUME NEW i \in 1 .. p, entries[i] = e, entries[i].id > opened_at
          PROVE  FALSE
      <3>1. PICK k \in 1 .. n - m : got[k] = entries[i] /\ k # n - m
        BY <2>7, <2>9
      <3>2. IsInjective(got) /\ DOMAIN got = 1 .. n
        BY <1>2, Bridge, WindowTypes DEF DeliveryInv, NoDuplicateDelivery
      <3>3. k \in 1 .. n
        BY <1>8
      <3> HIDE DEF got
      <3> QED
        BY <1>8, <2>9, <3>1, <3>2, <3>3 DEF IsInjective
    <2>10. LaterEntriesShownOnce'
      <3> SUFFICES ASSUME NEW i \in DOMAIN entries', NEW j \in DOMAIN entries',
                          entries'[i] = entries'[j], entries'[i].id > opened_at
                   PROVE  i = j
        BY <1>1 DEF LaterEntriesShownOnce
      <3>1. (i \in 1 .. p \/ i = p + 1) /\ (j \in 1 .. p \/ j = p + 1)
        BY <2>3
      <3>2. DOMAIN entries = 1 .. p
        BY <2>2, WindowTypes
      <3>3. CASE i \in 1 .. p /\ j \in 1 .. p
        BY <2>3, <3>2, <3>3 DEF LaterEntriesShownOnce
      <3>4. CASE i \in 1 .. p /\ j = p + 1
        BY <2>3, <2>9, <3>4
      <3>5. CASE i = p + 1 /\ j \in 1 .. p
        BY <2>3, <2>9, <3>5
      <3> QED
        BY <3>1, <3>3, <3>4, <3>5
    <2>11. ASSUME NEW a, InWindowOrUnderWay(a)
           PROVE  InWindowOrUnderWay(a)'
      <3>1. Range(entries) \subseteq Range(entries') /\ e \in Range(entries')
        BY <2>2, <2>3, WindowTypes DEF Range
      <3> QED
        BY <1>1, <1>11, <2>11, <3>1 DEF InWindowOrUnderWay
    <2>12. CompleteInv'
      BY <1>1, <2>11 DEF CompleteInv
    <2> QED
      BY <1>7, <1>9, <2>5, <2>6, <2>8, <2>10, <2>12
  <1>13. CASE window # "open"
    <2>1. window = "closed" /\ UNCHANGED <<entries, view>>
      BY <1>13 DEF DeliverEvent, UIIdle, WindowTypeOK
    <2>2. ViewInv' /\ CompleteInv'
      BY <1>1, <2>1 DEF ViewInv, CompleteInv
    <2>3. WindowTypeOK' /\ LaterEntriesShownOnce'
      BY <1>1, <1>4, <1>10, <2>1 DEF WindowTypeOK, LaterEntriesShownOnce
    <2>4. EntriesInv'
      <3>1. 1 .. n - (m + 1) \subseteq 1 .. n - m
        OBVIOUS
      <3> QED
        BY <1>1, <1>5, <2>1, <3>1 DEF EntriesInv
    <2> QED
      BY <1>7, <1>9, <2>2, <2>3, <2>4
  <1> QED
    BY <1>12, <1>13

LEMMA FilterChangedStep ==
    ASSUME WindowInv, NEW l \in Levels, FilterChanged(l)
    PROVE  WindowInv'
  <1> USE DEF WindowInv
  <1>1. UNCHANGED <<lock, level, history, history_count, history_next, sinks, calls, writes,
                    accepted, delivered, owed, bridged, events, window, entries, opened_at,
                    rejoined, cleared>>
    BY LogAlone DEF FilterChanged
  <1>2. minimum' = l /\ view' = Filtered(entries, l)
    BY DEF FilterChanged
  <1>3. view' \in Seq(Entry)
    BY <1>2, WindowTypes, FilteredType
  <1>4. TypeOK'
    BY <1>1, WindowTypes DEF TypeOK
  <1>5. WindowTypeOK' /\ ViewInv'
    BY <1>1, <1>2, <1>3, <1>4 DEF WindowTypeOK, ViewInv
  <1>6. BridgeInv' /\ EventsInv' /\ EntriesInv' /\ LaterEntriesShownOnce'
    BY <1>1 DEF BridgeInv, EventsInv, HandedOn, EntriesInv, LaterEntriesShownOnce
  <1>7. CompleteInv'
    BY <1>1 DEF CompleteInv, InWindowOrUnderWay
  <1> QED
    BY <1>5, <1>6, <1>7

\* The window is emptied, by Clear or by being closed.
LEMMA EmptyStep ==
    ASSUME WindowInv, ClearView \/ CloseWindow
    PROVE  WindowInv'
  <1> USE DEF WindowInv
  <1>1. UNCHANGED <<lock, level, history, history_count, history_next, sinks, calls, writes,
                    accepted, delivered, owed, bridged, events, minimum, opened_at, rejoined>>
    BY LogAlone DEF ClearView, CloseWindow
  <1>2. /\ entries' = <<>> /\ view' = <<>> /\ window' \in {"closed", "open"}
        /\ cleared' \in BOOLEAN
        /\ cleared' \/ window' = "closed"
    BY DEF ClearView, CloseWindow, WindowTypeOK
  <1>3. <<>> \in Seq(Entry) /\ DOMAIN <<>> = {}
    OBVIOUS
  <1>4. TypeOK'
    BY <1>1, WindowTypes DEF TypeOK
  <1>5. WindowTypeOK' /\ ViewInv' /\ CompleteInv'
    BY <1>1, <1>2, <1>3, <1>4, FilteredOfNone DEF WindowTypeOK, ViewInv, CompleteInv
  <1>6. BridgeInv' /\ EventsInv' /\ EntriesInv' /\ LaterEntriesShownOnce'
    BY <1>1, <1>2, <1>3 DEF BridgeInv, EventsInv, HandedOn, EntriesInv, LaterEntriesShownOnce
  <1> QED
    BY <1>5, <1>6

-----------------------------------------------------------------------------
(* The theorems about the window.                                          *)

LEMMA InitWindow ==
    ASSUME WindowInit
    PROVE  RingInv /\ DeliveryInv /\ WindowInv
  <1>1. RingInv /\ DeliveryInv
    BY InitRingInv, InitDelivery DEF WindowInit
  <1>2. /\ Init /\ events = <<>> /\ entries = <<>> /\ view = <<>> /\ window = "closed"
        /\ bridged = FALSE /\ rejoined = FALSE /\ cleared = FALSE /\ minimum = NEO_LOG_INFO
        /\ opened_at = 0
    BY DEF WindowInit
  <1>3. <<>> \in Seq(Entry) /\ DOMAIN <<>> = {} /\ Len(<<>>) = 0
    OBVIOUS
  <1>4. WindowTypeOK
    BY <1>1, <1>2, <1>3, LogAssumption DEF WindowTypeOK, DeliveryInv
  <1>5. delivered[bridge] = <<>> /\ accepted = <<>>
    BY <1>2, Bridge DEF Init
  <1>6. BridgeInv /\ ViewInv /\ CompleteInv
    BY <1>2 DEF BridgeInv, ViewInv, CompleteInv
  <1>7. EventsInv /\ EntriesInv /\ LaterEntriesShownOnce
    BY <1>2, <1>3, <1>5 DEF EventsInv, HandedOn, EntriesInv, LaterEntriesShownOnce
  <1> QED
    BY <1>1, <1>4, <1>6, <1>7 DEF WindowInv

\* The window does to the log what threads and registrations may do.
LEMMA WindowIsNext ==
    ASSUME [WindowNext]_allvars
    PROVE  [Next]_vars
  <1>1. ASSUME NEW t \in Threads, WriteStep(t) \/ BridgeSink(t)
        PROVE  Next
    BY <1>1 DEF WriteStep, BridgeSink, Next, Writer
  <1>2. ASSUME NEW t \in Threads, NEW l \in Levels, BeginWrite(t, l)
        PROVE  Next
    BY <1>2 DEF BeginWrite, Next
  <1>3. ASSUME NEW l \in Levels, FilterChanged(l)
        PROVE  UNCHANGED vars
    BY <1>3 DEF FilterChanged
  <1>4. CASE OpenWindow \/ DeliverEvent \/ ClearView \/ CloseWindow
    BY <1>4 DEF OpenWindow, DeliverEvent, ClearView, CloseWindow
  <1>5. CASE ConnectWindow
    <2>1. UNCHANGED vars \/ LogAddSink(bridge)
      BY <1>5 DEF ConnectWindow
    <2> QED
      BY <2>1, Bridge DEF Next
  <1>6. CASE UNCHANGED allvars
    BY <1>6 DEF allvars
  <1> QED
    BY <1>1, <1>2, <1>3, <1>4, <1>5, <1>6 DEF WindowNext

LEMMA NextWindow ==
    ASSUME RingInv, DeliveryInv, WindowInv, [WindowNext]_allvars
    PROVE  RingInv' /\ DeliveryInv' /\ WindowInv'
  <1>1. [Next]_vars
    BY WindowIsNext
  <1>2. RingInv' /\ DeliveryInv' /\ TypeOK'
    BY <1>1, StepRefines, NextDelivery DEF DeliveryInv
  <1>3. ASSUME NEW t \in Threads, WriteStep(t)
        PROVE  WindowInv'
    <2>1. CASE Lock(t) \/ Reject(t) \/ SinkReturns(t)
      BY <1>2, <1>3, <2>1, LockStep, RejectStep, SinkReturnsStep, QuietWindow DEF WriteStep
    <2>2. CASE Accept(t)
      <3>1. PICK e \in Entry, d \in Call : Accepts(t, e, d)
        BY <2>2, AcceptStep
      <3> QED
        BY <1>2, <1>3, <3>1, AcceptWindow DEF WriteStep
    <2> QED
      BY <1>3, <2>1, <2>2 DEF WriteStep
  <1>4. ASSUME NEW t \in Threads, BridgeSink(t)
        PROVE  WindowInv'
    <2>1. PICK c \in Call : \E i \in DOMAIN c.todo, d \in Call : Calls(t, c, i, d)
      BY <1>4, CallSinkStep DEF BridgeSink
    <2>2. PICK i \in DOMAIN c.todo, d \in Call : Calls(t, c, i, d)
      BY <2>1
    <2> QED
      BY <1>2, <1>4, <2>2, CallWindow DEF BridgeSink
  <1>5. ASSUME NEW t \in Threads, NEW l \in Levels, BeginWrite(t, l)
        PROVE  WindowInv'
    BY <1>2, <1>5, LogWriteStep, QuietWindow DEF BeginWrite
  <1>6. ASSUME NEW l \in Levels, FilterChanged(l)
        PROVE  WindowInv'
    BY <1>6, FilterChangedStep
  <1>7. CASE OpenWindow
    BY <1>2, <1>7, OpenWindowStep
  <1>8. CASE ConnectWindow
    BY <1>2, <1>8, ConnectWindowStep
  <1>9. CASE DeliverEvent
    BY <1>2, <1>9, DeliverEventStep
  <1>10. CASE ClearView \/ CloseWindow
    BY <1>2, <1>10, EmptyStep
  <1>11. CASE UNCHANGED allvars
    <2>1. UNCHANGED wvars /\ Quiet
      BY <1>11, LogAlone DEF allvars, Quiet, SameHand
    <2> QED
      BY <1>2, <2>1, QuietWindow
  <1> QED
    BY <1>2, <1>3, <1>4, <1>5, <1>6, <1>7, <1>8, <1>9, <1>10, <1>11 DEF WindowNext

LEMMA AlwaysWindow == WindowSpec => []WindowInv
  <1>1. WindowSpec => [](RingInv /\ DeliveryInv /\ WindowInv)
    BY InitWindow, NextWindow, PTL DEF WindowSpec
  <1> QED
    BY <1>1, PTL

\* The view of the Logs window is the filter of what the window keeps, and no
\* entry logged after it was built stands in it twice: appendEntry, filterChanged,
\* Clear and reopening update the list and the view apart, under a bridge that
\* outlives every window and posts what other threads log meanwhile.
THEOREM WindowShowsFilter == WindowSpec => []ViewIsRight
  <1>1. WindowInv => ViewIsRight
    BY DEF WindowInv, ViewInv, ViewIsRight, ViewIsFiltered
  <1> QED
    BY <1>1, AlwaysWindow, PTL

\* A Logs window opened when the bridge exists misses nothing: each entry of the
\* ring and each later one is in it, in the queue or with the thread that has
\* still to hand it to the bridge, however logging crosses the constructor.
THEOREM ReopenedWindowMissesNothing == WindowSpec => []ReopenedWindowIsComplete
  <1>1. ASSUME WindowInv
        PROVE  ReopenedWindowIsComplete
    <2> DEFINE first == Max({1, opened_at - Capacity + 1})
    <2>1. opened_at \in Nat /\ Capacity \in Nat /\ Len(accepted) \in Nat
      BY <1>1, WindowTypes, LogAssumption DEF WindowInv
    <2>2. first >= 1 /\ first >= opened_at - Capacity + 1 /\ first \in Int
      <3> DEFINE K == {1, opened_at - Capacity + 1}
      <3>1. \E x \in K : \A y \in K : x >= y
        BY <2>1
      <3>2. K \subseteq Int /\ 1 \in K /\ opened_at - Capacity + 1 \in K
        BY <2>1
      <3> HIDE DEF K
      <3>3. Max(K) \in K /\ \A y \in K : Max(K) >= y
        BY <3>1, Zenon DEF Max
      <3> QED
        BY <3>2, <3>3 DEF K
    <2> HIDE DEF first
    <2>3. \A i \in first .. Len(accepted) : i \in 1 .. Len(accepted) /\ i > opened_at - Capacity
      BY <2>1, <2>2
    <2>4. Expected = {accepted[i] : i \in first .. Len(accepted)}
      BY DEF Expected, first
    <2> QED
      BY <1>1, <2>3, <2>4 DEF ReopenedWindowIsComplete, WindowInv, CompleteInv
  <1> QED
    BY <1>1, AlwaysWindow, PTL
=============================================================================
