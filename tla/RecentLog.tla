----------------------------- MODULE RecentLog -----------------------------
(***************************************************************************)
(* What monitoring_log.h promises of the in-memory history: the most       *)
(* recent entries that passed the severity threshold, oldest first, as     *)
(* many as the caller's array holds and Capacity at most.  LogRing         *)
(* implements it with a circular array.                                    *)
(***************************************************************************)
EXTENDS Integers, Sequences

CONSTANTS
    Levels,     \* the severities; a smaller number is more severe
    Capacity    \* how many entries are kept

VARIABLES
    recent,     \* the kept entries a caller is given, by the size of its array
    threshold   \* the least severe level that is recorded

vars == <<recent, threshold>>

\* The sizes of array that make a difference.
Sizes == 1 .. Capacity

\* The last n elements of s, or all of them.
LastOf(s, n) == IF Len(s) <= n THEN s ELSE SubSeq(s, Len(s) - n + 1, Len(s))

Init ==
    /\ recent = [n \in Sizes |-> <<>>]
    /\ threshold \in Levels

\* A new entry, any that passes the threshold, is the last one then.
Record ==
    LET e == recent'[1][1]
    IN  /\ recent'[1] # <<>>
        /\ e.level <= threshold
        /\ recent' = [n \in Sizes |-> LastOf(Append(recent[Capacity], e), n)]
        /\ UNCHANGED threshold

SetThreshold(l) ==
    /\ threshold' = l
    /\ UNCHANGED recent

Next ==
    \/ \E l \in Levels : SetThreshold(l)
    \/ Record

Spec == Init /\ [][Next]_vars
=============================================================================
