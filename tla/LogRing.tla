------------------------------ MODULE LogRing ------------------------------
(***************************************************************************)
(* monitoring_log.c: any thread may call log_write, which under one mutex  *)
(* filters by severity, pushes the entry into a circular array of recent   *)
(* entries and copies the sink table, and then, the mutex released, calls  *)
(* the copied sinks one after the other.  A sink may itself call           *)
(* log_write, so a thread carries a stack of calls.                        *)
(*                                                                         *)
(* Everything the module keeps is read and written under g_log.lock; the   *)
(* log file is output only and is left out.                                *)
(***************************************************************************)
EXTENDS Integers, SequencesExt

CONSTANTS
    Threads,     \* the threads that log
    Sinks,       \* the (callback, user_data) pairs that may be registered
    Levels,      \* severities; a smaller number is more severe
    Capacity,    \* LOG_HISTORY_CAPACITY
    MaxSinks,    \* NEO_LOG_MAX_SINKS
    MaxWrites,   \* bound on the calls of log_write
    MaxDepth,    \* bound on log_write calls nested through sinks
    Nobody       \* the mutex is free; a sink slot is empty

NEO_LOG_INFO == 2

ASSUME LogAssumption ==
    /\ Levels \subseteq Int
    /\ NEO_LOG_INFO \in Levels
    /\ Capacity \in Nat \ {0}
    /\ MaxSinks \in Nat
    /\ MaxWrites \in Nat
    /\ MaxDepth \in Nat \ {0}
    /\ Nobody \notin Threads \cup Sinks

VARIABLES
    lock,           \* g_log.lock
    level,          \* g_log.level
    history,        \* g_log.history
    history_count,  \* g_log.history_count
    history_next,   \* g_log.history_next
    sinks,          \* g_log.sinks
    calls,          \* the log_write calls each thread is in, innermost last
    writes,         \* history: how often log_write was called
    accepted,       \* history: the entries that passed the threshold, in order
    delivered,      \* history: the entries each sink was called with, in order
    owed            \* history: (entry, sink) pairs due when the entry was accepted

log  == <<level, history, history_count, history_next, sinks>>
vars == <<lock, log, calls, writes, accepted, delivered, owed>>

\* What is known of an entry; `nested` marks one that a sink has logged.
NoEntry == [id |-> 0, by |-> Nobody, level |-> 0, nested |-> FALSE]
Entry   == [id : 1 .. MaxWrites, by : Threads, level : Levels, nested : BOOLEAN]

\* One activation of log_write: before the mutex, holding it, between two
\* sinks, or inside one.  `todo` is what is left of sinks_copy.
Copy == UNION {[S -> Sinks] : S \in SUBSET (1 .. MaxSinks)}
Call == [phase : {"enter", "locked", "notify", "calling"},
         level : Levels, entry : Entry \cup {NoEntry}, todo : Copy]

Init ==
    /\ lock = Nobody
    /\ level = NEO_LOG_INFO
    /\ history = [i \in 0 .. Capacity - 1 |-> NoEntry]
    /\ history_count = 0
    /\ history_next = 0
    /\ sinks = [i \in 1 .. MaxSinks |-> Nobody]
    /\ calls = [t \in Threads |-> <<>>]
    /\ writes = 0
    /\ accepted = <<>>
    /\ delivered = [s \in Sinks |-> <<>>]
    /\ owed = {}

InPhase(t, phase) == calls[t] # <<>> /\ Last(calls[t]).phase = phase

\* The innermost call of t goes on as c.
Become(t, c) == calls' = [calls EXCEPT ![t] = Append(Front(@), c)]

\* The innermost call of t returns.
Return(t) == calls' = [calls EXCEPT ![t] = Front(@)]

InSink(t) == \E i \in DOMAIN calls[t] : calls[t][i].phase = "calling"

-----------------------------------------------------------------------------
(* log_write                                                               *)

\* Mutant: an entry is logged while the last one is still being handed out.
LogWriteWhileNotifying(t, l) ==
    /\ writes < MaxWrites
    /\ calls[t] = <<>> \/ InPhase(t, "notify")
    /\ calls' = [calls EXCEPT ![t] =
                    Append(@, [phase |-> "enter", level |-> l,
                               entry |-> NoEntry, todo |-> <<>>])]
    /\ writes' = writes + 1
    /\ UNCHANGED <<lock, log, accepted, delivered, owed>>

\* A thread calls log_write, from its own code or from inside a sink.
LogWrite(t, l) ==
    /\ writes < MaxWrites
    /\ calls[t] = <<>> \/ (InPhase(t, "calling") /\ Len(calls[t]) < MaxDepth)
    /\ calls' = [calls EXCEPT ![t] =
                    Append(@, [phase |-> "enter", level |-> l,
                               entry |-> NoEntry, todo |-> <<>>])]
    /\ writes' = writes + 1
    /\ UNCHANGED <<lock, log, accepted, delivered, owed>>

\* Mutant: a thread does not get in again while it hands out an entry.
LockOnce(t) ==
    /\ InPhase(t, "enter")
    /\ lock = Nobody
    /\ ~InSink(t)
    /\ lock' = t
    /\ Become(t, [Last(calls[t]) EXCEPT !.phase = "locked"])
    /\ UNCHANGED <<log, writes, accepted, delivered, owed>>

Lock(t) ==
    /\ InPhase(t, "enter")
    /\ lock = Nobody
    /\ lock' = t
    /\ Become(t, [Last(calls[t]) EXCEPT !.phase = "locked"])
    /\ UNCHANGED <<log, writes, accepted, delivered, owed>>

\* A smaller number is more severe: at least as severe as the threshold.
Passes(c) == c.level <= level

\* Below the configured severity: the entry is dropped.
Reject(t) ==
    /\ InPhase(t, "locked")
    /\ ~Passes(Last(calls[t]))
    /\ lock' = Nobody
    /\ Return(t)
    /\ UNCHANGED <<log, writes, accepted, delivered, owed>>

\* Mutant: the copy stops at the first free slot.
SinksCopyToFirstGap ==
    Restrict(sinks, {i \in DOMAIN sinks : \A j \in 1 .. i : sinks[j] # Nobody})

\* sinks_copy: the registered sinks, each at its slot; they are called in the
\* order of their slots.
SinksCopy == Restrict(sinks, {i \in DOMAIN sinks : sinks[i] # Nobody})

\* history_count saturates at the capacity.
CountNext == IF history_count < Capacity THEN history_count + 1 ELSE history_count

\* The rest of the critical section: the entry enters the ring, the sink
\* table is copied, the mutex released.  Without sinks the call returns.
Accept(t) ==
    LET c == Last(calls[t])
        e == [id |-> Len(accepted) + 1, by |-> t, level |-> c.level,
              nested |-> InSink(t)]
    IN  /\ InPhase(t, "locked")
        /\ Passes(c)
        /\ history' = [history EXCEPT ![history_next] = e]
        /\ history_next' = (history_next + 1) % Capacity
        /\ history_count' = CountNext
        /\ lock' = Nobody
        /\ IF DOMAIN SinksCopy = {}
           THEN Return(t)
           ELSE Become(t, [c EXCEPT !.phase = "notify", !.entry = e,
                                    !.todo = SinksCopy])
        /\ accepted' = Append(accepted, e)
        /\ owed' = owed \cup {<<e, sinks[i]>> :
                                 i \in {j \in DOMAIN sinks : sinks[j] # Nobody}}
        /\ UNCHANGED <<level, sinks, writes, delivered>>

\* The next copied sink is called, whether or not it is still registered.
CallSink(t) ==
    LET c == Last(calls[t])
    IN  /\ InPhase(t, "notify")
        /\ \E i \in DOMAIN c.todo :
              /\ \A j \in DOMAIN c.todo : i <= j
              /\ delivered' = [delivered EXCEPT ![c.todo[i]] = Append(@, c.entry)]
              /\ Become(t, [c EXCEPT !.phase = "calling",
                                     !.todo = Restrict(@, DOMAIN @ \ {i})])
        /\ UNCHANGED <<lock, log, writes, accepted, owed>>

\* The sink returns; after the last one so does log_write.
SinkReturns(t) ==
    LET c == Last(calls[t])
    IN  /\ InPhase(t, "calling")
        /\ IF DOMAIN c.todo = {} THEN Return(t)
                                 ELSE Become(t, [c EXCEPT !.phase = "notify"])
        /\ UNCHANGED <<lock, log, writes, accepted, delivered, owed>>

-----------------------------------------------------------------------------
(* The other operations; each holds the mutex for all it does.             *)

\* log_init, of which only the threshold concerns the history and the sinks.
LogInit(l) ==
    /\ lock = Nobody
    /\ level' = l
    /\ UNCHANGED <<lock, history, history_count, history_next, sinks, calls,
                   writes, accepted, delivered, owed>>

\* log_add_sink: the first free slot.  The program registers a sink once.
LogAddSink(s) ==
    LET free == {i \in DOMAIN sinks : sinks[i] = Nobody}
    IN  /\ lock = Nobody
        /\ \A i \in DOMAIN sinks : sinks[i] # s
        /\ \E i \in free :
              /\ \A j \in free : i <= j
              /\ sinks' = [sinks EXCEPT ![i] = s]
        /\ UNCHANGED <<lock, level, history, history_count, history_next, calls,
                       writes, accepted, delivered, owed>>

\* log_remove_sink: copies taken before it are still called.
LogRemoveSink(s) ==
    /\ lock = Nobody
    /\ \E i \in DOMAIN sinks :
          /\ sinks[i] = s
          /\ sinks' = [sinks EXCEPT ![i] = Nobody]
    /\ UNCHANGED <<lock, level, history, history_count, history_next, calls,
                   writes, accepted, delivered, owed>>

\* Mutant: the ring is read from its first slot.
CopyRecentFromZero(max_count) ==
    LET count == IF history_count < max_count THEN history_count ELSE max_count
    IN  [i \in 1 .. count |-> history[(i - 1) % Capacity]]

\* log_copy_recent: the last entries, oldest first, at most max_count.
CopyRecent(max_count) ==
    LET count == IF history_count < max_count THEN history_count ELSE max_count
        start == (history_next + Capacity - count) % Capacity
    IN  [i \in 1 .. count |-> history[(start + i - 1) % Capacity]]

Writer(t) == Lock(t) \/ Reject(t) \/ Accept(t) \/ CallSink(t) \/ SinkReturns(t)

Next ==
    \/ \E t \in Threads : Writer(t) \/ \E l \in Levels : LogWrite(t, l)
    \/ \E l \in Levels : LogInit(l)
    \/ \E s \in Sinks : LogAddSink(s) \/ LogRemoveSink(s)

Spec == Init /\ [][Next]_vars
-----------------------------------------------------------------------------

TypeOK ==
    /\ lock \in Threads \cup {Nobody}
    /\ level \in Levels
    /\ history \in [0 .. Capacity - 1 -> Entry \cup {NoEntry}]
    /\ history_count \in 0 .. Capacity
    /\ history_next \in 0 .. Capacity - 1
    /\ sinks \in [1 .. MaxSinks -> Sinks \cup {Nobody}]
    /\ calls \in [Threads -> Seq(Call)]
    /\ writes \in 0 .. MaxWrites
    /\ accepted \in Seq(Entry)
    /\ delivered \in [Sinks -> Seq(Entry)]
    /\ owed \subseteq Entry \X Sinks

\* A sink is not called twice with an entry, however calls interleave and nest.
NoDuplicateDelivery == \A s \in Sinks : IsInjective(delivered[s])

\* A sink registered when an entry was accepted has received it, or the thread
\* that logged it is still on its way there, even if the sink was removed.
NothingDropped ==
    \A pair \in owed :
        \/ \E i \in DOMAIN delivered[pair[2]] : delivered[pair[2]][i] = pair[1]
        \/ \E i \in DOMAIN calls[pair[1].by] :
              LET c == calls[pair[1].by][i]
              IN  c.entry = pair[1] /\ \E j \in DOMAIN c.todo : c.todo[j] = pair[2]

\* A sink that was not registered when an entry was accepted never receives it,
\* though it be added while the entry is handed out.
NothingUnasked ==
    \A s \in Sinks : \A k \in DOMAIN delivered[s] : <<delivered[s][k], s>> \in owed

\* The hand-out works on a copy of the sink table made under the mutex and is
\* finished without it: every sink registered when an entry was accepted gets
\* the entry exactly once, and no other sink gets it, whatever other threads
\* write, add or remove between.
ExactlyOnce == TypeOK /\ NoDuplicateDelivery /\ NothingDropped /\ NothingUnasked

\* What one thread logs reaches a sink in the order it was logged; only what a
\* sink has logged can overtake, namely the entry that sink was called with.
SinkKeepsThreadOrder ==
    \A s \in Sinks : \A i, j \in DOMAIN delivered[s] :
        /\ i < j
        /\ delivered[s][i].by = delivered[s][j].by
        /\ ~delivered[s][i].nested
        => delivered[s][i].id < delivered[s][j].id

\* log_write always returns: no caller is stuck behind the mutex, and a sink that
\* logs, while other threads log too, "can never deadlock against it"
\* (monitoring_log.c:215-217).
WriteReturns ==
    \A t \in Threads : calls[t] # <<>> ~> calls[t] = <<>>

\* The circular array, with its two counters that wrap and saturate, implements
\* the bounded list of RecentLog: log_copy_recent gives every caller, whatever
\* the size of its array, the newest entries accepted, oldest first.
Recent == INSTANCE RecentLog WITH
              recent <- [n \in 1 .. Capacity |-> CopyRecent(n)], threshold <- level
ImplementsRecentLog == Recent!Spec
=============================================================================
