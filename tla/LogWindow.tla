----------------------------- MODULE LogWindow -----------------------------
(***************************************************************************)
(* The Qt Logs window over LogRing (qt_log_window.cpp).  NeoLogBridge, a   *)
(* singleton created by the first window, is the only sink: called on the  *)
(* logging thread, it posts the entry to the UI thread's event queue.  The *)
(* window copies the recent entries when it is built and then appends what *)
(* the event loop delivers; its view shows the entries that pass the       *)
(* selected minimum level (the 5000 lines the view is limited to are not   *)
(* reached).  Qt never calls log_init or removes the bridge while it runs. *)
(* A sink may log.  The bridge does not; so that what a sink that does     *)
(* meets is seen here as well, a thread that is not the UI's may log from  *)
(* inside it, to the depth of MaxDepth.                                    *)
(***************************************************************************)
EXTENDS LogRing

CONSTANTS UI,       \* the thread that runs the event loop
          bridge    \* NeoLogBridge::sink with its bridge

ASSUME WindowAssumption == UI \in Threads /\ Sinks = {bridge}

VARIABLES
    bridged,    \* NeoLogBridge::instance() has been constructed
    events,     \* functors posted to the bridge, not yet run
    window,     \* "closed", "opening" (history copied, not connected), "open"
    entries,    \* m_entries
    minimum,    \* the level selected in m_levelFilter
    view,       \* the lines of m_view
    opened_at,  \* history: how many entries were accepted at the copy
    rejoined,   \* history: the bridge existed before this window was built
    cleared     \* history: Clear was pressed in this window

wvars == <<bridged, events, window, entries, minimum, view, opened_at, rejoined, cleared>>
allvars == <<vars, wvars>>

\* filterChanged and the constructor: one entry after the other is appended to
\* the view if it passes passesFilter.
Filtered(s, min) ==
    LET shown[n \in 0 .. Len(s)] ==
            IF n = 0 THEN <<>>
            ELSE IF s[n].level <= min THEN Append(shown[n - 1], s[n]) ELSE shown[n - 1]
    IN  shown[Len(s)]

WindowInit ==
    /\ Init
    /\ bridged = FALSE
    /\ events = <<>>
    /\ window = "closed"
    /\ entries = <<>>
    /\ minimum = NEO_LOG_INFO
    /\ view = <<>>
    /\ opened_at = 0
    /\ rejoined = FALSE
    /\ cleared = FALSE

\* The UI thread is in its event loop, not inside log_write or a constructor.
UIIdle == calls[UI] = <<>> /\ window # "opening"

-----------------------------------------------------------------------------
(* The logging side: log_write as in LogRing, with the bridge as sink.     *)

BeginWrite(t, l) ==
    /\ t = UI => UIIdle
    /\ LogWrite(t, l)
    /\ UNCHANGED wvars

WriteStep(t) ==
    /\ Lock(t) \/ Reject(t) \/ Accept(t) \/ SinkReturns(t)
    /\ UNCHANGED wvars

\* NeoLogBridge::sink: the entry is copied into a queued functor.
BridgeSink(t) ==
    /\ CallSink(t)
    /\ events' = Append(events, Last(calls[t]).entry)
    /\ UNCHANGED <<bridged, window, entries, minimum, view, opened_at,
                   rejoined, cleared>>

-----------------------------------------------------------------------------
(* The UI thread.                                                          *)

\* showLogWindow without a window: the constructor selects Info and copies the
\* history.
OpenWindow ==
    /\ UIIdle
    /\ window = "closed"
    /\ lock = Nobody
    /\ window' = "opening"
    /\ minimum' = NEO_LOG_INFO
    /\ entries' = CopyRecent(Capacity)
    /\ view' = Filtered(CopyRecent(Capacity), NEO_LOG_INFO)
    /\ opened_at' = Len(accepted)
    /\ rejoined' = bridged
    /\ cleared' = FALSE
    /\ UNCHANGED <<vars, bridged, events>>

\* The rest of the constructor: instance(), which registers the sink the first
\* time, and the connection to the bridge's signal.
ConnectWindow ==
    /\ window = "opening"
    /\ window' = "open"
    /\ bridged' = TRUE
    /\ IF bridged THEN UNCHANGED vars ELSE LogAddSink(bridge)
    /\ UNCHANGED <<events, entries, minimum, view, opened_at, rejoined, cleared>>

\* Mutant: an entry the filter hides is not kept.
DeliverEventUnlessHidden ==
    LET e == Head(events)
        new == Filtered(<<e>>, minimum)
    IN  /\ UIIdle
        /\ events # <<>>
        /\ events' = Tail(events)
        /\ IF window = "open"
           THEN /\ entries' = entries \o new
                /\ view' = view \o new
           ELSE UNCHANGED <<entries, view>>
        /\ UNCHANGED <<vars, bridged, window, minimum, opened_at, rejoined, cleared>>

\* Mutant: an entry the filter hides is put off until it is lifted.
DeliverEventWhenShown ==
    LET e == Head(events)
    IN  /\ UIIdle
        /\ events # <<>>
        /\ window = "open" => e.level <= minimum
        /\ events' = Tail(events)
        /\ IF window = "open"
           THEN /\ entries' = Append(entries, e)
                /\ view' = Append(view, e)
           ELSE UNCHANGED <<entries, view>>
        /\ UNCHANGED <<vars, bridged, window, minimum, opened_at, rejoined, cleared>>

\* The event loop runs the next functor: entryLogged reaches appendEntry if a
\* window is connected, nobody otherwise.
DeliverEvent ==
    LET e == Head(events)
    IN  /\ UIIdle
        /\ events # <<>>
        /\ events' = Tail(events)
        /\ IF window = "open"
           THEN /\ entries' = Append(entries, e)
                /\ view' = view \o Filtered(<<e>>, minimum)
           ELSE UNCHANGED <<entries, view>>
        /\ UNCHANGED <<vars, bridged, window, minimum, opened_at, rejoined, cleared>>

\* Mutant: lines already shown stay when the filter gets narrower.
FilterChangedKeepsLines(min) ==
    /\ UIIdle
    /\ window = "open"
    /\ min # minimum
    /\ minimum' = min
    /\ UNCHANGED <<vars, bridged, events, window, entries, view, opened_at,
                   rejoined, cleared>>

\* filterChanged: the view is rebuilt from all entries.
FilterChanged(min) ==
    /\ UIIdle
    /\ window = "open"
    /\ min # minimum
    /\ minimum' = min
    /\ view' = Filtered(entries, min)
    /\ UNCHANGED <<vars, bridged, events, window, entries, opened_at,
                   rejoined, cleared>>

\* clearView: entries and view are emptied.
ClearView ==
    /\ UIIdle
    /\ window = "open"
    /\ entries # <<>>
    /\ entries' = <<>>
    /\ view' = <<>>
    /\ cleared' = TRUE
    /\ UNCHANGED <<vars, bridged, events, window, minimum, opened_at, rejoined>>

\* The window is closed and deleted (WA_DeleteOnClose); the bridge lives on.
CloseWindow ==
    /\ UIIdle
    /\ window = "open"
    /\ window' = "closed"
    /\ entries' = <<>>
    /\ view' = <<>>
    /\ UNCHANGED <<vars, bridged, events, minimum, opened_at, rejoined, cleared>>

WindowNext ==
    \/ \E t \in Threads : WriteStep(t) \/ BridgeSink(t)
    \/ \E t \in Threads, l \in Levels : BeginWrite(t, l)
    \/ \E l \in Levels : FilterChanged(l)
    \/ OpenWindow \/ ConnectWindow \/ DeliverEvent \/ ClearView \/ CloseWindow

WindowSpec == WindowInit /\ [][WindowNext]_allvars

\* Threads inside log_write run on, and the event loop keeps turning.
WindowFairSpec ==
    /\ WindowSpec
    /\ \A t \in Threads : WF_allvars(WriteStep(t) \/ BridgeSink(t))
    /\ WF_allvars(ConnectWindow \/ DeliverEvent)

-----------------------------------------------------------------------------

WindowTypeOK ==
    /\ TypeOK
    /\ bridged \in BOOLEAN
    /\ events \in Seq(Entry)
    /\ window \in {"closed", "opening", "open"}
    /\ entries \in Seq(Entry)
    /\ minimum \in Levels
    /\ view \in Seq(Entry)
    /\ opened_at \in Nat
    /\ rejoined \in BOOLEAN
    /\ cleared \in BOOLEAN

\* The view shows what the selected minimum level lets through of everything
\* kept: "the full history is kept regardless" (QT_GUI_GUIDE.md:68).
ViewIsFiltered == window = "open" => view = Filtered(entries, minimum)

\* Of what is logged after the history was copied nothing is shown twice: the
\* bridge registers once and hands on each entry once, however many windows came
\* before.  (What is logged before the copy and delivered after it is shown twice.)
LaterEntriesShownOnce ==
    \A i, j \in DOMAIN entries :
        entries[i] = entries[j] /\ entries[i].id > opened_at => i = j

\* The window is updated entry by entry, rebuilt on a change of the level, and
\* fed by a bridge that outlives it; all the same the view is always the filter
\* of what is kept, and no later entry stands in it twice.
ViewIsRight == WindowTypeOK /\ ViewIsFiltered /\ LaterEntriesShownOnce

\* The entry is in the window, in the event queue, or with the thread that
\* logged it on its way to the bridge.
InWindowOrUnderWay(e) ==
    \/ e \in Range(entries)
    \/ e \in Range(events)
    \/ \E i \in DOMAIN calls[e.by] :
          calls[e.by][i].entry = e /\ DOMAIN calls[e.by][i].todo # {}

\* The entries an open, uncleared window has to account for: those the ring
\* held when the window was built and every later one.
Expected == {accepted[i] : i \in Max({1, opened_at - Capacity + 1}) .. Len(accepted)}

\* A reopened window misses nothing: what was logged while it was closed is
\* copied, what is logged from then on arrives through the bridge.
ReopenedWindowIsComplete ==
    window = "open" /\ rejoined /\ ~cleared =>
        \A e \in Expected : InWindowOrUnderWay(e)

\* And it gets there: the entries of a window that stays open all reach it.
EntriesArrive ==
    \A n \in 1 .. MaxWrites :
        (window = "open" /\ rejoined /\ Len(accepted) >= n)
            ~> (window # "open" \/ cleared \/ (n <= opened_at - Capacity)
                \/ \E i \in DOMAIN entries : entries[i].id = n)

\* The same of every window, the first one included: "log messages that arrive
\* while no window is open must not be lost" (qt_log_window.cpp:26-29).
WindowIsComplete ==
    window = "open" /\ ~cleared => \A e \in Expected : InWindowOrUnderWay(e)
=============================================================================
