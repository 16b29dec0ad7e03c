----------------------------- MODULE RunCommand -----------------------------
(***************************************************************************)
(* run_command (monitoring_remote.c) and the four transports above it, as  *)
(* the detached workers of the Qt remote dialog run them: several at once  *)
(* in one process, with one descriptor table.  Each run forks a client     *)
(* (ssh, telnet, curl, tftp), reads its stdout and stderr up to a deadline *)
(* and reaps it.                                                           *)
(*                                                                         *)
(* A step is a system call, or several in a row that only concern the run  *)
(* itself.  What a client writes is a few lines; the parsers only tell a   *)
(* row of the process table from an error text.  Memory does not run out.  *)
(***************************************************************************)
EXTENDS Integers, Sequences, SequencesExt

CONSTANTS
    Runs,             \* the runs, one on each thread
    Assignments,      \* the transports that the runs may use, as functions of Runs
    Texts,            \* what clients write: "row", "error"
    ExitCodes,        \* what clients exit with
    Descriptors,      \* the numbers the table has room for
    MaxOutput,        \* bound on the lines a client writes
    SigpipeIgnored    \* the CLI ignores SIGPIPE, the Qt program does not

ASSUME RunAssumption ==
    /\ Assignments \subseteq [Runs -> {"ssh", "telnet", "ftp", "tftp"}]
    /\ Texts \subseteq {"row", "error"}
    /\ ExitCodes \subseteq Nat
    /\ Descriptors \subseteq Nat
    /\ IsFiniteSet(Descriptors)
    /\ MaxOutput \in Nat
    /\ SigpipeIgnored \in BOOLEAN

Streams == {"out", "err"}
Sides   == {"read", "write"}
End     == [run : Runs, stream : Streams \cup {"in"}, side : Sides]
Free    == [run |-> "none", stream |-> "none", side |-> "none"]
Line    == [by : Runs, text : Texts]

VARIABLES
    driver,      \* the transport of each run
    pc,          \* where run_command is
    table,       \* the process's descriptors
    own,         \* the numbers in stdout_pipe, stderr_pipe, stdin_pipe, in a row
    fds,         \* fds[].fd of the poll loop, -1 when closed
    ready,       \* the streams the last poll reported and the loop has not read
    buffer,      \* what is in each pipe
    captured,    \* stdout_buf and stderr_buf
    child,       \* "none", "running", "ended", "reaped"
    status,      \* how the child ended: its exit code, -1 for a signal
    holds,       \* the pipe ends the child has open
    outcome,     \* what the transport returned
    dead,        \* the process was killed by SIGPIPE
    written,     \* history: what each child wrote
    hit          \* history: runs that had a descriptor closed or read by another run

client == <<child, status, holds, written>>
vars   == <<driver, pc, table, own, fds, ready, buffer, captured, client, outcome,
            dead, hit>>

Nothing == [s \in Streams \cup {"in"} |-> <<>>]

Init ==
    /\ driver \in Assignments
    /\ pc = [r \in Runs |-> "start"]
    /\ table = [n \in Descriptors |-> Free]
    /\ own = [r \in Runs |-> <<>>]
    /\ fds = [r \in Runs |-> [s \in Streams |-> -1]]
    /\ ready = [r \in Runs |-> {}]
    /\ buffer = [r \in Runs |-> Nothing]
    /\ captured = [r \in Runs |-> Nothing]
    /\ child = [r \in Runs |-> "none"]
    /\ status = [r \in Runs |-> 0]
    /\ holds = [r \in Runs |-> {}]
    /\ outcome = [r \in Runs |-> "none"]
    /\ dead = FALSE
    /\ written = [r \in Runs |-> Nothing]
    /\ hit = {}

At(r, label)   == ~dead /\ pc[r] = label
GoTo(r, label) == pc' = [pc EXCEPT ![r] = label]

-----------------------------------------------------------------------------
(* Descriptors and pipes.                                                  *)

EndOf(r, s, side) == [run |-> r, stream |-> s, side |-> side]

\* Some process has this end open.
IsOpen(end) ==
    \/ \E n \in Descriptors : table[n] = end
    \/ \E r \in Runs : end \in holds[r]

\* The lowest number that is free, which is what the kernel hands out.
IsNextFree(n, taken) ==
    /\ n \notin taken /\ table[n] = Free
    /\ \A k \in Descriptors : k < n => k \in taken \/ table[k] # Free

\* Run r closes the numbers; one that is not open is an error nobody looks at.
CloseAll(r, numbers) ==
    /\ table' = [n \in Descriptors |-> IF n \in numbers THEN Free ELSE table[n]]
    /\ hit' = hit \cup {q \in Runs \ {r} : \E n \in numbers : table[n].run = q}

\* The pipes a run opens, in this order; only telnet has something to say.
PipesOf(r) == IF driver[r] = "telnet" THEN <<"out", "err", "in">> ELSE <<"out", "err">>

\* stdout_pipe[0] and so on: the number the local variable holds.
Number(r, s, side) ==
    own[r][(CASE s = "out" -> 1 [] s = "err" -> 3 [] s = "in" -> 5)
           + (IF side = "read" THEN 0 ELSE 1)]

\* run_command, and with it the transport, returns without a child.
GiveUp(r) ==
    /\ CloseAll(r, Range(own[r]))
    /\ outcome' = [outcome EXCEPT ![r] = "failed"]
    /\ GoTo(r, "done")

TwoFree == \E n0, n1 \in Descriptors : IsNextFree(n0, {}) /\ IsNextFree(n1, {n0})

PipeFails(r) ==
    /\ ~TwoFree
    /\ GiveUp(r)
    /\ UNCHANGED own

\* pipe() for the next stream; without two free numbers it fails.
OpenPipe(r) ==
    /\ At(r, "start")
    /\ Len(own[r]) < 2 * Len(PipesOf(r))
    /\ LET s == PipesOf(r)[Len(own[r]) \div 2 + 1]
       IN  \/ \E n0, n1 \in Descriptors :
                 /\ IsNextFree(n0, {}) /\ IsNextFree(n1, {n0})
                 /\ table' = [table EXCEPT ![n0] = EndOf(r, s, "read"),
                                           ![n1] = EndOf(r, s, "write")]
                 /\ own' = [own EXCEPT ![r] = @ \o <<n0, n1>>]
                 /\ UNCHANGED <<pc, outcome, hit>>
           \/ PipeFails(r)
    /\ UNCHANGED <<driver, fds, ready, buffer, captured, client, dead>>

\* The ends of r's pipes that its child uses, and those its parent uses.
UsedByChild(r)  == {Number(r, s, IF s = "in" THEN "read" ELSE "write") :
                       s \in Range(PipesOf(r))}
UsedByParent(r) == {Number(r, s, IF s = "in" THEN "write" ELSE "read") :
                       s \in Range(PipesOf(r))}

StartsPolling(r) ==
    /\ GoTo(r, "poll")
    /\ fds' = [fds EXCEPT ![r] = [s \in Streams |-> Number(r, s, "read")]]

\* fork, or its failure.  The child has a copy of every descriptor the process
\* has, other runs' too, and closes the ends of its own pipes it does not use; the
\* parent closes the ends its child uses.  (Another run that forks between the two
\* inherits what it does when it forks just before.)
Fork(r) ==
    /\ At(r, "start")
    /\ Len(own[r]) = 2 * Len(PipesOf(r))
    /\ \/ /\ child' = [child EXCEPT ![r] = "running"]
          /\ holds' = [holds EXCEPT ![r] =
                {table[n] : n \in Descriptors \ UsedByParent(r)} \ {Free}]
          /\ CloseAll(r, UsedByChild(r))
          /\ IF driver[r] = "telnet" THEN GoTo(r, "write") /\ UNCHANGED fds
                                     ELSE StartsPolling(r)
          /\ UNCHANGED outcome
       \/ GiveUp(r) /\ UNCHANGED <<child, holds, fds>>
    /\ UNCHANGED <<driver, own, ready, buffer, captured, status, written, dead>>

\* The script is written to the client.  If nobody can read it any more the
\* write fails where SIGPIPE is ignored, and kills the process where it is not.
WriteScript(r) ==
    LET n == Number(r, "in", "write")
    IN  /\ At(r, "write")
        /\ IF SigpipeIgnored \/ table[n] = Free \/ table[n].side = "read"
              \/ IsOpen([table[n] EXCEPT !.side = "read"])
           THEN CloseAll(r, {n}) /\ StartsPolling(r) /\ UNCHANGED dead
           ELSE /\ dead' = TRUE
                /\ table' = [k \in Descriptors |-> Free]
                /\ UNCHANGED <<pc, fds, hit>>
        /\ UNCHANGED <<driver, own, ready, buffer, captured, client, outcome>>

-----------------------------------------------------------------------------
(* The poll loop.                                                          *)

\* read(n) would not block: it has data, the end of the file or an error.
Readable(n) ==
    table[n].side = "read" =>
        \/ buffer[table[n].run][table[n].stream] # <<>>
        \/ ~IsOpen([table[n] EXCEPT !.side = "write"])

\* poll reports a stream that can be read, and a write end that nobody reads.
\* A closed number (POLLNVAL) makes it return with nothing the loop looks at.
Reported(r) ==
    {s \in Streams :
        LET n == fds[r][s]
        IN  /\ n # -1 /\ table[n] # Free
            /\ IF table[n].side = "read" THEN Readable(n)
               ELSE ~IsOpen([table[n] EXCEPT !.side = "read"])}

Poll(r) ==
    /\ At(r, "poll")
    /\ Reported(r) # {}
    /\ ready' = [ready EXCEPT ![r] = Reported(r)]
    /\ GoTo(r, "read")
    /\ UNCHANGED <<driver, table, own, fds, buffer, captured, client, outcome, dead,
                   hit>>

\* Stream s is read or closed: the next one, the next turn, or the end of the
\* loop when both are closed.
AfterStream(r, s) ==
    GoTo(r, IF ready[r] # {s} THEN "read"
            ELSE IF \E q \in Streams : fds'[r][q] # -1 THEN "poll" ELSE "reap")

\* read() on the reported streams, stdout first.  It blocks if what was
\* reported is gone; at the end of the file or on an error the stream is closed.
ReadStream(r) ==
    LET s    == IF "out" \in ready[r] THEN "out" ELSE "err"
        n    == fds[r][s]
        from == table[n]
        IsData == from.side = "read" /\ buffer[from.run][from.stream] # <<>>
    IN  /\ At(r, "read")
        /\ ready' = [ready EXCEPT ![r] = @ \ {s}]
        /\ \/ /\ IsData
              /\ captured' = [captured EXCEPT ![r][s] =
                    Append(@, Head(buffer[from.run][from.stream]))]
              /\ buffer' = [buffer EXCEPT ![from.run][from.stream] = Tail(@)]
              /\ hit' = hit \cup ({from.run} \ {r})
              /\ UNCHANGED <<fds, table>>
           \/ /\ ~IsData /\ Readable(n)
              /\ CloseAll(r, {n})
              /\ fds' = [fds EXCEPT ![r][s] = -1]
              /\ UNCHANGED <<captured, buffer>>
        /\ AfterStream(r, s)
        /\ UNCHANGED <<driver, own, client, outcome, dead>>

-----------------------------------------------------------------------------
(* The end of a run.                                                       *)

Says(r, s, text) == \E i \in DOMAIN captured[r][s] : captured[r][s][i].text = text

\* Whether the transport returns 0 for what run_command returned.
remote_ssh_scan(exitCode)   == exitCode = 0
remote_telnet_scan(r)       == Says(r, "out", "row")
remote_ftp_deploy(exitCode) == exitCode = 0
remote_tftp_deploy(r, exitCode, timedOut) ==
    /\ exitCode = 0
    /\ ~Says(r, "out", "error")
    /\ captured[r]["err"] = <<>> /\ ~timedOut   \* the timeout is noted in stderr

Succeeds(r, exitCode, timedOut) ==
    \/ driver[r] = "ssh" /\ remote_ssh_scan(exitCode)
    \/ driver[r] = "telnet" /\ remote_telnet_scan(r)
    \/ driver[r] = "ftp" /\ remote_ftp_deploy(exitCode)
    \/ driver[r] = "tftp" /\ remote_tftp_deploy(r, exitCode, timedOut)

\* Mutant: what a client that ended in time reported is returned after a timeout.
ExitCodeOfStatus(r, timedOut) == status'[r]

\* What run_command returns.
ExitCode(r, timedOut) == IF timedOut THEN -1 ELSE status'[r]

Return(r, timedOut) ==
    /\ outcome' = [outcome EXCEPT ![r] =
          IF Succeeds(r, ExitCode(r, timedOut), timedOut) THEN "ok" ELSE "failed"]
    /\ GoTo(r, "done")

\* waitpid, which waits for as long as the client runs.
WaitForChild(r) ==
    /\ child[r] = "ended"
    /\ child' = [child EXCEPT ![r] = "reaped"]
    /\ UNCHANGED <<status, holds>>

\* kill and waitpid; a client that has ended keeps its status.
KillAndWait(r) ==
    /\ child' = [child EXCEPT ![r] = "reaped"]
    /\ status' = [status EXCEPT ![r] = IF child[r] = "running" THEN -1 ELSE @]
    /\ holds' = [holds EXCEPT ![r] = {}]

\* Mutant: only stdout is closed.
CloseStdoutOnly(r) == CloseAll(r, {Number(r, "out", "read")})

\* Both read ends are closed by the numbers in stdout_pipe and stderr_pipe, also
\* one the loop has closed and another run may have got since.
CloseReadEnds(r) == CloseAll(r, {Number(r, s, "read") : s \in Streams})

\* The deadline passes, which the loop finds wherever poll was waiting.
TimeOut(r) ==
    /\ At(r, "poll")
    /\ KillAndWait(r)
    /\ CloseReadEnds(r)
    /\ Return(r, TRUE)
    /\ UNCHANGED <<driver, own, fds, ready, buffer, captured, written, dead>>

Reap(r) ==
    /\ At(r, "reap")
    /\ WaitForChild(r)
    /\ Return(r, FALSE)
    /\ UNCHANGED <<driver, table, own, fds, ready, buffer, captured, written, dead,
                   hit>>

-----------------------------------------------------------------------------
(* The client, whose program and whose host may do anything.               *)

outside == <<driver, pc, table, own, fds, ready, captured, outcome, dead, hit>>

ClientEnds(r, code) ==
    /\ child' = [child EXCEPT ![r] = "ended"]
    /\ status' = [status EXCEPT ![r] = code]
    /\ holds' = [holds EXCEPT ![r] = {}]

\* A line to stdout or stderr; without a reader it is the client's end.
ClientWrites(r, s, text) ==
    LET line == [by |-> r, text |-> text]
    IN  /\ child[r] = "running"
        /\ EndOf(r, s, "write") \in holds[r]
        /\ Len(written[r]["out"]) + Len(written[r]["err"]) < MaxOutput
        /\ written' = [written EXCEPT ![r][s] = Append(@, line)]
        /\ IF IsOpen(EndOf(r, s, "read"))
           THEN /\ buffer' = [buffer EXCEPT ![r][s] = Append(@, line)]
                /\ UNCHANGED <<child, status, holds>>
           ELSE ClientEnds(r, -1) /\ UNCHANGED buffer
        /\ UNCHANGED outside

\* It closes its output and goes on, as a program that becomes a daemon does.
ClientCloses(r) ==
    /\ child[r] = "running"
    /\ holds' = [holds EXCEPT ![r] = @ \ {EndOf(r, s, "write") : s \in Streams}]
    /\ UNCHANGED <<outside, buffer, child, status, written>>

ClientExits(r, code) ==
    /\ child[r] = "running"
    /\ ClientEnds(r, code)
    /\ UNCHANGED <<outside, buffer, written>>

Run(r) ==
    \/ OpenPipe(r) \/ Fork(r) \/ WriteScript(r)
    \/ Poll(r) \/ ReadStream(r) \/ TimeOut(r) \/ Reap(r)

Client(r) ==
    \/ \E s \in Streams, text \in Texts : ClientWrites(r, s, text)
    \/ ClientCloses(r)
    \/ \E code \in ExitCodes : ClientExits(r, code)

Next == \E r \in Runs : Run(r) \/ Client(r)

Spec == Init /\ [][Next]_vars

\* The threads run and deadlines pass.  Clients owe nothing.
FairSpec == Spec /\ \A r \in Runs : WF_vars(Run(r))

-----------------------------------------------------------------------------

Captures == [Streams \cup {"in"} -> Seq(Line)]

TypeOK ==
    /\ driver \in Assignments
    /\ pc \in [Runs -> {"start", "write", "poll", "read", "reap", "done"}]
    /\ table \in [Descriptors -> End \cup {Free}]
    /\ own \in [Runs -> Seq(Descriptors)]
    /\ fds \in [Runs -> [Streams -> Descriptors \cup {-1}]]
    /\ ready \in [Runs -> SUBSET Streams]
    /\ buffer \in [Runs -> Captures] /\ captured \in [Runs -> Captures]
    /\ child \in [Runs -> {"none", "running", "ended", "reaped"}]
    /\ status \in [Runs -> ExitCodes \cup {-1, 0}]
    /\ holds \in [Runs -> SUBSET End]
    /\ outcome \in [Runs -> {"none", "ok", "failed"}]
    /\ dead \in BOOLEAN
    /\ written \in [Runs -> Captures]
    /\ hit \subseteq Runs

\* "Returns 0 on success; -1 on failure" (monitoring_remote.h:58): a transport
\* that reports success has what its own client said, and, but for telnet, whose
\* session may be cut short, all of it, from a client that exited with 0.
\* A run whose descriptors another run closed under it, or which lost output to such
\* a run that went on to read the number it had, is not spoken of.
SuccessIsOwn ==
    \A r \in Runs : outcome[r] = "ok" /\ r \notin hit =>
        /\ \A s \in Streams : IsPrefix(captured[r][s], written[r][s])
        /\ driver[r] # "telnet" => status[r] = 0 /\ captured[r] = written[r]

\* When all runs have returned, every pipe is closed and every client reaped,
\* whatever failed, timed out or was closed by another run.
NothingLeftOpen ==
    (\A r \in Runs : pc[r] = "done") =>
        /\ \A n \in Descriptors : table[n] = Free
        /\ \A r \in Runs : child[r] \in {"none", "reaped"}

\* One descriptor table serves all runs: through forks, failing pipes, timeouts
\* and closes of numbers reused by others it stays sound, and ends empty.
TableIsSound == TypeOK /\ NothingLeftOpen

\* The client has closed its streams, or never had them, and does not end.
Lingers(r) == pc[r] = "reap" /\ child[r] = "running"

\* The command "enforces an overall wall-clock timeout" (monitoring_remote.c:95)
\* but for two cases: it returns unless the client closes its output and lingers,
\* or another run closes its descriptors, whatever other clients have inherited.
RunsReturn ==
    <>[](\A r \in Runs : pc[r] = "done" \/ dead \/ Lingers(r) \/ r \in hit)
=============================================================================
