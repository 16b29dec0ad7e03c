-------------------------- MODULE RunCommandProofs --------------------------
(***************************************************************************)
(* Any number of runs share one table of descriptors, of any size, with    *)
(* clients that do what they like: when all have returned the table is     *)
(* empty and every client is reaped, and a run that reports success, and   *)
(* that no other run took anything from, has what its own client wrote.    *)
(*                                                                         *)
(* The argument has two halves.  An entry of the table is always one that  *)
(* its run will still close, by a number it has kept (TableInv); that      *)
(* needs nothing of the other runs.  And as long as no other run has       *)
(* closed or read a descriptor of a run, the numbers it has are its own    *)
(* pipes, with what its client wrote split between buffer and pipe         *)
(* (DataInv); here the other runs must leave things as they are            *)
(* (OthersKeep).                                                           *)
(***************************************************************************)
EXTENDS RunCommand, SequenceTheorems, FiniteSetTheorems, TLAPS

All == Streams \cup {"in"}

\* The streams whose pipe run r has opened.
Opened(r) ==
    {s \in All : \/ s = "out" /\ Len(own[r]) >= 2
                 \/ s = "err" /\ Len(own[r]) >= 4
                 \/ s = "in" /\ Len(own[r]) >= 6}

\* Where a run is, and what it has then.
StageInv(r) ==
    /\ Len(own[r]) \in {0, 2, 4, 6}
    /\ Len(own[r]) <= 2 * Len(PipesOf(r))
    /\ pc[r] = "start" => child[r] = "none"
    /\ pc[r] \notin {"start", "done"} =>
          /\ Len(own[r]) = 2 * Len(PipesOf(r))
          /\ child[r] \in {"running", "ended"}
    /\ pc[r] = "write" => driver[r] = "telnet"
    /\ pc[r] \in {"poll", "read"} =>
          \A s \in Streams : fds[r][s] \in {-1, Number(r, s, "read")}
    /\ pc[r] = "read" => ready[r] # {} /\ \A s \in ready[r] : fds[r][s] # -1
    /\ pc[r] = "reap" => \A s \in Streams : fds[r][s] = -1
    /\ pc[r] = "done" => child[r] \in {"none", "reaped"}
    /\ pc[r] # "done" => outcome[r] = "none"

\* Number n is one that run r will close yet.
ClosesYet(r, n) ==
    \/ pc[r] = "start" /\ \E s \in Opened(r), side \in Sides : n = Number(r, s, side)
    \/ pc[r] = "write" /\ \/ \E s \in Streams : n = Number(r, s, "read")
                          \/ n = Number(r, "in", "write")
    \/ pc[r] \in {"poll", "read"} /\ \E s \in Streams : n = fds[r][s]

\* Nothing of run r is open that r does not know of.
TableInv(r) ==
    \A n \in Descriptors : table[n] # Free /\ table[n].run = r => ClosesYet(r, n)

\* Run r has the read end of s open, has closed it.
Reading(r, s) == pc[r] = "write" \/ (pc[r] \in {"poll", "read"} /\ fds[r][s] # -1)
HasRead(r, s) == pc[r] \in {"poll", "read", "reap"} /\ fds[r][s] = -1

\* A run no other has disturbed: its numbers are its pipes; what the client wrote
\* is what was captured and what is in the pipe, and after the end of the file
\* nobody can write any more.
DataInv(r) ==
    /\ pc[r] = "start" => written[r] = Nothing /\ captured[r] = Nothing
    /\ captured[r]["in"] = <<>> /\ written[r]["in"] = <<>>
    /\ r \notin hit /\ ~dead =>
          /\ pc[r] = "start" =>
                /\ buffer[r] = Nothing
                /\ \A s \in Opened(r), side \in Sides :
                      table[Number(r, s, side)] = EndOf(r, s, side)
          /\ pc[r] = "write" => table[Number(r, "in", "write")] = EndOf(r, "in", "write")
          /\ \A s \in Streams :
                /\ Reading(r, s) =>
                      /\ table[Number(r, s, "read")] = EndOf(r, s, "read")
                      /\ written[r][s] = captured[r][s] \o buffer[r][s]
                /\ HasRead(r, s) =>
                      /\ ~IsOpen(EndOf(r, s, "write"))
                      /\ buffer[r][s] = <<>>
                      /\ written[r][s] = captured[r][s]
    /\ r \notin hit /\ outcome[r] = "ok" =>
          /\ \A s \in Streams : IsPrefix(captured[r][s], written[r][s])
          /\ driver[r] # "telnet" => status[r] = 0 /\ captured[r] = written[r]

RunInv(r) == StageInv(r) /\ TableInv(r) /\ DataInv(r)

\* The inductive invariant.
IInv == TypeOK /\ \A r \in Runs : RunInv(r)

-----------------------------------------------------------------------------
(* Sequences and numbers.                                                  *)

\* Taking the first line of a pipe to the end of the buffer loses nothing.
LEMMA MovedLine ==
    ASSUME NEW S, NEW c \in Seq(S), NEW b \in Seq(S), b # <<>>
    PROVE  Append(c, Head(b)) \o Tail(b) = c \o b
  <1> DEFINE l == Append(c, Head(b)) \o Tail(b)  m == c \o b
  <1>1. /\ Len(c) \in Nat /\ Len(b) \in Nat /\ Len(b) > 0
        /\ Head(b) \in S /\ Head(b) = b[1]
        /\ Tail(b) \in Seq(S) /\ Len(Tail(b)) = Len(b) - 1
        /\ \A i \in 1 .. Len(Tail(b)) : Tail(b)[i] = b[i + 1]
    BY HeadTailProperties, EmptySeq
  <1>2. PICK d \in Seq(S) : d = Append(c, Head(b))
    BY <1>1, AppendProperties
  <1>3. /\ Len(d) = Len(c) + 1 /\ d[Len(c) + 1] = b[1]
        /\ \A i \in 1 .. Len(c) : d[i] = c[i]
    BY <1>1, <1>2
  <1>4. l \in Seq(S) /\ m \in Seq(S) /\ Len(l) = Len(m)
    BY <1>1, <1>2, <1>3, ConcatProperties
  <1>5. ASSUME NEW i \in 1 .. Len(m)
        PROVE  l[i] = m[i]
    <2>1. i \in 1 .. Len(d) + Len(Tail(b)) /\ i \in 1 .. Len(c) + Len(b)
      BY <1>1, <1>3, <1>5, ConcatProperties
    <2>2. l[i] = IF i <= Len(d) THEN d[i] ELSE Tail(b)[i - Len(d)]
      BY <1>1, <1>2, <2>1, ConcatProperties
    <2>3. m[i] = IF i <= Len(c) THEN c[i] ELSE b[i - Len(c)]
      BY <2>1, ConcatProperties
    <2> HIDE DEF l, m
    <2>4. CASE i <= Len(c)
      BY <1>1, <1>3, <2>1, <2>2, <2>3, <2>4
    <2>5. CASE i = Len(c) + 1
      BY <1>1, <1>3, <2>1, <2>2, <2>3, <2>5
    <2>6. CASE i > Len(c) + 1
      BY <1>1, <1>3, <2>1, <2>2, <2>3, <2>6
    <2> QED
      BY <1>1, <2>1, <2>4, <2>5, <2>6
  <1> QED
    BY <1>4, <1>5, SeqEqual

\* A line written to the pipe comes after all that was written before.
LEMMA AddedLine ==
    ASSUME NEW S, NEW c \in Seq(S), NEW b \in Seq(S), NEW x \in S
    PROVE  c \o Append(b, x) = Append(c \o b, x)
  <1>1. c \o b \in Seq(S) /\ <<x>> \in Seq(S) /\ Append(b, x) = b \o <<x>>
    BY ConcatProperties, AppendIsConcat
  <1>2. Append(c \o b, x) = (c \o b) \o <<x>>
    BY <1>1, AppendIsConcat
  <1> QED
    BY <1>1, <1>2, ConcatAssociative

LEMMA PrefixOfJoined ==
    ASSUME NEW S, NEW c \in Seq(S), NEW b \in Seq(S)
    PROVE  IsPrefix(c, c \o b) /\ c \o <<>> = c
  <1>1. /\ c \o b \in Seq(S) /\ Len(c \o b) = Len(c) + Len(b) /\ Len(c) \in Nat /\ Len(b) \in Nat
        /\ \A i \in 1 .. Len(c) : (c \o b)[i] = c[i]
    BY ConcatProperties
  <1>2. SubSeq(c \o b, 1, Len(c)) = [i \in 1 .. Len(c) |-> (c \o b)[i]]
    BY <1>1
  <1>3. SubSeq(c, 1, Len(c)) = [i \in 1 .. Len(c) |-> c[i]]
    BY <1>1
  <1> QED
    BY <1>1, <1>2, <1>3, ConcatEmptySeq DEF IsPrefix

\* The numbers in the local variables, and the streams that are piped.
LEMMA NumberIs ==
    ASSUME NEW r
    PROVE  /\ Number(r, "out", "read") = own[r][1] /\ Number(r, "out", "write") = own[r][2]
           /\ Number(r, "err", "read") = own[r][3] /\ Number(r, "err", "write") = own[r][4]
           /\ Number(r, "in", "read") = own[r][5] /\ Number(r, "in", "write") = own[r][6]
  BY DEF Number

LEMMA StreamsPiped ==
    ASSUME NEW r
    PROVE  /\ driver[r] = "telnet" => Len(PipesOf(r)) = 3 /\ Range(PipesOf(r)) = All
           /\ driver[r] # "telnet" => Len(PipesOf(r)) = 2 /\ Range(PipesOf(r)) = Streams
  BY DEF PipesOf, Range, All, Streams

\* The streams that are open after each pipe, now and after a step.
LEMMA OpenedIs ==
    ASSUME NEW r, NEW l \in {0, 2, 4, 6}, Len(own[r]) = l
    PROVE  Opened(r) = CASE l = 0 -> {} [] l = 2 -> {"out"} [] l = 4 -> Streams [] l = 6 -> All
  <1>1. Opened(r) = {t \in All : \/ t = "out" /\ l >= 2
                                 \/ t = "err" /\ l >= 4
                                 \/ t = "in" /\ l >= 6}
    BY Zenon DEF Opened
  <1> QED
    BY <1>1 DEF All, Streams

LEMMA OpenedIsNext ==
    ASSUME NEW r, NEW l \in {0, 2, 4, 6}, Len(own'[r]) = l
    PROVE  Opened(r)' = CASE l = 0 -> {} [] l = 2 -> {"out"} [] l = 4 -> Streams [] l = 6 -> All
  <1>1. Opened(r)' = {t \in All : \/ t = "out" /\ l >= 2
                                  \/ t = "err" /\ l >= 4
                                  \/ t = "in" /\ l >= 6}
    BY Zenon DEF Opened, All, Streams
  <1> QED
    BY <1>1 DEF All, Streams

LEMMA FreeIsNoEnd == Free \notin End /\ \A end \in End : end.side \in Sides /\ end.run \in Runs
  BY DEF Free, End, Streams

-----------------------------------------------------------------------------
(* Types.                                                                  *)

LEMMA NumberType ==
    ASSUME TypeOK, NEW r \in Runs, NEW s \in Opened(r), NEW side \in Sides
    PROVE  Number(r, s, side) \in Descriptors
  <1>1. own[r] \in Seq(Descriptors)
    BY DEF TypeOK
  <1>2. \A k \in 1 .. Len(own[r]) : own[r][k] \in Descriptors
    BY <1>1
  <1>3. Len(own[r]) \in Nat
    BY <1>1
  <1> QED
    BY <1>2, <1>3, NumberIs DEF Opened, All, Streams, Sides

LEMMA UsedNumbers ==
    ASSUME NEW r
    PROVE  /\ driver[r] = "telnet" =>
                 /\ UsedByChild(r) = {Number(r, "out", "write"), Number(r, "err", "write"),
                                      Number(r, "in", "read")}
                 /\ UsedByParent(r) = {Number(r, "out", "read"), Number(r, "err", "read"),
                                       Number(r, "in", "write")}
           /\ driver[r] # "telnet" =>
                 /\ UsedByChild(r) = {Number(r, "out", "write"), Number(r, "err", "write")}
                 /\ UsedByParent(r) = {Number(r, "out", "read"), Number(r, "err", "read")}
  BY StreamsPiped DEF UsedByChild, UsedByParent, All, Streams

\* A run that has forked has opened all its pipes.
LEMMA AllOpened ==
    ASSUME NEW r, Len(own[r]) = 2 * Len(PipesOf(r))
    PROVE  Opened(r) = IF driver[r] = "telnet" THEN All ELSE Streams
  <1>1. CASE driver[r] = "telnet"
    <2>1. Len(PipesOf(r)) = 3
      BY <1>1, StreamsPiped
    <2>2. PICK n : n = Len(own[r])
      OBVIOUS
    <2>3. n = 6
      <3>1. PICK k : k = Len(PipesOf(r))
        OBVIOUS
      <3>2. k = 3 /\ n = 2 * k
        BY <2>1, <2>2, <3>1, Zenon
      <3> QED
        BY <3>2
    <2>4. n >= 2 /\ n >= 4 /\ n >= 6
      BY <2>3
    <2>5. \A s \in All : s \in Opened(r) <=> s \in All
      BY <2>2, <2>4, Zenon DEF Opened, All, Streams
    <2> QED
      BY <1>1, <2>5 DEF Opened, All
  <1>2. CASE driver[r] # "telnet"
    <2>1. Len(PipesOf(r)) = 2
      BY <1>2, StreamsPiped
    <2>2. PICK n : n = Len(own[r])
      OBVIOUS
    <2>3. n = 4
      <3>1. PICK k : k = Len(PipesOf(r))
        OBVIOUS
      <3>2. k = 2 /\ n = 2 * k
        BY <2>1, <2>2, <3>1, Zenon
      <3> QED
        BY <3>2
    <2>4. n >= 2 /\ n >= 4 /\ ~(n >= 6)
      BY <2>3
    <2>5. \A s \in All : s \in Opened(r) <=> s \in Streams
      BY <2>2, <2>4, Zenon DEF Opened, All, Streams
    <2> QED
      BY <1>2, <2>5 DEF Opened, All
  <1> QED
    BY <1>1, <1>2

LEMMA ClosedType ==
    ASSUME TypeOK, NEW r, NEW numbers, CloseAll(r, numbers)
    PROVE  /\ table' \in [Descriptors -> End \cup {Free}] /\ hit' \subseteq Runs
           /\ hit \subseteq hit'
           /\ \A n \in Descriptors : table'[n] = IF n \in numbers THEN Free ELSE table[n]
           /\ \A q \in Runs \ {r} : q \notin hit' =>
                 \A n \in Descriptors \cap numbers : table[n].run # q
  BY DEF TypeOK, CloseAll

\* The numbers a run polls are descriptors.
LEMMA PolledType ==
    ASSUME TypeOK, NEW r \in Runs, StageInv(r), pc[r] \in {"write", "poll", "read"}
    PROVE  /\ \A s \in Streams, side \in Sides : Number(r, s, side) \in Descriptors
           /\ driver[r] = "telnet" => \A side \in Sides : Number(r, "in", side) \in Descriptors
           /\ pc[r] = "read" => \A s \in ready[r] : fds[r][s] \in Descriptors
  <1>1. Len(own[r]) = 2 * Len(PipesOf(r))
    BY DEF StageInv
  <1>2. \A s \in Opened(r), side \in Sides : Number(r, s, side) \in Descriptors
    BY NumberType
  <1>3. Streams \subseteq Opened(r) /\ (driver[r] = "telnet" => "in" \in Opened(r))
    BY <1>1, AllOpened DEF All
  <1>4. ready[r] \subseteq Streams
    BY DEF TypeOK
  <1>5. pc[r] = "read" => \A s \in ready[r] : fds[r][s] = Number(r, s, "read")
    BY <1>4 DEF StageInv
  <1> QED
    BY <1>2, <1>3, <1>4, <1>5 DEF Sides

LEMMA OpenPipeType ==
    ASSUME TypeOK, NEW r \in Runs, StageInv(r), OpenPipe(r)
    PROVE  TypeOK'
  <1> DEFINE s == PipesOf(r)[Len(own[r]) \div 2 + 1]
  <1>1. s \in All
    <2>1. CASE Len(own[r]) = 0
      BY <2>1 DEF OpenPipe, PipesOf, All, Streams
    <2>2. CASE Len(own[r]) = 2
      BY <2>2 DEF OpenPipe, PipesOf, All, Streams
    <2>3. CASE Len(own[r]) = 4
      BY <2>3 DEF OpenPipe, PipesOf, All, Streams
    <2>4. CASE Len(own[r]) = 6
      <3>1. Len(PipesOf(r)) \in {2, 3}
        BY StreamsPiped
      <3>2. PICK k : k = Len(PipesOf(r))
        OBVIOUS
      <3>3. k \in {2, 3} /\ 6 < 2 * k
        BY <2>4, <3>1, <3>2 DEF OpenPipe
      <3> QED
        BY <3>3
    <2> QED
      BY <2>1, <2>2, <2>3, <2>4 DEF StageInv
  <1> HIDE DEF s
  <1>2. CASE PipeFails(r)
    <2>1. table' \in [Descriptors -> End \cup {Free}] /\ hit' \subseteq Runs
      BY <1>2, ClosedType DEF PipeFails, GiveUp
    <2> QED
      BY <1>2, <2>1 DEF PipeFails, GiveUp, GoTo, OpenPipe, client, TypeOK
  <1>3. ASSUME NEW n0 \in Descriptors, NEW n1 \in Descriptors,
               table' = [table EXCEPT ![n0] = EndOf(r, s, "read"), ![n1] = EndOf(r, s, "write")],
               own' = [own EXCEPT ![r] = @ \o <<n0, n1>>], UNCHANGED <<pc, outcome, hit>>
        PROVE  TypeOK'
    <2>1. EndOf(r, s, "read") \in End /\ EndOf(r, s, "write") \in End
      BY <1>1 DEF EndOf, End, Sides, All
    <2>2. table' \in [Descriptors -> End \cup {Free}]
      BY <1>3, <2>1 DEF TypeOK
    <2>3. own[r] \o <<n0, n1>> \in Seq(Descriptors)
      BY DEF TypeOK
    <2>4. own' \in [Runs -> Seq(Descriptors)]
      BY <1>3, <2>3 DEF TypeOK
    <2> QED
      BY <1>3, <2>2, <2>4 DEF OpenPipe, client, TypeOK
  <1> QED
    BY <1>2, <1>3 DEF OpenPipe, s

LEMMA ForkType ==
    ASSUME TypeOK, NEW r \in Runs, StageInv(r), Fork(r)
    PROVE  TypeOK'
  <1>1. table' \in [Descriptors -> End \cup {Free}] /\ hit' \subseteq Runs
    BY ClosedType DEF Fork, GiveUp
  <1>2. CASE GiveUp(r) /\ UNCHANGED <<child, holds, fds>>
    BY <1>1, <1>2 DEF Fork, GiveUp, GoTo, TypeOK
  <1>3. CASE /\ child' = [child EXCEPT ![r] = "running"]
             /\ holds' = [holds EXCEPT ![r] =
                    {table[n] : n \in Descriptors \ UsedByParent(r)} \ {Free}]
             /\ IF driver[r] = "telnet" THEN GoTo(r, "write") /\ UNCHANGED fds
                                        ELSE StartsPolling(r)
             /\ UNCHANGED outcome
    <2>1. \A s \in Streams : Number(r, s, "read") \in Descriptors
      BY NumberType, AllOpened DEF Fork, All, Sides
    <2>2. fds' \in [Runs -> [Streams -> Descriptors \cup {-1}]]
      <3>1. CASE UNCHANGED fds
        BY <3>1 DEF TypeOK
      <3>2. CASE StartsPolling(r)
        BY <2>1, <3>2 DEF StartsPolling, TypeOK
      <3> QED
        BY <1>3, <3>1, <3>2
    <2>3. holds' \in [Runs -> SUBSET End]
      BY <1>3 DEF TypeOK
    <2>4. pc' \in [Runs -> {"start", "write", "poll", "read", "reap", "done"}]
      BY <1>3 DEF StartsPolling, GoTo, TypeOK
    <2>5. child' \in [Runs -> {"none", "running", "ended", "reaped"}]
      BY <1>3 DEF TypeOK
    <2> QED
      BY <1>1, <1>3, <2>2, <2>3, <2>4, <2>5 DEF Fork, TypeOK
  <1> QED
    BY <1>2, <1>3 DEF Fork

LEMMA WriteScriptType ==
    ASSUME TypeOK, NEW r \in Runs, StageInv(r), WriteScript(r)
    PROVE  TypeOK'
  <1> DEFINE n == Number(r, "in", "write")
  <1>1. CASE CloseAll(r, {n}) /\ StartsPolling(r) /\ UNCHANGED dead
    <2>1. table' \in [Descriptors -> End \cup {Free}] /\ hit' \subseteq Runs
      BY <1>1, ClosedType
    <2>2. \A s \in Streams : Number(r, s, "read") \in Descriptors
      BY PolledType DEF WriteScript, At, Sides
    <2>3. fds' \in [Runs -> [Streams -> Descriptors \cup {-1}]]
      BY <1>1, <2>2 DEF StartsPolling, TypeOK
    <2>4. pc' \in [Runs -> {"start", "write", "poll", "read", "reap", "done"}]
      BY <1>1 DEF StartsPolling, GoTo, TypeOK
    <2> QED
      BY <1>1, <2>1, <2>3, <2>4 DEF WriteScript, client, TypeOK
  <1>2. CASE dead' = TRUE /\ table' = [k \in Descriptors |-> Free] /\ UNCHANGED <<pc, fds, hit>>
    <2>1. table' \in [Descriptors -> End \cup {Free}]
      BY <1>2
    <2> QED
      BY <1>2, <2>1 DEF WriteScript, client, TypeOK
  <1> QED
    BY <1>1, <1>2 DEF WriteScript

LEMMA ReadStreamType ==
    ASSUME TypeOK, NEW r \in Runs, StageInv(r), ReadStream(r)
    PROVE  TypeOK'
  <1> DEFINE s == IF "out" \in ready[r] THEN "out" ELSE "err"
             n == fds[r][s]
             from == table[n]
  <1>0. s \in ready[r] /\ s \in Streams
    <2>1. ready[r] \subseteq {"out", "err"} /\ ready[r] # {}
      BY DEF ReadStream, At, StageInv, TypeOK, Streams
    <2> QED
      BY <2>1 DEF Streams
  <1>1. n \in Descriptors
    BY <1>0, PolledType DEF ReadStream, At
  <1>2. ready' \in [Runs -> SUBSET Streams]
    BY DEF ReadStream, TypeOK
  <1>3. pc' \in [Runs -> {"start", "write", "poll", "read", "reap", "done"}]
    BY DEF ReadStream, AfterStream, GoTo, TypeOK
  <1>4. CASE /\ from.side = "read" /\ buffer[from.run][from.stream] # <<>>
             /\ captured' = [captured EXCEPT ![r][s] =
                    Append(@, Head(buffer[from.run][from.stream]))]
             /\ buffer' = [buffer EXCEPT ![from.run][from.stream] = Tail(@)]
             /\ hit' = hit \cup ({from.run} \ {r})
             /\ UNCHANGED <<fds, table>>
    <2>1. from \in End
      <3>1. from \in End \cup {Free}
        BY <1>1 DEF TypeOK
      <3>2. from.side = "read" /\ Free.side # "read"
        BY <1>4 DEF Free
      <3> QED
        BY <3>1, <3>2
    <2>2. PICK q, t : q \in Runs /\ t \in All /\ from.run = q /\ from.stream = t
      BY <2>1 DEF End, All
    <2>3. PICK b \in Seq(Line) : b = buffer[q][t]
      BY <2>2 DEF TypeOK, Captures, All
    <2>4. Head(b) \in Line /\ Tail(b) \in Seq(Line)
      BY <1>4, <2>2, <2>3, HeadTailProperties
    <2>5. buffer' \in [Runs -> Captures]
      BY <1>4, <2>2, <2>3, <2>4 DEF TypeOK, Captures, All
    <2>6. captured[r][s] \in Seq(Line)
      BY <1>0 DEF TypeOK, Captures
    <2>7. Append(captured[r][s], Head(b)) \in Seq(Line)
      BY <2>4, <2>6, AppendProperties
    <2>8. captured' \in [Runs -> Captures]
      BY <1>0, <1>4, <2>2, <2>3, <2>7 DEF TypeOK, Captures
    <2>9. hit' \subseteq Runs
      BY <1>4, <2>2 DEF TypeOK
    <2> QED
      BY <1>2, <1>3, <1>4, <2>5, <2>8, <2>9 DEF ReadStream, client, TypeOK
  <1>5. CASE CloseAll(r, {n}) /\ fds' = [fds EXCEPT ![r][s] = -1] /\ UNCHANGED <<captured, buffer>>
    <2>1. table' \in [Descriptors -> End \cup {Free}] /\ hit' \subseteq Runs
      BY <1>5, ClosedType
    <2>2. fds' \in [Runs -> [Streams -> Descriptors \cup {-1}]]
      BY <1>5 DEF TypeOK
    <2> QED
      BY <1>2, <1>3, <1>5, <2>1, <2>2 DEF ReadStream, client, TypeOK
  <1> QED
    BY <1>4, <1>5 DEF ReadStream

LEMMA RestType ==
    ASSUME TypeOK, NEW r \in Runs, Poll(r) \/ TimeOut(r) \/ Reap(r) \/ Client(r)
    PROVE  TypeOK'
  <1>1. CASE Poll(r)
    <2>1. Reported(r) \subseteq Streams
      BY DEF Reported
    <2> QED
      BY <1>1, <2>1 DEF Poll, GoTo, client, TypeOK
  <1>2. CASE TimeOut(r)
    <2>1. table' \in [Descriptors -> End \cup {Free}] /\ hit' \subseteq Runs
      BY <1>2, ClosedType DEF TimeOut, CloseReadEnds
    <2>2. /\ child' \in [Runs -> {"none", "running", "ended", "reaped"}]
          /\ status' \in [Runs -> ExitCodes \cup {-1, 0}]
          /\ holds' \in [Runs -> SUBSET End]
      BY <1>2 DEF TimeOut, KillAndWait, TypeOK
    <2>3. /\ pc' \in [Runs -> {"start", "write", "poll", "read", "reap", "done"}]
          /\ outcome' \in [Runs -> {"none", "ok", "failed"}]
      BY <1>2 DEF TimeOut, Return, GoTo, TypeOK
    <2> QED
      BY <1>2, <2>1, <2>2, <2>3 DEF TimeOut, TypeOK
  <1>3. CASE Reap(r)
    <2>1. /\ pc' \in [Runs -> {"start", "write", "poll", "read", "reap", "done"}]
          /\ outcome' \in [Runs -> {"none", "ok", "failed"}]
      BY <1>3 DEF Reap, Return, GoTo, TypeOK
    <2> QED
      BY <1>3, <2>1 DEF Reap, WaitForChild, TypeOK
  <1>4. ASSUME NEW s \in Streams, NEW text \in Texts, ClientWrites(r, s, text)
        PROVE  TypeOK'
    <2>1. PICK l \in Line : l = [by |-> r, text |-> text]
      BY DEF Line
    <2>2. written[r][s] \in Seq(Line) /\ buffer[r][s] \in Seq(Line)
      BY DEF TypeOK, Captures
    <2>3. Append(written[r][s], l) \in Seq(Line) /\ Append(buffer[r][s], l) \in Seq(Line)
      BY <2>2, AppendProperties
    <2>4. written' \in [Runs -> Captures]
      BY <1>4, <2>1, <2>3 DEF ClientWrites, TypeOK, Captures
    <2>5. buffer' \in [Runs -> Captures]
      <3>1. CASE buffer' = [buffer EXCEPT ![r][s] = Append(@, l)]
        BY <2>3, <3>1 DEF TypeOK, Captures
      <3>2. CASE UNCHANGED buffer
        BY <3>2 DEF TypeOK
      <3> QED
        BY <1>4, <2>1, <3>1, <3>2 DEF ClientWrites
    <2>6. /\ child' \in [Runs -> {"none", "running", "ended", "reaped"}]
          /\ status' \in [Runs -> ExitCodes \cup {-1, 0}]
          /\ holds' \in [Runs -> SUBSET End]
      BY <1>4 DEF ClientWrites, ClientEnds, TypeOK
    <2> QED
      BY <1>4, <2>4, <2>5, <2>6 DEF ClientWrites, outside, TypeOK
  <1>5. CASE ClientCloses(r)
    <2>1. holds' \in [Runs -> SUBSET End]
      BY <1>5 DEF ClientCloses, TypeOK
    <2> QED
      BY <1>5, <2>1 DEF ClientCloses, outside, TypeOK
  <1>6. ASSUME NEW code \in ExitCodes, ClientExits(r, code)
        PROVE  TypeOK'
    <2>1. /\ child' \in [Runs -> {"none", "running", "ended", "reaped"}]
          /\ status' \in [Runs -> ExitCodes \cup {-1, 0}]
          /\ holds' \in [Runs -> SUBSET End]
      BY <1>6 DEF ClientExits, ClientEnds, TypeOK
    <2> QED
      BY <1>6, <2>1 DEF ClientExits, outside, TypeOK
  <1> QED
    BY <1>1, <1>2, <1>3, <1>4, <1>5, <1>6 DEF Client

LEMMA TypeStep ==
    ASSUME TypeOK, \A r \in Runs : StageInv(r), NEW q \in Runs, Run(q) \/ Client(q)
    PROVE  TypeOK'
  BY OpenPipeType, ForkType, WriteScriptType, ReadStreamType, RestType DEF Run

-----------------------------------------------------------------------------
(* What the other runs leave alone.                                        *)

\* What belongs to run r.
Mine(r) == <<pc[r], own[r], fds[r], ready[r], captured[r], child[r], status[r], written[r],
             outcome[r]>>

LEMMA CloseKeeps ==
    ASSUME TypeOK, NEW q \in Runs, NEW r \in Runs \ {q}, NEW numbers, CloseAll(q, numbers)
    PROVE  /\ hit \subseteq hit'
           /\ \A n \in Descriptors : table'[n] # Free => table'[n] = table[n]
           /\ r \notin hit' =>
                 \A n \in Descriptors : table[n].run = r => table'[n] = table[n]
  BY ClosedType

\* A step of run q or its client changes nothing that is run r's but, as `hit`
\* records, what r has in the table and in its pipes.
LEMMA OthersKeep ==
    ASSUME TypeOK, NEW q \in Runs, StageInv(q), NEW r \in Runs \ {q}, Run(q) \/ Client(q)
    PROVE  /\ UNCHANGED <<driver, Mine(r)>>
           /\ dead => dead'
           /\ hit \subseteq hit'
           /\ \A n \in Descriptors :
                 table'[n] # Free /\ table'[n].run = r => table'[n] = table[n]
           /\ r \notin hit' =>
                 /\ buffer'[r] = buffer[r]
                 /\ ~dead' => \A n \in Descriptors :
                       table[n].run = r /\ table[n] # Free => table'[n] = table[n]
  <1> USE DEF Mine
  <1>1. CASE OpenPipe(q)
    <2>1. UNCHANGED <<driver, Mine(r), dead, buffer>>
      BY <1>1 DEF OpenPipe, PipeFails, GiveUp, GoTo, TypeOK, client
    <2>2. CASE PipeFails(q)
      BY <2>1, <2>2, CloseKeeps DEF PipeFails, GiveUp
    <2>3. ASSUME NEW n0 \in Descriptors, NEW n1 \in Descriptors, NEW s,
                 IsNextFree(n0, {}), IsNextFree(n1, {n0}),
                 table' = [table EXCEPT ![n0] = EndOf(q, s, "read"),
                                        ![n1] = EndOf(q, s, "write")],
                 hit' = hit
          PROVE  /\ \A n \in Descriptors : table'[n].run = r => table'[n] = table[n]
                 /\ \A n \in Descriptors : table[n] # Free => table'[n] = table[n]
      BY <2>3 DEF IsNextFree, EndOf, TypeOK
    <2>4. \/ PipeFails(q)
          \/ \E s : \E n0, n1 \in Descriptors :
                 /\ IsNextFree(n0, {}) /\ IsNextFree(n1, {n0})
                 /\ table' = [table EXCEPT ![n0] = EndOf(q, s, "read"),
                                           ![n1] = EndOf(q, s, "write")]
                 /\ hit' = hit
      BY <1>1, Zenon DEF OpenPipe
    <2>5. CASE ~PipeFails(q)
      <3>1. /\ \A n \in Descriptors : table'[n].run = r => table'[n] = table[n]
            /\ \A n \in Descriptors : table[n] # Free => table'[n] = table[n]
        BY <2>3, <2>4, <2>5, Zenon
      <3>2. hit' = hit
        BY <2>4, <2>5
      <3> QED
        BY <2>1, <3>1, <3>2
    <2> QED
      BY <2>2, <2>5
  <1>2. CASE Fork(q)
    <2>1. UNCHANGED <<driver, Mine(r), dead, buffer>>
      BY <1>2 DEF Fork, StartsPolling, GiveUp, GoTo, TypeOK
    <2> QED
      BY <1>2, <2>1, CloseKeeps DEF Fork, GiveUp
  <1>3. CASE WriteScript(q)
    <2>1. UNCHANGED <<driver, Mine(r), buffer>>
      BY <1>3 DEF WriteScript, StartsPolling, GoTo, TypeOK, client
    <2>2. CASE CloseAll(q, {Number(q, "in", "write")}) /\ UNCHANGED dead
      BY <2>1, <2>2, CloseKeeps
    <2>3. CASE dead' = TRUE /\ table' = [n \in Descriptors |-> Free] /\ hit' = hit
      BY <2>1, <2>3
    <2> QED
      BY <1>3, <2>2, <2>3 DEF WriteScript
  <1>4. CASE Poll(q)
    BY <1>4 DEF Poll, GoTo, TypeOK, client
  <1>5. CASE ReadStream(q)
    <2>1. UNCHANGED <<driver, Mine(r), dead>>
      BY <1>5 DEF ReadStream, AfterStream, GoTo, TypeOK, client
    <2>2. ASSUME NEW from, NEW numbers,
                 \/ /\ buffer' = [buffer EXCEPT ![from.run][from.stream] = Tail(@)]
                    /\ hit' = hit \cup ({from.run} \ {q})
                    /\ UNCHANGED table
                 \/ CloseAll(q, numbers) /\ UNCHANGED buffer
          PROVE  /\ hit \subseteq hit'
                 /\ \A n \in Descriptors : table'[n] # Free => table'[n] = table[n]
                 /\ r \notin hit' =>
                       /\ buffer'[r] = buffer[r]
                       /\ \A n \in Descriptors : table[n].run = r => table'[n] = table[n]
      BY <2>2, CloseKeeps DEF TypeOK
    <2>3. \E from, numbers :
             \/ /\ buffer' = [buffer EXCEPT ![from.run][from.stream] = Tail(@)]
                /\ hit' = hit \cup ({from.run} \ {q})
                /\ UNCHANGED table
             \/ CloseAll(q, numbers) /\ UNCHANGED buffer
      BY <1>5, Zenon DEF ReadStream
    <2> QED
      BY <2>1, <2>2, <2>3
  <1>6. CASE TimeOut(q)
    <2>1. UNCHANGED <<driver, Mine(r), dead, buffer>>
      BY <1>6 DEF TimeOut, KillAndWait, Return, GoTo, TypeOK
    <2> QED
      BY <1>6, <2>1, CloseKeeps DEF TimeOut, CloseReadEnds
  <1>7. CASE Reap(q)
    BY <1>7 DEF Reap, WaitForChild, Return, GoTo, TypeOK
  <1>8. CASE Client(q)
    <2>1. UNCHANGED <<driver, pc, table, own, fds, ready, captured, outcome, dead, hit>>
      BY <1>8 DEF Client, ClientWrites, ClientCloses, ClientExits, outside
    <2>2. UNCHANGED <<child[r], status[r], written[r], buffer[r]>>
      BY <1>8 DEF Client, ClientWrites, ClientCloses, ClientExits, ClientEnds, TypeOK
    <2> QED
      BY <2>1, <2>2
  <1> QED
    BY <1>1, <1>2, <1>3, <1>4, <1>5, <1>6, <1>7, <1>8 DEF Run

\* An end of a pipe that nobody has open stays so, once its run has opened its pipes.
LEMMA NobodyReopens ==
    ASSUME TypeOK, NEW q \in Runs, StageInv(q), Run(q) \/ Client(q),
           NEW end \in End, pc[end.run] # "start", IsOpen(end)'
    PROVE  IsOpen(end)
  <1>0. end # Free
    BY FreeIsNoEnd
  <1>1. ASSUME \A n \in Descriptors : table'[n] \in {Free, table[n]} \/ table'[n].run # end.run,
               \A r \in Runs : holds'[r] \subseteq holds[r] \cup {table[n] : n \in Descriptors}
        PROVE  IsOpen(end)
    BY <1>0, <1>1 DEF IsOpen
  <1>2. CASE OpenPipe(q)
    <2>1. UNCHANGED holds /\ q # end.run
      BY <1>2 DEF OpenPipe, At, client
    <2>2. \A n \in Descriptors : table'[n] \in {Free, table[n]} \/ table'[n].run = q
      <3>1. CASE PipeFails(q)
        BY <3>1, ClosedType DEF PipeFails, GiveUp
      <3>2. ASSUME NEW n0 \in Descriptors, NEW n1 \in Descriptors, NEW s,
                   table' = [table EXCEPT ![n0] = EndOf(q, s, "read"),
                                          ![n1] = EndOf(q, s, "write")]
            PROVE  \A n \in Descriptors : table'[n] = table[n] \/ table'[n].run = q
        BY <3>2 DEF EndOf, TypeOK
      <3> QED
        BY <1>2, <3>1, <3>2 DEF OpenPipe
    <2> QED
      BY <1>1, <2>1, <2>2
  <1>3. CASE Fork(q)
    <2>1. \A n \in Descriptors : table'[n] \in {Free, table[n]}
      BY <1>3, ClosedType DEF Fork, GiveUp
    <2>2. \A r \in Runs : holds'[r] \subseteq holds[r] \cup {table[n] : n \in Descriptors}
      <3>1. \/ UNCHANGED holds
            \/ \E held : /\ holds' = [holds EXCEPT ![q] = held]
                         /\ held \subseteq {table[n] : n \in Descriptors}
        <4>1. {table[n] : n \in Descriptors \ UsedByParent(q)} \ {Free}
                  \subseteq {table[n] : n \in Descriptors}
          OBVIOUS
        <4> QED
          BY <1>3, <4>1, Zenon DEF Fork
      <3> QED
        BY <3>1 DEF TypeOK
    <2> QED
      BY <1>1, <2>1, <2>2
  <1>4. CASE WriteScript(q)
    <2>1. \A n \in Descriptors : table'[n] \in {Free, table[n]}
      BY <1>4, ClosedType DEF WriteScript
    <2> QED
      BY <1>1, <1>4, <2>1 DEF WriteScript, client
  <1>5. CASE Poll(q) \/ Reap(q)
    BY <1>1, <1>5 DEF Poll, Reap, WaitForChild, client
  <1>6. CASE ReadStream(q)
    <2>1. \A n \in Descriptors : table'[n] \in {Free, table[n]}
      BY <1>6, ClosedType DEF ReadStream
    <2> QED
      BY <1>1, <1>6, <2>1 DEF ReadStream, client
  <1>7. CASE TimeOut(q)
    <2>1. \A n \in Descriptors : table'[n] \in {Free, table[n]}
      BY <1>7, ClosedType DEF TimeOut, CloseReadEnds
    <2>2. \A r \in Runs : holds'[r] \subseteq holds[r]
      BY <1>7 DEF TimeOut, KillAndWait, TypeOK
    <2> QED
      BY <1>1, <2>1, <2>2
  <1>8. CASE Client(q)
    <2>1. UNCHANGED table
      BY <1>8 DEF Client, ClientWrites, ClientCloses, ClientExits, outside
    <2>2. \A r \in Runs : holds'[r] \subseteq holds[r]
      BY <1>8 DEF Client, ClientWrites, ClientCloses, ClientExits, ClientEnds, TypeOK
    <2> QED
      BY <1>1, <2>1, <2>2
  <1> QED
    BY <1>2, <1>3, <1>4, <1>5, <1>6, <1>7, <1>8 DEF Run

\* What the steps of other runs leave alone keeps the invariant of run r.
LEMMA InvOfOthers ==
    ASSUME TypeOK, TypeOK', NEW q \in Runs, StageInv(q), NEW r \in Runs \ {q}, Run(q) \/ Client(q),
           StageInv(r), TableInv(r), DataInv(r)
    PROVE  (StageInv(r) /\ TableInv(r) /\ DataInv(r))'
  <1>1. /\ UNCHANGED <<driver, Mine(r)>>
        /\ dead => dead'
        /\ hit \subseteq hit'
        /\ \A n \in Descriptors :
              table'[n] # Free /\ table'[n].run = r => table'[n] = table[n]
        /\ r \notin hit' =>
              /\ buffer'[r] = buffer[r]
              /\ ~dead' => \A n \in Descriptors :
                    table[n].run = r /\ table[n] # Free => table'[n] = table[n]
    BY OthersKeep
  <1>2. /\ pc'[r] = pc[r] /\ own'[r] = own[r] /\ fds'[r] = fds[r] /\ ready'[r] = ready[r]
        /\ captured'[r] = captured[r] /\ child'[r] = child[r] /\ status'[r] = status[r]
        /\ written'[r] = written[r] /\ outcome'[r] = outcome[r] /\ driver' = driver
    BY <1>1 DEF Mine
  <1>3. /\ PipesOf(r)' = PipesOf(r) /\ Opened(r)' = Opened(r)
        /\ \A s, side : Number(r, s, side)' = Number(r, s, side)
    BY <1>2 DEF PipesOf, Opened, Number
  <1>4. StageInv(r)'
    BY <1>2, <1>3 DEF StageInv
  <1>5. \A n : ClosesYet(r, n)' <=> ClosesYet(r, n)
    BY <1>2, <1>3 DEF ClosesYet
  <1>6. TableInv(r)'
    BY <1>1, <1>5 DEF TableInv
  <1>7. ASSUME r \notin hit', ~dead', NEW s \in All, NEW side \in Sides,
               Number(r, s, side) \in Descriptors,
               table[Number(r, s, side)] = EndOf(r, s, side)
        PROVE  table'[Number(r, s, side)] = EndOf(r, s, side)
    <2>1. EndOf(r, s, side).run = r /\ EndOf(r, s, side) # Free
      BY DEF EndOf, Free, Sides
    <2> QED
      BY <1>1, <1>7, <2>1
  <1>8. ASSUME NEW s \in Streams, pc[r] # "start", ~IsOpen(EndOf(r, s, "write"))
        PROVE  ~IsOpen(EndOf(r, s, "write"))'
    <2>1. EndOf(r, s, "write") \in End /\ EndOf(r, s, "write").run = r
      BY DEF EndOf, End, Sides
    <2> QED
      BY <1>8, <2>1, NobodyReopens
  <1>9. ASSUME r \notin hit', ~dead'
        PROVE  /\ pc'[r] = "start" =>
                     /\ buffer'[r] = Nothing
                     /\ \A s \in Opened(r), side \in Sides :
                           table'[Number(r, s, side)] = EndOf(r, s, side)
               /\ pc'[r] = "write" => table'[Number(r, "in", "write")] = EndOf(r, "in", "write")
    <2>1. r \notin hit /\ ~dead /\ buffer'[r] = buffer[r]
      BY <1>1, <1>9
    <2>2. ASSUME pc[r] = "start", NEW s \in Opened(r), NEW side \in Sides
          PROVE  table'[Number(r, s, side)] = EndOf(r, s, side)
      <3>1. s \in All /\ Number(r, s, side) \in Descriptors
        BY NumberType DEF Opened
      <3>2. table[Number(r, s, side)] = EndOf(r, s, side)
        BY <2>1, <2>2 DEF DataInv
      <3> QED
        BY <1>7, <1>9, <3>1, <3>2
    <2>3. ASSUME pc[r] = "write"
          PROVE  table'[Number(r, "in", "write")] = EndOf(r, "in", "write")
      <3>1. "in" \in All /\ "write" \in Sides /\ Number(r, "in", "write") \in Descriptors
        BY <2>3, PolledType DEF StageInv, All, Sides
      <3>2. table[Number(r, "in", "write")] = EndOf(r, "in", "write")
        BY <2>1, <2>3 DEF DataInv
      <3> QED
        BY <1>7, <1>9, <3>1, <3>2
    <2>4. pc[r] = "start" => buffer[r] = Nothing
      BY <2>1 DEF DataInv
    <2> QED
      BY <1>2, <2>1, <2>2, <2>3, <2>4
  <1>10. ASSUME r \notin hit', ~dead', NEW s \in Streams
         PROVE  /\ Reading(r, s)' =>
                      /\ table'[Number(r, s, "read")] = EndOf(r, s, "read")
                      /\ written'[r][s] = captured'[r][s] \o buffer'[r][s]
                /\ HasRead(r, s)' =>
                      /\ ~IsOpen(EndOf(r, s, "write"))'
                      /\ buffer'[r][s] = <<>>
                      /\ written'[r][s] = captured'[r][s]
    <2>1. r \notin hit /\ ~dead /\ buffer'[r] = buffer[r]
      BY <1>1, <1>10
    <2>2. (Reading(r, s)' <=> Reading(r, s)) /\ (HasRead(r, s)' <=> HasRead(r, s))
      BY <1>2 DEF Reading, HasRead
    <2>3. ASSUME Reading(r, s)
          PROVE  /\ table'[Number(r, s, "read")] = EndOf(r, s, "read")
                 /\ written'[r][s] = captured'[r][s] \o buffer'[r][s]
      <3>1. s \in All /\ "read" \in Sides /\ Number(r, s, "read") \in Descriptors
        BY <2>3, PolledType DEF Reading, All, Sides
      <3>2. /\ table[Number(r, s, "read")] = EndOf(r, s, "read")
            /\ written[r][s] = captured[r][s] \o buffer[r][s]
        BY <2>1, <2>3 DEF DataInv
      <3> QED
        BY <1>2, <1>7, <1>10, <2>1, <3>1, <3>2
    <2>4. ASSUME HasRead(r, s)
          PROVE  /\ ~IsOpen(EndOf(r, s, "write"))'
                 /\ buffer'[r][s] = <<>>
                 /\ written'[r][s] = captured'[r][s]
      <3>1. /\ pc[r] # "start"
            /\ ~IsOpen(EndOf(r, s, "write")) /\ buffer[r][s] = <<>>
            /\ written[r][s] = captured[r][s]
        BY <2>1, <2>4 DEF DataInv, HasRead
      <3> QED
        BY <1>2, <1>8, <2>1, <3>1
    <2> QED
      BY <2>2, <2>3, <2>4
  <1>11. /\ pc'[r] = "start" => written'[r] = Nothing /\ captured'[r] = Nothing
         /\ captured'[r]["in"] = <<>> /\ written'[r]["in"] = <<>>
         /\ r \notin hit' /\ outcome'[r] = "ok" =>
               /\ \A s \in Streams : IsPrefix(captured'[r][s], written'[r][s])
               /\ driver'[r] # "telnet" => status'[r] = 0 /\ captured'[r] = written'[r]
    BY <1>1, <1>2 DEF DataInv
  <1>12. DataInv(r)'
    <2>1. ASSUME r \notin hit', ~dead'
          PROVE  /\ pc'[r] = "start" =>
                       /\ buffer'[r] = Nothing
                       /\ \A s \in Opened(r)', side \in Sides :
                             table'[Number(r, s, side)'] = EndOf(r, s, side)
                 /\ pc'[r] = "write" =>
                       table'[Number(r, "in", "write")'] = EndOf(r, "in", "write")
      BY <1>3, <1>9, <2>1, Zenon
    <2>2. ASSUME r \notin hit', ~dead', NEW s \in Streams
          PROVE  /\ Reading(r, s)' =>
                       /\ table'[Number(r, s, "read")'] = EndOf(r, s, "read")
                       /\ written'[r][s] = captured'[r][s] \o buffer'[r][s]
                 /\ HasRead(r, s)' =>
                       /\ ~IsOpen(EndOf(r, s, "write"))'
                       /\ buffer'[r][s] = <<>>
                       /\ written'[r][s] = captured'[r][s]
      BY <1>3, <1>10, <2>2, Zenon
    <2> QED
      BY <1>11, <2>1, <2>2, Zenon DEF DataInv
  <1> QED
    BY <1>4, <1>6, <1>12

-----------------------------------------------------------------------------
(* The steps of a run itself.                                              *)

LEMMA NumberInOwn ==
    ASSUME TypeOK, NEW r \in Runs, NEW s \in Opened(r), NEW side \in Sides
    PROVE  Number(r, s, side) \in Range(own[r])
  <1>1. own[r] \in Seq(Descriptors)
    BY DEF TypeOK
  <1>2. \A k \in 1 .. Len(own[r]) : own[r][k] \in Range(own[r])
    BY <1>1 DEF Range
  <1>3. Len(own[r]) \in Nat
    BY <1>1
  <1> QED
    BY <1>2, <1>3, NumberIs DEF Opened, All, Streams, Sides

\* A pipe or the fork fails.
LEMMA GiveUpOwn ==
    ASSUME TypeOK, NEW r \in Runs, RunInv(r), pc[r] = "start", ~dead, GiveUp(r),
           UNCHANGED <<driver, own, captured, child, status, written, dead>>
    PROVE  RunInv(r)'
  <1>1. pc'[r] = "done" /\ outcome'[r] = "failed"
    BY DEF GiveUp, GoTo, TypeOK
  <1>2. StageInv(r)'
    BY <1>1 DEF RunInv, StageInv, PipesOf
  <1>3. ASSUME NEW n \in Descriptors, table'[n] # Free, table'[n].run = r
        PROVE  FALSE
    <2>1. /\ n \notin Range(own[r]) /\ table'[n] = table[n]
      BY <1>3, ClosedType DEF GiveUp
    <2>2. PICK s \in Opened(r), side \in Sides : n = Number(r, s, side)
      BY <1>3, <2>1 DEF RunInv, TableInv, ClosesYet
    <2> QED
      BY <2>1, <2>2, NumberInOwn
  <1>4. DataInv(r)'
    BY <1>1 DEF RunInv, DataInv, Reading, HasRead
  <1> QED
    BY <1>2, <1>3, <1>4 DEF RunInv, TableInv

LEMMA OpenPipeOwn ==
    ASSUME TypeOK, TypeOK', NEW r \in Runs, RunInv(r), OpenPipe(r)
    PROVE  RunInv(r)'
  <1>0. /\ pc[r] = "start" /\ ~dead /\ Len(own[r]) < 2 * Len(PipesOf(r))
        /\ UNCHANGED <<driver, fds, ready, buffer, captured, child, status, holds, written, dead>>
    BY DEF OpenPipe, At, client
  <1>1. CASE PipeFails(r)
    BY <1>0, <1>1, GiveUpOwn DEF PipeFails
  <1>2. ASSUME NEW n0 \in Descriptors, NEW n1 \in Descriptors,
               NEW s, s = PipesOf(r)[Len(own[r]) \div 2 + 1],
               IsNextFree(n0, {}), IsNextFree(n1, {n0}),
               table' = [table EXCEPT ![n0] = EndOf(r, s, "read"), ![n1] = EndOf(r, s, "write")],
               own' = [own EXCEPT ![r] = @ \o <<n0, n1>>],
               UNCHANGED <<pc, outcome, hit>>
        PROVE  RunInv(r)'
    <2>1. PICK l : /\ l \in {0, 2, 4} /\ Len(own[r]) = l
                   /\ Len(own'[r]) = l + 2 /\ l + 2 <= 2 * Len(PipesOf(r))
                   /\ \A k \in 1 .. l : own'[r][k] = own[r][k]
                   /\ own'[r][l + 1] = n0 /\ own'[r][l + 2] = n1
      <3>1. PICK o, p : o \in Seq(Descriptors) /\ o = own[r] /\ p = own'[r] /\ p = o \o <<n0, n1>>
        BY <1>2 DEF TypeOK
      <3>2. PICK k : k = Len(PipesOf(r)) /\ k \in {2, 3}
        BY StreamsPiped
      <3>3. PICK l : l = Len(o)
        OBVIOUS
      <3>4. l \in {0, 2, 4, 6} /\ l < 2 * k
        BY <1>0, <3>1, <3>2, <3>3, Zenon DEF RunInv, StageInv
      <3>5. l \in {0, 2, 4} /\ l + 2 <= 2 * k
        BY <3>2, <3>4
      <3>6. /\ Len(p) = l + 2 /\ p[l + 1] = n0 /\ p[l + 2] = n1
            /\ \A i \in 1 .. l : p[i] = o[i]
        BY <3>1, <3>3, <3>5
      <3>7. /\ l \in {0, 2, 4} /\ Len(own[r]) = l
            /\ Len(own'[r]) = l + 2 /\ l + 2 <= 2 * Len(PipesOf(r))
            /\ \A i \in 1 .. l : own'[r][i] = own[r][i]
            /\ own'[r][l + 1] = n0 /\ own'[r][l + 2] = n1
        BY <3>1, <3>2, <3>3, <3>5, <3>6, Zenon
      <3> QED
        BY <3>7, Zenon
    <2>2. /\ s \in All
          /\ \A t \in Opened(r) : t \in Opened(r)' /\ t # s
          /\ \A t \in Opened(r)' : t \in Opened(r) \/ t = s
          /\ \A t \in Opened(r), side \in Sides :
                Number(r, t, side)' = Number(r, t, side)
          /\ Number(r, s, "read")' = n0 /\ Number(r, s, "write")' = n1
          /\ s \in Opened(r)'
      <3>1. CASE l = 0
        <4>1. s = "out"
          BY <1>2, <2>1, <3>1 DEF PipesOf
        <4>2. Opened(r) = {} /\ Opened(r)' = {"out"}
          BY <2>1, <3>1, OpenedIs, OpenedIsNext
        <4>3. own'[r][1] = n0 /\ own'[r][2] = n1
          BY <2>1, <3>1
        <4>4. Number(r, "out", "read")' = n0 /\ Number(r, "out", "write")' = n1
          BY <4>3 DEF Number
        <4> QED
          BY <4>1, <4>2, <4>4 DEF All, Streams
      <3>2. CASE l = 2
        <4>1. s = "err"
          BY <1>2, <2>1, <3>2 DEF PipesOf
        <4>2. Opened(r) = {"out"} /\ Opened(r)' = Streams
          BY <2>1, <3>2, OpenedIs, OpenedIsNext
        <4>3. /\ own'[r][3] = n0 /\ own'[r][4] = n1
              /\ own'[r][1] = own[r][1] /\ own'[r][2] = own[r][2]
          BY <2>1, <3>2
        <4>4. Number(r, "err", "read")' = n0 /\ Number(r, "err", "write")' = n1
          BY <4>3 DEF Number
        <4>5. \A side \in Sides : Number(r, "out", side)' = Number(r, "out", side)
          BY <4>3 DEF Number, Sides
        <4> QED
          BY <4>1, <4>2, <4>4, <4>5 DEF All, Streams
      <3>3. CASE l = 4
        <4>1. s = "in"
          <5>1. driver[r] = "telnet"
            <6>1. PICK k : k = Len(PipesOf(r)) /\ l + 2 <= 2 * k
              BY <2>1
            <6>2. k # 2
              BY <3>3, <6>1
            <6> QED
              BY <6>1, <6>2, StreamsPiped
          <5> QED
            BY <1>2, <2>1, <3>3, <5>1 DEF PipesOf
        <4>2. Opened(r) = Streams /\ Opened(r)' = All
          BY <2>1, <3>3, OpenedIs, OpenedIsNext
        <4>3. /\ own'[r][5] = n0 /\ own'[r][6] = n1
              /\ own'[r][1] = own[r][1] /\ own'[r][2] = own[r][2]
              /\ own'[r][3] = own[r][3] /\ own'[r][4] = own[r][4]
          BY <2>1, <3>3
        <4>4. Number(r, "in", "read")' = n0 /\ Number(r, "in", "write")' = n1
          BY <4>3 DEF Number
        <4>5. \A t \in Streams, side \in Sides : Number(r, t, side)' = Number(r, t, side)
          BY <4>3 DEF Number, Sides, Streams
        <4> QED
          BY <4>1, <4>2, <4>4, <4>5 DEF All, Streams
      <3> QED
        BY <2>1, <3>1, <3>2, <3>3
    <2>3. table[n0] = Free /\ table[n1] = Free /\ n0 # n1
      BY <1>2 DEF IsNextFree
    <2>4. PipesOf(r)' = PipesOf(r) /\ pc'[r] = "start"
      BY <1>0, <1>2 DEF PipesOf
    <2>5. StageInv(r)'
      BY <1>0, <1>2, <2>1, <2>4 DEF RunInv, StageInv
    <2>6. TableInv(r)'
      <3>1. ASSUME NEW n \in Descriptors, table'[n] # Free, table'[n].run = r
            PROVE  \E t \in Opened(r)', side \in Sides : n = Number(r, t, side)'
        <4>1. CASE n = n0
          BY <2>2, <4>1, "read" \in Sides DEF Sides
        <4>3. CASE n = n1
          BY <2>2, <4>3, "write" \in Sides DEF Sides
        <4>2. CASE n \notin {n0, n1}
          <5>1. table'[n] = table[n]
            BY <1>2, <4>2 DEF TypeOK
          <5>2. PICK t \in Opened(r), side \in Sides : n = Number(r, t, side)
            BY <1>0, <3>1, <5>1 DEF RunInv, TableInv, ClosesYet
          <5> QED
            BY <2>2, <5>2
        <4> QED
          BY <4>1, <4>2, <4>3
      <3> QED
        BY <2>4, <3>1 DEF TableInv, ClosesYet
    <2>7. ASSUME r \notin hit, NEW t \in Opened(r)', NEW side \in Sides
          PROVE  table'[Number(r, t, side)'] = EndOf(r, t, side)
      <3>1. CASE t = s
        <4>1. /\ side = "read" => Number(r, t, side)' = n0
              /\ side = "write" => Number(r, t, side)' = n1
          BY <2>2, <3>1
        <4>2. table'[n0] = EndOf(r, s, "read") /\ table'[n1] = EndOf(r, s, "write")
          BY <1>2, <2>3 DEF TypeOK
        <4> QED
          BY <3>1, <4>1, <4>2 DEF Sides
      <3>2. CASE t \in Opened(r)
        <4>1. Number(r, t, side) \in Descriptors /\ table[Number(r, t, side)] = EndOf(r, t, side)
          BY <1>0, <2>7, <3>2, NumberType DEF RunInv, DataInv
        <4>2. EndOf(r, t, side) # Free
          BY DEF EndOf, Free, Sides
        <4> QED
          BY <1>2, <2>2, <2>3, <3>2, <4>1, <4>2 DEF TypeOK
      <3> QED
        BY <2>2, <3>1, <3>2
    <2>8. DataInv(r)'
      BY <1>0, <1>2, <2>4, <2>7 DEF RunInv, DataInv, Reading, HasRead, EndOf, Nothing
    <2> QED
      BY <2>5, <2>6, <2>8 DEF RunInv
  <1> QED
    BY <1>1, <1>2 DEF OpenPipe

\* The numbers of an undisturbed run that has opened its pipes: what the child does
\* not use is none of what it uses.
LEMMA ParentNumbers ==
    ASSUME TypeOK, NEW r \in Runs, Len(own[r]) = 2 * Len(PipesOf(r)),
           \A s \in Opened(r), side \in Sides : table[Number(r, s, side)] = EndOf(r, s, side)
    PROVE  /\ \A s \in Streams : Number(r, s, "read") \notin UsedByChild(r)
           /\ driver[r] = "telnet" => Number(r, "in", "write") \notin UsedByChild(r)
  <1>1. Opened(r) = IF driver[r] = "telnet" THEN All ELSE Streams
    BY AllOpened
  <1>2. CASE driver[r] = "telnet"
    <2>1. \A s \in All, side \in Sides : table[Number(r, s, side)] = EndOf(r, s, side)
      BY <1>1, <1>2
    <2> QED
      BY <1>2, <2>1, UsedNumbers DEF EndOf, All, Streams, Sides
  <1>3. CASE driver[r] # "telnet"
    <2>1. \A s \in Streams, side \in Sides : table[Number(r, s, side)] = EndOf(r, s, side)
      BY <1>1, <1>3
    <2> QED
      BY <1>3, <2>1, UsedNumbers DEF EndOf, Streams, Sides
  <1> QED
    BY <1>2, <1>3

LEMMA ForkOwn ==
    ASSUME TypeOK, NEW r \in Runs, RunInv(r), Fork(r)
    PROVE  RunInv(r)'
  <1>1. /\ pc[r] = "start" /\ ~dead /\ Len(own[r]) = 2 * Len(PipesOf(r))
        /\ UNCHANGED <<driver, own, ready, buffer, captured, status, written, dead>>
    BY DEF Fork, At
  <1>2. CASE GiveUp(r) /\ UNCHANGED <<child, holds, fds>>
    BY <1>1, <1>2, GiveUpOwn
  <1>3. CASE /\ child' = [child EXCEPT ![r] = "running"]
             /\ CloseAll(r, UsedByChild(r))
             /\ IF driver[r] = "telnet" THEN GoTo(r, "write") /\ UNCHANGED fds
                                        ELSE StartsPolling(r)
             /\ UNCHANGED outcome
    <2>1. /\ PipesOf(r)' = PipesOf(r) /\ Opened(r)' = Opened(r)
          /\ \A s, side : Number(r, s, side)' = Number(r, s, side)
      BY <1>1 DEF PipesOf, Opened, Number
    <2>2. /\ child'[r] = "running" /\ outcome'[r] = "none"
          /\ driver[r] = "telnet" => pc'[r] = "write"
          /\ driver[r] # "telnet" =>
                pc'[r] = "poll" /\ \A s \in Streams : fds'[r][s] = Number(r, s, "read")
      BY <1>1, <1>3 DEF RunInv, StageInv, StartsPolling, GoTo, TypeOK
    <2>3. StageInv(r)'
      <3>1. /\ Len(own'[r]) \in {0, 2, 4, 6} /\ Len(own'[r]) <= 2 * Len(PipesOf(r)')
            /\ Len(own'[r]) = 2 * Len(PipesOf(r)')
        BY <1>1, <2>1, Zenon DEF RunInv, StageInv
      <3> QED
        BY <1>1, <2>1, <2>2, <3>1 DEF StageInv
    <2>4. \A n \in Descriptors : table'[n] = IF n \in UsedByChild(r) THEN Free ELSE table[n]
      BY <1>3, ClosedType
    <2>5. ASSUME NEW n \in Descriptors, table'[n] # Free, table'[n].run = r
          PROVE  ClosesYet(r, n)'
      <3>1. n \notin UsedByChild(r) /\ table'[n] = table[n]
        BY <2>4, <2>5
      <3>2. PICK s \in Opened(r), side \in Sides : n = Number(r, s, side)
        BY <1>1, <2>5, <3>1 DEF RunInv, TableInv, ClosesYet
      <3>3. Opened(r) = IF driver[r] = "telnet" THEN All ELSE Streams
        BY <1>1, AllOpened
      <3>4. CASE driver[r] = "telnet"
        <4>1. (\E t \in Streams : n = Number(r, t, "read")) \/ n = Number(r, "in", "write")
          BY <3>1, <3>2, <3>3, <3>4, UsedNumbers DEF All, Streams, Sides
        <4> QED
          BY <2>1, <2>2, <3>4, <4>1 DEF ClosesYet
      <3>5. CASE driver[r] # "telnet"
        <4>1. \E t \in Streams : n = Number(r, t, "read")
          BY <3>1, <3>2, <3>3, <3>5, UsedNumbers DEF Streams, Sides
        <4> QED
          BY <2>2, <3>5, <4>1 DEF ClosesYet
      <3> QED
        BY <3>4, <3>5
    <2>6. ASSUME r \notin hit'
          PROVE  /\ pc'[r] = "write" => table'[Number(r, "in", "write")] = EndOf(r, "in", "write")
                 /\ \A s \in Streams :
                       /\ table'[Number(r, s, "read")] = EndOf(r, s, "read")
                       /\ written'[r][s] = captured'[r][s] \o buffer'[r][s]
                       /\ ~HasRead(r, s)'
      <3>1. r \notin hit
        BY <1>3, <2>6, ClosedType
      <3>2. \A s \in Opened(r), side \in Sides :
               /\ table[Number(r, s, side)] = EndOf(r, s, side)
               /\ Number(r, s, side) \in Descriptors
        BY <1>1, <3>1, NumberType DEF RunInv, DataInv
      <3>3. /\ \A s \in Streams : Number(r, s, "read") \notin UsedByChild(r)
            /\ driver[r] = "telnet" => Number(r, "in", "write") \notin UsedByChild(r)
        BY <1>1, <3>2, ParentNumbers
      <3>4. Streams \subseteq Opened(r) /\ (driver[r] = "telnet" => "in" \in Opened(r))
        BY <1>1, AllOpened DEF All
      <3>5. written[r] = Nothing /\ captured[r] = Nothing /\ buffer[r] = Nothing
        BY <1>1, <3>1 DEF RunInv, DataInv
      <3>6. pc'[r] = "write" => driver[r] = "telnet"
        BY <2>2
      <3>7. pc'[r] = "write" => table'[Number(r, "in", "write")] = EndOf(r, "in", "write")
        BY <2>4, <3>2, <3>3, <3>4, <3>6, "write" \in Sides DEF Sides
      <3>8. ASSUME NEW s \in Streams
            PROVE  /\ table'[Number(r, s, "read")] = EndOf(r, s, "read")
                   /\ written'[r][s] = captured'[r][s] \o buffer'[r][s]
                   /\ ~HasRead(r, s)'
        <4>1. Number(r, s, "read") \in Descriptors /\ table[Number(r, s, "read")] = EndOf(r, s, "read")
          BY <3>2, <3>4, "read" \in Sides DEF Sides
        <4>2. table'[Number(r, s, "read")] = EndOf(r, s, "read")
          BY <2>4, <3>3, <4>1
        <4>3. written[r][s] = <<>> /\ captured[r][s] = <<>> /\ buffer[r][s] = <<>>
          BY <3>5 DEF Nothing
        <4>4. <<>> \o <<>> = <<>>
          OBVIOUS
        <4>5. Number(r, s, "read") # -1
          BY <4>1, RunAssumption
        <4>6. ~HasRead(r, s)'
          BY <2>2, <4>5 DEF HasRead
        <4> QED
          BY <1>1, <4>2, <4>3, <4>4, <4>6
      <3> QED
        BY <3>7, <3>8
    <2>7. DataInv(r)'
      <3>1. captured'[r]["in"] = <<>> /\ written'[r]["in"] = <<>>
        BY <1>1 DEF RunInv, DataInv
      <3>2. pc'[r] # "start" /\ outcome'[r] # "ok"
        BY <2>2
      <3>3. ASSUME r \notin hit'
            PROVE  /\ pc'[r] = "write" =>
                         table'[Number(r, "in", "write")'] = EndOf(r, "in", "write")
                   /\ \A s \in Streams :
                         /\ table'[Number(r, s, "read")'] = EndOf(r, s, "read")
                         /\ written'[r][s] = captured'[r][s] \o buffer'[r][s]
                         /\ ~HasRead(r, s)'
        BY <2>1, <2>6, <3>3, Zenon
      <3> QED
        BY <3>1, <3>2, <3>3, Zenon DEF DataInv
    <2> QED
      BY <2>3, <2>5, <2>7 DEF RunInv, TableInv
  <1> QED
    BY <1>2, <1>3 DEF Fork

LEMMA WriteScriptOwn ==
    ASSUME TypeOK, NEW r \in Runs, RunInv(r), WriteScript(r)
    PROVE  RunInv(r)'
  <1> DEFINE n == Number(r, "in", "write")
  <1>1. /\ pc[r] = "write" /\ ~dead
        /\ UNCHANGED <<driver, own, ready, buffer, captured, child, status, written, outcome>>
    BY DEF WriteScript, At, client
  <1>2. /\ PipesOf(r)' = PipesOf(r)
        /\ \A s, side : Number(r, s, side)' = Number(r, s, side)
    BY <1>1 DEF PipesOf, Number
  <1>3. \A s \in Streams : Number(r, s, "read") \in Descriptors
    BY <1>1, PolledType DEF RunInv, Sides
  <1>4. outcome'[r] = "none"
    BY <1>1 DEF RunInv, StageInv
  <1>5. captured'[r]["in"] = <<>> /\ written'[r]["in"] = <<>>
    BY <1>1 DEF RunInv, DataInv
  <1>6. CASE CloseAll(r, {n}) /\ StartsPolling(r) /\ UNCHANGED dead
    <2>1. pc'[r] = "poll" /\ \A s \in Streams : fds'[r][s] = Number(r, s, "read")
      BY <1>6 DEF StartsPolling, GoTo, TypeOK
    <2>2. \A k \in Descriptors : table'[k] = IF k = n THEN Free ELSE table[k]
      BY <1>6, ClosedType
    <2>3. StageInv(r)'
      BY <1>1, <1>2, <2>1 DEF RunInv, StageInv
    <2>4. TableInv(r)'
      <3>1. ASSUME NEW k \in Descriptors, table'[k] # Free, table'[k].run = r
            PROVE  \E s \in Streams : k = fds'[r][s]
        BY <1>1, <2>1, <2>2, <3>1 DEF RunInv, TableInv, ClosesYet
      <3> QED
        BY <2>1, <3>1 DEF TableInv, ClosesYet
    <2>5. ASSUME r \notin hit', NEW s \in Streams
          PROVE  /\ table'[Number(r, s, "read")'] = EndOf(r, s, "read")
                 /\ written'[r][s] = captured'[r][s] \o buffer'[r][s]
                 /\ ~HasRead(r, s)'
      <3>1. r \notin hit
        BY <1>6, <2>5, ClosedType
      <3>2. /\ table[n] = EndOf(r, "in", "write")
            /\ table[Number(r, s, "read")] = EndOf(r, s, "read")
            /\ written[r][s] = captured[r][s] \o buffer[r][s]
        BY <1>1, <3>1 DEF RunInv, DataInv, Reading
      <3>3. Number(r, s, "read") # n
        BY <3>2 DEF EndOf
      <3>4. table'[Number(r, s, "read")] = EndOf(r, s, "read")
        BY <1>3, <2>2, <3>2, <3>3
      <3>5. Number(r, s, "read") # -1
        BY <1>3, RunAssumption
      <3> QED
        BY <1>1, <1>2, <2>1, <3>2, <3>4, <3>5 DEF HasRead
    <2>6. DataInv(r)'
      <3>1. pc'[r] = "poll" /\ outcome'[r] # "ok"
        BY <1>4, <2>1
      <3> QED
        BY <1>5, <2>5, <3>1, Zenon DEF DataInv
    <2> QED
      BY <2>3, <2>4, <2>6 DEF RunInv
  <1>7. CASE dead' = TRUE /\ table' = [k \in Descriptors |-> Free] /\ UNCHANGED <<pc, fds, hit>>
    <2>1. StageInv(r)'
      BY <1>1, <1>2, <1>7 DEF RunInv, StageInv
    <2>2. TableInv(r)'
      BY <1>7 DEF TableInv
    <2>3. DataInv(r)'
      BY <1>1, <1>4, <1>5, <1>7 DEF DataInv
    <2> QED
      BY <2>1, <2>2, <2>3 DEF RunInv
  <1> QED
    BY <1>6, <1>7 DEF WriteScript

LEMMA PollOwn ==
    ASSUME TypeOK, NEW r \in Runs, RunInv(r), Poll(r)
    PROVE  RunInv(r)'
  <1>1. /\ pc[r] = "poll" /\ pc'[r] = "read" /\ ready'[r] = Reported(r) /\ Reported(r) # {}
        /\ UNCHANGED <<driver, table, own, fds, buffer, captured, child, status, holds, written,
                       outcome, dead, hit>>
    BY DEF Poll, At, GoTo, client, TypeOK
  <1>2. /\ PipesOf(r)' = PipesOf(r)
        /\ \A s, side : Number(r, s, side)' = Number(r, s, side)
    BY <1>1 DEF PipesOf, Number
  <1>3. \A s \in Reported(r) : fds[r][s] # -1
    BY DEF Reported
  <1>4. StageInv(r)'
    BY <1>1, <1>2, <1>3 DEF RunInv, StageInv
  <1>5. TableInv(r)'
    BY <1>1 DEF RunInv, TableInv, ClosesYet
  <1>6. /\ \A s : (Reading(r, s)' <=> Reading(r, s)) /\ (HasRead(r, s)' <=> HasRead(r, s))
        /\ \A end : IsOpen(end)' <=> IsOpen(end)
    BY <1>1 DEF Reading, HasRead, IsOpen
  <1>7. DataInv(r)'
    <2>1. outcome[r] = "none"
      BY <1>1 DEF RunInv, StageInv
    <2>2. captured'[r]["in"] = <<>> /\ written'[r]["in"] = <<>>
      BY <1>1 DEF RunInv, DataInv
    <2>3. ASSUME r \notin hit', ~dead', NEW s \in Streams
          PROVE  /\ Reading(r, s)' =>
                       /\ table'[Number(r, s, "read")'] = EndOf(r, s, "read")
                       /\ written'[r][s] = captured'[r][s] \o buffer'[r][s]
                 /\ HasRead(r, s)' =>
                       /\ ~IsOpen(EndOf(r, s, "write"))'
                       /\ buffer'[r][s] = <<>>
                       /\ written'[r][s] = captured'[r][s]
      <3>1. /\ Reading(r, s) =>
                  /\ table[Number(r, s, "read")] = EndOf(r, s, "read")
                  /\ written[r][s] = captured[r][s] \o buffer[r][s]
            /\ HasRead(r, s) =>
                  /\ ~IsOpen(EndOf(r, s, "write"))
                  /\ buffer[r][s] = <<>>
                  /\ written[r][s] = captured[r][s]
        BY <1>1, <2>3 DEF RunInv, DataInv
      <3> QED
        BY <1>1, <1>2, <1>6, <3>1
    <2>4. pc'[r] = "read" /\ outcome'[r] # "ok"
      BY <1>1, <2>1
    <2> QED
      BY <2>2, <2>3, <2>4, Zenon DEF DataInv
  <1> QED
    BY <1>4, <1>5, <1>7 DEF RunInv

LEMMA ReadStreamOwn ==
    ASSUME TypeOK, TypeOK', NEW r \in Runs, RunInv(r), ReadStream(r)
    PROVE  RunInv(r)'
  <1> DEFINE s == IF "out" \in ready[r] THEN "out" ELSE "err"
             n == fds[r][s]
             from == table[n]
  <1>0. s \in ready[r] /\ s \in Streams
    <2>1. ready[r] \subseteq {"out", "err"} /\ ready[r] # {}
      BY DEF ReadStream, At, RunInv, StageInv, TypeOK, Streams
    <2> QED
      BY <2>1 DEF Streams
  <1>1. /\ pc[r] = "read" /\ ~dead /\ ready'[r] = ready[r] \ {s}
        /\ UNCHANGED <<driver, own, child, status, holds, written, outcome, dead>>
    BY DEF ReadStream, At, client, TypeOK
  <1>2. PICK t : t = s
    OBVIOUS
  <1>3. PICK m : m = fds[r][t]
    OBVIOUS
  <1>4. /\ t \in ready[r] /\ t \in Streams
        /\ m \in Descriptors /\ m = Number(r, t, "read") /\ m # -1
    BY <1>0, <1>1, <1>2, <1>3, PolledType DEF RunInv, StageInv
  <1>5. pc'[r] = IF ready[r] # {t} THEN "read"
                 ELSE IF \E q \in Streams : fds'[r][q] # -1 THEN "poll" ELSE "reap"
    BY <1>2 DEF ReadStream, AfterStream, GoTo, TypeOK
  <1>6. /\ PipesOf(r)' = PipesOf(r)
        /\ \A q, side : Number(r, q, side)' = Number(r, q, side)
    BY <1>1 DEF PipesOf, Number
  <1>7. \A q \in Streams : fds[r][q] \in {-1, Number(r, q, "read")}
    BY <1>1 DEF RunInv, StageInv
  <1>8. \/ /\ table[m].side = "read" /\ buffer[table[m].run][table[m].stream] # <<>>
           /\ captured' = [captured EXCEPT ![r][t] =
                  Append(@, Head(buffer[table[m].run][table[m].stream]))]
           /\ buffer' = [buffer EXCEPT ![table[m].run][table[m].stream] = Tail(@)]
           /\ hit' = hit \cup ({table[m].run} \ {r})
           /\ UNCHANGED <<fds, table>>
        \/ /\ ~(table[m].side = "read" /\ buffer[table[m].run][table[m].stream] # <<>>)
           /\ Readable(m)
           /\ CloseAll(r, {m})
           /\ fds' = [fds EXCEPT ![r][t] = -1]
           /\ UNCHANGED <<captured, buffer>>
    BY <1>2, <1>3, Zenon DEF ReadStream
  <1>9. /\ hit \subseteq hit'
        /\ \A q \in Streams \ {t} : fds'[r][q] = fds[r][q]
        /\ fds'[r][t] \in {m, -1}
    <2>1. hit \subseteq hit'
      BY <1>8, ClosedType
    <2>2. fds' = fds \/ fds' = [fds EXCEPT ![r][t] = -1]
      BY <1>8
    <2>3. PICK f : f = fds[r] /\ f \in [Streams -> Descriptors \cup {-1}]
      BY DEF TypeOK
    <2>4. fds'[r] = f \/ fds'[r] = [f EXCEPT ![t] = -1]
      BY <2>2, <2>3 DEF TypeOK
    <2>5. /\ \A q \in Streams \ {t} : fds'[r][q] = f[q]
          /\ fds'[r][t] \in {f[t], -1}
      BY <1>4, <2>3, <2>4
    <2> QED
      BY <1>3, <2>1, <2>3, <2>5
  <1>10. outcome'[r] = "none" /\ child'[r] \in {"running", "ended"}
    BY <1>1 DEF RunInv, StageInv
  <1>11. StageInv(r)'
    <2>1. Len(own'[r]) \in {0, 2, 4, 6} /\ Len(own'[r]) = 2 * Len(PipesOf(r)')
          /\ Len(own'[r]) <= 2 * Len(PipesOf(r)')
      BY <1>1, <1>6, Zenon DEF RunInv, StageInv
    <2>2. pc'[r] \in {"read", "poll", "reap"}
      BY <1>5
    <2>3. \A q \in Streams : fds'[r][q] \in {-1, Number(r, q, "read")}
      BY <1>4, <1>7, <1>9
    <2>4. pc'[r] = "read" => ready'[r] # {} /\ \A q \in ready'[r] : fds'[r][q] # -1
      <3>1. ready[r] \subseteq Streams /\ \A q \in ready[r] : fds[r][q] # -1
        BY <1>1 DEF RunInv, StageInv, TypeOK
      <3>2. ready'[r] = ready[r] \ {t}
        BY <1>1, <1>2
      <3>3. ASSUME pc'[r] = "read"
            PROVE  ready[r] # {t}
        BY <1>5, <3>3
      <3>4. ready[r] # {t} => ready'[r] # {}
        BY <1>4, <3>2
      <3>5. \A q \in ready'[r] : q \in Streams \ {t} /\ fds[r][q] # -1
        BY <3>1, <3>2
      <3> QED
        BY <1>9, <3>3, <3>4, <3>5
    <2>5. pc'[r] = "reap" => \A q \in Streams : fds'[r][q] = -1
      BY <1>5
    <2> QED
      BY <1>6, <1>10, <2>1, <2>2, <2>3, <2>4, <2>5 DEF StageInv
  <1>12. TableInv(r)'
    <2>1. ASSUME NEW k \in Descriptors, table'[k] # Free, table'[k].run = r
          PROVE  \E q \in Streams : k = fds'[r][q]
      <3>1. table'[k] = table[k] /\ (k = m => fds'[r][t] = m)
        BY <1>3, <1>8, <2>1, ClosedType
      <3>2. PICK q \in Streams : k = fds[r][q]
        BY <1>1, <2>1, <3>1 DEF RunInv, TableInv, ClosesYet
      <3> QED
        BY <1>3, <1>4, <1>9, <3>1, <3>2
    <2>2. ASSUME NEW k \in Descriptors, NEW q \in Streams, k = fds'[r][q]
          PROVE  pc'[r] \in {"poll", "read"}
      <3>1. k # -1
        BY RunAssumption
      <3> QED
        BY <1>5, <2>2, <3>1
    <2> QED
      BY <2>1, <2>2 DEF TableInv, ClosesYet
  <1>13. ASSUME r \notin hit', NEW q \in Streams
         PROVE  /\ Reading(r, q)' =>
                      /\ table'[Number(r, q, "read")] = EndOf(r, q, "read")
                      /\ written'[r][q] = captured'[r][q] \o buffer'[r][q]
                /\ HasRead(r, q)' =>
                      /\ ~IsOpen(EndOf(r, q, "write"))'
                      /\ buffer'[r][q] = <<>>
                      /\ written'[r][q] = captured'[r][q]
    <2>1. /\ table[m] = EndOf(r, t, "read")
          /\ written[r][t] = captured[r][t] \o buffer[r][t]
      BY <1>1, <1>3, <1>4, <1>9, <1>13 DEF RunInv, DataInv, Reading
    <2>2. /\ table[m].side = "read" /\ table[m].run = r /\ table[m].stream = t
      BY <2>1 DEF EndOf
    <2>3. PICK c, b : /\ c \in Seq(Line) /\ b \in Seq(Line)
                      /\ c = captured[r][t] /\ b = buffer[r][t]
      BY <1>4 DEF TypeOK, Captures
    <2>4. /\ q # t /\ fds[r][q] # -1 =>
                /\ table[Number(r, q, "read")] = EndOf(r, q, "read")
                /\ Number(r, q, "read") \in Descriptors
                /\ written[r][q] = captured[r][q] \o buffer[r][q]
          /\ q # t /\ fds[r][q] = -1 =>
                /\ ~IsOpen(EndOf(r, q, "write")) /\ buffer[r][q] = <<>>
                /\ written[r][q] = captured[r][q]
      BY <1>1, <1>9, <1>13, PolledType DEF RunInv, DataInv, Reading, HasRead, Sides
    <2>5. /\ Reading(r, q)' => fds'[r][q] # -1
          /\ HasRead(r, q)' => fds'[r][q] = -1
      BY <1>5 DEF Reading, HasRead
    <2>6. ~IsOpen(EndOf(r, q, "write")) => ~IsOpen(EndOf(r, q, "write"))'
      <3>1. EndOf(r, q, "write") \in End /\ EndOf(r, q, "write").run = r
        BY <1>13 DEF EndOf, End, Sides
      <3> QED
        BY <1>1, <3>1, NobodyReopens DEF Run, RunInv
    <2>7. CASE /\ b # <<>> /\ UNCHANGED <<fds, table>>
               /\ captured' = [captured EXCEPT ![r][t] = Append(@, Head(b))]
               /\ buffer' = [buffer EXCEPT ![r][t] = Tail(@)]
      <3>1. q # t => captured'[r][q] = captured[r][q] /\ buffer'[r][q] = buffer[r][q]
        BY <1>4, <2>7 DEF TypeOK, Captures
      <3>2. CASE q = t
        <4>1. captured'[r][q] = Append(c, Head(b)) /\ buffer'[r][q] = Tail(b)
          BY <1>4, <2>3, <2>7, <3>2 DEF TypeOK, Captures
        <4>2. Append(c, Head(b)) \o Tail(b) = c \o b
          BY <2>3, <2>7, MovedLine
        <4>3. fds'[r][q] # -1
          BY <1>3, <1>4, <2>7, <3>2
        <4> QED
          BY <1>1, <1>4, <2>1, <2>3, <2>5, <2>7, <3>2, <4>1, <4>2, <4>3
      <3>3. CASE q # t
        BY <1>1, <2>4, <2>5, <2>6, <2>7, <3>1, <3>3
      <3> QED
        BY <3>2, <3>3
    <2>8. CASE /\ b = <<>> /\ Readable(m) /\ CloseAll(r, {m})
               /\ fds' = [fds EXCEPT ![r][t] = -1] /\ UNCHANGED <<captured, buffer>>
      <3>1. \A k \in Descriptors : table'[k] = IF k = m THEN Free ELSE table[k]
        BY <2>8, ClosedType
      <3>2. CASE q = t
        <4>1. fds'[r][q] = -1
          BY <1>4, <2>8, <3>2 DEF TypeOK
        <4>2. [table[m] EXCEPT !.side = "write"] = EndOf(r, t, "write")
          BY <2>1 DEF EndOf
        <4>3. ~IsOpen(EndOf(r, t, "write"))
          BY <2>2, <2>3, <2>8, <4>2 DEF Readable
        <4>4. c \o b = c
          BY <2>3, <2>8, PrefixOfJoined
        <4> QED
          BY <1>1, <2>1, <2>3, <2>5, <2>6, <2>8, <3>2, <4>1, <4>3, <4>4
      <3>3. CASE q # t
        <4>1. EndOf(r, q, "read") # EndOf(r, t, "read")
          BY <3>3 DEF EndOf
        <4> QED
          BY <1>1, <1>9, <1>13, <2>1, <2>4, <2>5, <2>6, <2>8, <3>1, <3>3, <4>1
      <3> QED
        BY <3>2, <3>3
    <2> QED
      BY <1>8, <2>2, <2>3, <2>7, <2>8, Zenon
  <1>14. DataInv(r)'
    <2>1. captured'[r]["in"] = <<>> /\ written'[r]["in"] = <<>>
      <3>1. captured[r]["in"] = <<>> /\ written[r]["in"] = <<>> /\ t # "in"
        BY <1>4 DEF RunInv, DataInv, Streams
      <3>2. captured'[r]["in"] = captured[r]["in"]
        BY <1>8, <3>1 DEF TypeOK, Captures
      <3> QED
        BY <1>1, <3>1, <3>2
    <2>2. pc'[r] \notin {"start", "write"} /\ outcome'[r] # "ok"
      BY <1>5, <1>10
    <2>3. ASSUME r \notin hit', NEW q \in Streams
          PROVE  /\ Reading(r, q)' =>
                       /\ table'[Number(r, q, "read")'] = EndOf(r, q, "read")
                       /\ written'[r][q] = captured'[r][q] \o buffer'[r][q]
                 /\ HasRead(r, q)' =>
                       /\ ~IsOpen(EndOf(r, q, "write"))'
                       /\ buffer'[r][q] = <<>>
                       /\ written'[r][q] = captured'[r][q]
      BY <1>6, <1>13, <2>3, Zenon
    <2>4. pc'[r] # "start" /\ pc'[r] # "write"
      BY <2>2
    <2> QED
      BY <2>1, <2>2, <2>3, <2>4, Zenon DEF DataInv
  <1> QED
    BY <1>11, <1>12, <1>14 DEF RunInv

\* A transport whose client was killed at the deadline reports success for telnet only,
\* and one whose client was waited for only telnet for a client that failed.
LEMMA SucceedsAfter ==
    ASSUME NEW r, NEW exitCode, NEW timedOut, Succeeds(r, exitCode, timedOut)
    PROVE  driver[r] # "telnet" => exitCode = 0
  BY DEF Succeeds, remote_ssh_scan, remote_ftp_deploy, remote_tftp_deploy

\* What a run has captured is the beginning of what its client wrote.
LEMMA CapturedIsPrefix ==
    ASSUME TypeOK, NEW r \in Runs, DataInv(r), r \notin hit, ~dead, NEW s \in Streams,
           Reading(r, s) \/ HasRead(r, s)
    PROVE  IsPrefix(captured[r][s], written[r][s])
  <1>1. PICK c, b : /\ c \in Seq(Line) /\ b \in Seq(Line)
                    /\ c = captured[r][s] /\ b = buffer[r][s]
    BY DEF TypeOK, Captures
  <1>2. IsPrefix(c, c \o b) /\ c \o <<>> = c
    BY <1>1, PrefixOfJoined
  <1>3. IsPrefix(c, c)
    <2>1. <<>> \in Seq(Line)
      OBVIOUS
    <2> QED
      BY <1>1, <2>1, PrefixOfJoined
  <1>4. written[r][s] = c \o b \/ written[r][s] = c
    BY <1>1 DEF DataInv
  <1> QED
    BY <1>1, <1>2, <1>3, <1>4

LEMMA TimeOutOwn ==
    ASSUME TypeOK, NEW r \in Runs, RunInv(r), TimeOut(r)
    PROVE  RunInv(r)'
  <1>1. /\ pc[r] = "poll" /\ ~dead /\ pc'[r] = "done" /\ child'[r] = "reaped"
        /\ UNCHANGED <<driver, own, fds, ready, buffer, captured, written, dead>>
        /\ CloseAll(r, {Number(r, s, "read") : s \in Streams})
    BY DEF TimeOut, At, KillAndWait, Return, GoTo, CloseReadEnds, TypeOK
  <1>2. PipesOf(r)' = PipesOf(r)
    BY <1>1 DEF PipesOf
  <1>3. StageInv(r)'
    BY <1>1, <1>2 DEF RunInv, StageInv
  <1>4. ASSUME NEW n \in Descriptors, table'[n] # Free, table'[n].run = r
        PROVE  FALSE
    <2>1. table'[n] = table[n] /\ \A s \in Streams : n # Number(r, s, "read")
      BY <1>1, <1>4, ClosedType
    <2>2. PICK s \in Streams : n = fds[r][s]
      BY <1>1, <1>4, <2>1 DEF RunInv, TableInv, ClosesYet
    <2>3. fds[r][s] \in {-1, Number(r, s, "read")} /\ n # -1
      BY <1>1, <2>2, RunAssumption DEF RunInv, StageInv
    <2> QED
      BY <2>1, <2>2, <2>3
  <1>5. ASSUME r \notin hit', outcome'[r] = "ok"
        PROVE  driver[r] = "telnet" /\ \A s \in Streams : IsPrefix(captured[r][s], written[r][s])
    <2>1. r \notin hit
      BY <1>1, <1>5, ClosedType
    <2>2. \A s \in Streams : Reading(r, s) \/ HasRead(r, s)
      BY <1>1 DEF Reading, HasRead
    <2>3. Succeeds(r, -1, TRUE)
      BY <1>5 DEF TimeOut, Return, ExitCode, TypeOK
    <2>4. driver[r] = "telnet"
      <3>1. -1 # 0
        OBVIOUS
      <3> QED
        BY <2>3, <3>1, SucceedsAfter
    <2>5. \A s \in Streams : IsPrefix(captured[r][s], written[r][s])
      BY <1>1, <2>1, <2>2, CapturedIsPrefix DEF RunInv
    <2> QED
      BY <2>4, <2>5
  <1>6. DataInv(r)'
    <2>1. captured'[r]["in"] = <<>> /\ written'[r]["in"] = <<>>
      BY <1>1 DEF RunInv, DataInv
    <2> QED
      BY <1>1, <1>5, <2>1 DEF DataInv, Reading, HasRead
  <1> QED
    BY <1>3, <1>4, <1>6 DEF RunInv, TableInv

LEMMA ReapOwn ==
    ASSUME TypeOK, NEW r \in Runs, RunInv(r), Reap(r)
    PROVE  RunInv(r)'
  <1>1. /\ pc[r] = "reap" /\ ~dead /\ pc'[r] = "done" /\ child'[r] = "reaped"
        /\ UNCHANGED <<driver, table, own, fds, ready, buffer, captured, status, written, dead, hit>>
    BY DEF Reap, At, WaitForChild, Return, GoTo, TypeOK
  <1>2. PipesOf(r)' = PipesOf(r)
    BY <1>1 DEF PipesOf
  <1>3. StageInv(r)'
    BY <1>1, <1>2 DEF RunInv, StageInv
  <1>4. TableInv(r)'
    BY <1>1 DEF RunInv, TableInv, ClosesYet
  <1>5. ASSUME r \notin hit, outcome'[r] = "ok"
        PROVE  /\ \A s \in Streams : IsPrefix(captured[r][s], written[r][s])
               /\ driver[r] # "telnet" => status[r] = 0 /\ captured[r] = written[r]
    <2>1. \A s \in Streams : HasRead(r, s)
      BY <1>1 DEF RunInv, StageInv, HasRead
    <2>2. \A s \in Streams : IsPrefix(captured[r][s], written[r][s])
      BY <1>1, <1>5, <2>1, CapturedIsPrefix DEF RunInv
    <2>3. Succeeds(r, status[r], FALSE)
      BY <1>1, <1>5 DEF Reap, Return, ExitCode, TypeOK
    <2>4. \A s \in All : captured[r][s] = written[r][s]
      BY <1>1, <1>5, <2>1 DEF RunInv, DataInv, All
    <2>5. captured[r] = written[r]
      <3>1. captured[r] \in [All -> Seq(Line)] /\ written[r] \in [All -> Seq(Line)]
        BY DEF TypeOK, Captures, All
      <3> QED
        BY <2>4, <3>1
    <2> QED
      BY <2>2, <2>3, <2>5, SucceedsAfter
  <1>6. DataInv(r)'
    <2>1. captured'[r]["in"] = <<>> /\ written'[r]["in"] = <<>>
      BY <1>1 DEF RunInv, DataInv
    <2> QED
      BY <1>1, <1>5, <2>1 DEF DataInv, Reading, HasRead
  <1> QED
    BY <1>3, <1>4, <1>6 DEF RunInv

\* A client writes, closes its output or ends.
LEMMA ClientOwn ==
    ASSUME TypeOK, TypeOK', NEW r \in Runs, RunInv(r), Client(r)
    PROVE  RunInv(r)'
  <1>1. /\ child[r] = "running" /\ child'[r] \in {"running", "ended"}
        /\ UNCHANGED <<driver, pc, table, own, fds, ready, captured, outcome, dead, hit>>
    BY DEF Client, ClientWrites, ClientCloses, ClientExits, ClientEnds, outside, TypeOK
  <1>2. /\ PipesOf(r)' = PipesOf(r) /\ Opened(r)' = Opened(r)
        /\ \A s, side : Number(r, s, side)' = Number(r, s, side)
        /\ \A s : (Reading(r, s)' <=> Reading(r, s)) /\ (HasRead(r, s)' <=> HasRead(r, s))
    BY <1>1 DEF PipesOf, Opened, Number, Reading, HasRead
  <1>3. pc[r] \notin {"start", "done"} /\ outcome[r] = "none"
    BY <1>1 DEF RunInv, StageInv
  <1>4. StageInv(r)'
    BY <1>1, <1>2, <1>3 DEF RunInv, StageInv
  <1>5. TableInv(r)'
    BY <1>1, <1>2 DEF RunInv, TableInv, ClosesYet
  <1>6. ASSUME NEW s \in Streams, ~IsOpen(EndOf(r, s, "write"))
        PROVE  ~IsOpen(EndOf(r, s, "write"))'
    <2>1. EndOf(r, s, "write") \in End /\ EndOf(r, s, "write").run = r
      BY DEF EndOf, End, Sides
    <2> QED
      BY <1>3, <1>6, <2>1, NobodyReopens DEF RunInv
  <1>7. ASSUME NEW s \in Streams, r \notin hit, ~dead
        PROVE  /\ Reading(r, s) => written'[r][s] = captured[r][s] \o buffer'[r][s]
               /\ HasRead(r, s) => buffer'[r][s] = <<>> /\ written'[r][s] = captured[r][s]
    <2>1. /\ Reading(r, s) =>
                /\ table[Number(r, s, "read")] = EndOf(r, s, "read")
                /\ Number(r, s, "read") \in Descriptors
                /\ written[r][s] = captured[r][s] \o buffer[r][s]
          /\ HasRead(r, s) =>
                /\ ~IsOpen(EndOf(r, s, "write"))
                /\ buffer[r][s] = <<>>
                /\ written[r][s] = captured[r][s]
      BY <1>3, <1>7, PolledType DEF RunInv, DataInv, Reading, Sides
    <2>2. ASSUME NEW text \in Texts, ClientWrites(r, s, text)
          PROVE  /\ Reading(r, s) => written'[r][s] = captured[r][s] \o buffer'[r][s]
                 /\ HasRead(r, s) => buffer'[r][s] = <<>> /\ written'[r][s] = captured[r][s]
      <3>1. ~HasRead(r, s)
        BY <2>1, <2>2 DEF ClientWrites, IsOpen
      <3>2. PICK c, b, l : /\ c \in Seq(Line) /\ b \in Seq(Line) /\ l \in Line
                           /\ c = captured[r][s] /\ b = buffer[r][s]
                           /\ l = [by |-> r, text |-> text]
        BY DEF TypeOK, Captures, Line
      <3>3. ASSUME Reading(r, s)
            PROVE  written'[r][s] = captured[r][s] \o buffer'[r][s]
        <4>1. IsOpen(EndOf(r, s, "read"))
          BY <2>1, <3>3 DEF IsOpen
        <4>2. /\ written' = [written EXCEPT ![r][s] = Append(@, l)]
              /\ buffer' = [buffer EXCEPT ![r][s] = Append(@, l)]
          BY <2>2, <3>2, <4>1 DEF ClientWrites
        <4>3. written'[r][s] = Append(c \o b, l) /\ buffer'[r][s] = Append(b, l)
          <5>1. PICK w, u : /\ w = written[r] /\ u = buffer[r]
                            /\ w \in [All -> Seq(Line)] /\ u \in [All -> Seq(Line)]
            BY DEF TypeOK, Captures, All
          <5>2. /\ written'[r] = [w EXCEPT ![s] = Append(@, l)]
                /\ buffer'[r] = [u EXCEPT ![s] = Append(@, l)]
            BY <4>2, <5>1 DEF TypeOK
          <5>3. s \in All /\ w[s] = c \o b /\ u[s] = b
            BY <2>1, <3>2, <3>3, <5>1 DEF All
          <5> QED
            BY <5>1, <5>2, <5>3
        <4>4. c \o Append(b, l) = Append(c \o b, l)
          <5>1. c \in Seq(Line) /\ b \in Seq(Line) /\ l \in Line
            BY <3>2
          <5> QED
            BY <5>1, AddedLine
        <4> QED
          BY <3>2, <4>3, <4>4
      <3> QED
        BY <3>1, <3>3
    <2>3. ASSUME UNCHANGED <<written[r][s], buffer[r][s]>>
          PROVE  /\ Reading(r, s) => written'[r][s] = captured[r][s] \o buffer'[r][s]
                 /\ HasRead(r, s) => buffer'[r][s] = <<>> /\ written'[r][s] = captured[r][s]
      BY <2>1, <2>3
    <2>4. ASSUME NEW t \in Streams \ {s}, NEW text \in Texts, ClientWrites(r, t, text)
          PROVE  UNCHANGED <<written[r][s], buffer[r][s]>>
      BY <2>4 DEF ClientWrites, TypeOK, Captures
    <2>5. ASSUME ClientCloses(r) \/ \E code \in ExitCodes : ClientExits(r, code)
          PROVE  UNCHANGED <<written[r][s], buffer[r][s]>>
      BY <2>5 DEF ClientCloses, ClientExits
    <2> QED
      BY <2>2, <2>3, <2>4, <2>5 DEF Client
  <1>8. captured'[r]["in"] = <<>> /\ written'[r]["in"] = <<>>
    <2>1. captured[r]["in"] = <<>> /\ written[r]["in"] = <<>>
      BY DEF RunInv, DataInv
    <2>2. ASSUME NEW t \in Streams, NEW text \in Texts, ClientWrites(r, t, text)
          PROVE  written'[r]["in"] = written[r]["in"]
      BY <2>2 DEF ClientWrites, TypeOK, Captures, Streams
    <2> QED
      BY <1>1, <2>1, <2>2 DEF Client, ClientCloses, ClientExits
  <1>9. DataInv(r)'
    <2>1. ASSUME r \notin hit', ~dead', NEW s \in Streams
          PROVE  /\ Reading(r, s)' =>
                       /\ table'[Number(r, s, "read")'] = EndOf(r, s, "read")
                       /\ written'[r][s] = captured'[r][s] \o buffer'[r][s]
                 /\ HasRead(r, s)' =>
                       /\ ~IsOpen(EndOf(r, s, "write"))'
                       /\ buffer'[r][s] = <<>>
                       /\ written'[r][s] = captured'[r][s]
      <3>1. /\ Reading(r, s) => table[Number(r, s, "read")] = EndOf(r, s, "read")
            /\ HasRead(r, s) => ~IsOpen(EndOf(r, s, "write"))
        BY <1>1, <2>1 DEF RunInv, DataInv
      <3> QED
        BY <1>1, <1>2, <1>6, <1>7, <2>1, <3>1
    <2>2. r \notin hit' /\ ~dead' /\ pc'[r] = "write" =>
              table'[Number(r, "in", "write")'] = EndOf(r, "in", "write")
      BY <1>1, <1>2 DEF RunInv, DataInv
    <2>3. pc'[r] # "start" /\ outcome'[r] # "ok"
      BY <1>1, <1>3
    <2> QED
      BY <1>8, <2>1, <2>2, <2>3, Zenon DEF DataInv
  <1> QED
    BY <1>4, <1>5, <1>9 DEF RunInv

-----------------------------------------------------------------------------
(* The theorems.                                                           *)

LEMMA InitIInv == Init => IInv
  <1> SUFFICES ASSUME Init
               PROVE  IInv
    OBVIOUS
  <1>1. <<>> \in Seq(Line) /\ <<>> \in Seq(Descriptors)
    OBVIOUS
  <1>2. TypeOK
    BY <1>1 DEF Init, TypeOK, Nothing, Captures
  <1>3. ASSUME NEW r \in Runs
        PROVE  RunInv(r)
    <2>1. own[r] = <<>> /\ Len(own[r]) = 0 /\ pc[r] = "start"
      BY DEF Init
    <2>2. PICK k : k = Len(PipesOf(r)) /\ k \in {2, 3}
      BY StreamsPiped
    <2>3. 0 <= 2 * k
      BY <2>2
    <2>4. StageInv(r)
      BY <2>1, <2>2, <2>3 DEF Init, StageInv
    <2>5. TableInv(r)
      BY DEF Init, TableInv
    <2>6. Opened(r) = {}
      BY <2>1, OpenedIs
    <2>7. DataInv(r)
      BY <2>6 DEF Init, DataInv, Nothing, Reading, HasRead
    <2> QED
      BY <2>4, <2>5, <2>7 DEF RunInv
  <1> QED
    BY <1>2, <1>3 DEF IInv

LEMMA NextIInv == IInv /\ [Next]_vars => IInv'
  <1>1. ASSUME IInv, NEW q \in Runs, Run(q) \/ Client(q)
        PROVE  IInv'
    <2>1. TypeOK /\ \A r \in Runs : RunInv(r)
      BY <1>1 DEF IInv
    <2>2. TypeOK'
      BY <1>1, <2>1, TypeStep DEF RunInv
    <2>3. RunInv(q)'
      BY <1>1, <2>1, <2>2, OpenPipeOwn, ForkOwn, WriteScriptOwn, PollOwn, ReadStreamOwn,
         TimeOutOwn, ReapOwn, ClientOwn DEF Run
    <2>4. ASSUME NEW r \in Runs \ {q}
          PROVE  RunInv(r)'
      BY <1>1, <2>1, <2>2, InvOfOthers DEF RunInv
    <2> QED
      BY <2>2, <2>3, <2>4 DEF IInv
  <1>2. ASSUME IInv, UNCHANGED vars
        PROVE  IInv'
    <2>1. UNCHANGED <<driver, pc, table, own, fds, ready, buffer, captured, child, status, holds,
                      written, outcome, dead, hit>>
      BY <1>2 DEF vars, client
    <2>2. TypeOK'
      BY <1>2, <2>1 DEF IInv, TypeOK
    <2>3. ASSUME NEW r \in Runs
          PROVE  RunInv(r)'
      <3>1. StageInv(r)' <=> StageInv(r)
        BY <2>1 DEF StageInv, PipesOf, Number
      <3>2. TableInv(r)' <=> TableInv(r)
        BY <2>1 DEF TableInv, ClosesYet, Opened, Number
      <3>3. DataInv(r)' <=> DataInv(r)
        BY <2>1 DEF DataInv, Opened, Number, Reading, HasRead, IsOpen
      <3> QED
        BY <1>2, <3>1, <3>2, <3>3 DEF IInv, RunInv
    <2> QED
      BY <2>2, <2>3 DEF IInv
  <1> QED
    BY <1>1, <1>2 DEF Next

\* The runs and their clients keep to the invariant.
THEOREM RunsKeepInvariant == Spec => []IInv
  BY InitIInv, NextIInv, PTL DEF Spec

\* However many runs share the table of descriptors, and whatever their clients do:
\* when all have returned no descriptor is open and no client is left to be reaped
\* (run_command, monitoring_remote.c).
THEOREM TableEndsEmpty == Spec => []TableIsSound
  <1>1. IInv => TableIsSound
    <2> SUFFICES ASSUME IInv, \A r \in Runs : pc[r] = "done"
                 PROVE  /\ \A n \in Descriptors : table[n] = Free
                        /\ \A r \in Runs : child[r] \in {"none", "reaped"}
      BY DEF IInv, TableIsSound, NothingLeftOpen
    <2>1. \A r \in Runs : TableInv(r) /\ child[r] \in {"none", "reaped"}
      BY DEF IInv, RunInv, StageInv
    <2>2. ASSUME NEW n \in Descriptors, table[n] # Free
          PROVE  FALSE
      <3>1. table[n].run \in Runs
        BY <2>2, FreeIsNoEnd DEF IInv, TypeOK
      <3>2. ClosesYet(table[n].run, n)
        BY <2>1, <2>2, <3>1 DEF TableInv
      <3> QED
        BY <3>1, <3>2 DEF ClosesYet
    <2> QED
      BY <2>1, <2>2
  <1> QED
    BY <1>1, RunsKeepInvariant, PTL

\* A transport that reports success, and that no other run took a descriptor or
\* output from, has what its own client wrote: the beginning of it for telnet, all
\* of it and from a client that exited with 0 for the others (monitoring_remote.h).
THEOREM SuccessReportsOwnOutput == Spec => []SuccessIsOwn
  <1>1. IInv => SuccessIsOwn
    BY DEF IInv, RunInv, DataInv, SuccessIsOwn
  <1> QED
    BY <1>1, RunsKeepInvariant, PTL

=============================================================================
