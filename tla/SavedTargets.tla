---------------------------- MODULE SavedTargets ----------------------------
(***************************************************************************)
(* The programs that share the file of saved targets: runs of the CLI      *)
(* (--save-target, --delete-target, --target) and remote dialogs of the Qt *)
(* program with their form.                                                *)
(*                                                                         *)
(* A program loads the list, changes it and writes it back.  Saving        *)
(* truncates the file and writes it in blocks, those of stdio; other       *)
(* programs load, truncate and write in between.  A program may crash, a   *)
(* disk may fill up, and an open for reading may fail although the file is *)
(* there (a full descriptor table), which targets_load takes for no file.  *)
(***************************************************************************)
EXTENDS TargetsFile, FiniteSets

CONSTANTS
    Names,        \* names of saved targets
    Protocols,    \* NeoProtocol without PROTOCOL_LOCAL
    DefaultPort,  \* defaultPortForProtocol: protocol -> port
    Ports,        \* ports targets are saved with; 0 is the protocol's default
    Passwords,    \* with "" for none
    Runs,         \* runs of the CLI
    Dialogs,      \* remote dialogs of Qt programs
    RunTargets,   \* the targets the CLI is asked to save
    FirstLists,   \* the lists the file may hold at first
    BlockSize,    \* tokens written at once
    MaxOps,       \* bound on the operations begun
    MaxFaults     \* bound on crashes, full disks, failed opens

Programs == Runs \cup Dialogs
Targets  == [protocol : Protocols, port : Ports \cup {DefaultPort[p] : p \in Protocols},
             password : Passwords]
EntryType == [name : Names, target : Targets]

\* Every entry of a list has a name of its own.
Distinct(entries) ==
    \A i, j \in DOMAIN entries : entries[i].name = entries[j].name => i = j

\* Neither the CLI nor the dialog saves a target without a name.  A control
\* character that is escaped as \u (ESC) does not come back from the file as it
\* was, see README; names have none.
ASSUME SavedTargetsAssumption ==
    /\ {"ssh", "telnet", "ftp"} \cap Protocols # {}
    /\ DefaultPort \in [Protocols -> Nat \ {0}]
    /\ Ports \subseteq Nat
    /\ RunTargets \subseteq [protocol : Protocols, port : Ports, password : Passwords]
    /\ "" \in Passwords
    /\ NameSize \in Nat \ {0}
    /\ Names \subseteq Seq(STRING \ {"ESC"})
    /\ \A name \in Names : name # <<>> /\ Len(name) < NameSize
    /\ \A first \in FirstLists : first \in Seq(EntryType) /\ Distinct(first)
    /\ Runs \cap Dialogs = {}
    /\ BlockSize \in Nat \ {0}
    /\ MaxOps \in Nat
    /\ MaxFaults \in Nat

NoName   == <<>>          \* the combo box shows "(none)"
NoTarget == [protocol |-> "none"]

VARIABLES
    exists,    \* there is a file
    file,      \* its tokens
    pc,        \* where each program is
    job,       \* what it is doing: [op, name, target]
    list,      \* its NeoTargetList
    offset,    \* how much of its document it has written
    form,      \* the fields of each dialog
    combo,     \* the names in its m_savedTargetCombo
    selected,  \* and the one that is shown
    ops, faults,
    fresh,     \* history: nobody changed the file since the program loaded it
    pristine,  \* history: the target in the form, if not edited since
    whole,     \* history: the list whose document begins the file
    tangled,   \* history: two writes of several blocks overlapped
    damaged,   \* history: a write was cut short or based on an old list
    stored     \* history: what the file holds, before the save that is under way

disk    == <<exists, file>>
program == <<pc, job, list, offset>>
dialog  == <<form, combo, selected>>
bounds  == <<ops, faults>>
history == <<fresh, pristine, whole, tangled, damaged, stored>>
vars == <<disk, program, dialog, bounds, history>>

Idle == [op |-> "none", name |-> NoName, target |-> NoTarget]

\* The dialog comes up with SSH selected, or the first protocol there is here.
EmptyForm ==
    LET p == IF "ssh" \in Protocols THEN "ssh" ELSE CHOOSE p \in Protocols : TRUE
    IN  [protocol |-> p, port |-> DefaultPort[p], login |-> "", deploy |-> ""]

NamesIn(entries) == {entries[i].name : i \in DOMAIN entries}

Table(entries) == [n \in NamesIn(entries) |-> Find(entries, n).target]

Init ==
    /\ exists \in BOOLEAN
    /\ \E first \in FirstLists :
          /\ file = IF exists THEN Document(first) ELSE <<>>
          /\ whole = IF exists THEN first ELSE <<>>
    /\ pc = [c \in Programs |-> "idle"]
    /\ job = [c \in Programs |-> Idle]
    /\ list = [c \in Programs |-> <<>>]
    /\ offset = [c \in Programs |-> 0]
    /\ form = [d \in Dialogs |-> EmptyForm]
    /\ combo = [d \in Dialogs |-> NamesIn(whole)]
    /\ selected = [d \in Dialogs |-> NoName]
    /\ ops = 0 /\ faults = 0
    /\ fresh = [c \in Programs |-> FALSE]
    /\ pristine = [d \in Dialogs |-> NoTarget]
    /\ tangled = FALSE
    /\ damaged = FALSE
    /\ stored = Table(whole)

-----------------------------------------------------------------------------
(* The form of a dialog.                                                   *)

\* The pages of the form, which share protocol, host and port.
LoginPage(protocol) == protocol \in {"ssh", "telnet"}

\* setCurrentIndex on the protocol: protocolChanged only if it is another one.
WithProtocol(fields, protocol) ==
    IF protocol = fields.protocol THEN fields
    ELSE [fields EXCEPT !.protocol = protocol, !.port = DefaultPort[protocol]]

WithPort(fields, target) ==
    IF target.port > 0 THEN [fields EXCEPT !.port = target.port] ELSE fields

WithPassword(fields, target) ==
    IF LoginPage(target.protocol) THEN [fields EXCEPT !.login = target.password]
                                  ELSE [fields EXCEPT !.deploy = target.password]

\* Mutant: the port is set before the protocol.
ApplyPortFirst(fields, target) ==
    WithPassword(WithProtocol(WithPort(fields, target), target.protocol), target)

\* applyTarget.
ApplyTarget(fields, target) ==
    WithPort(WithPassword(WithProtocol(fields, target.protocol), target), target)

\* targetFromCurrentFields: the page of the protocol, disabled fields too.
TargetFromFields(fields) ==
    [protocol |-> fields.protocol, port |-> fields.port,
     password |-> IF LoginPage(fields.protocol) THEN fields.login ELSE fields.deploy]

\* The user edits the form: a protocol, a port, or a password where one is
\* enabled.
EditForm(d) ==
    /\ pc[d] = "idle"
    /\ \/ \E p \in Protocols \ {form[d].protocol} :
             form' = [form EXCEPT ![d] = WithProtocol(@, p)]
       \/ \E n \in Ports \ {0, form[d].port} : form' = [form EXCEPT ![d].port = n]
       \/ \E w \in Passwords : \/ /\ form[d].protocol = "telnet" /\ w # form[d].login
                                  /\ form' = [form EXCEPT ![d].login = w]
                               \/ /\ form[d].protocol = "ftp" /\ w # form[d].deploy
                                  /\ form' = [form EXCEPT ![d].deploy = w]
    /\ pristine' = [pristine EXCEPT ![d] = NoTarget]
    /\ UNCHANGED <<disk, program, combo, selected, bounds, fresh, whole, tangled, damaged, stored>>

-----------------------------------------------------------------------------
(* Beginning an operation.                                                 *)

\* What is asked for is fixed before the list is loaded.
Begin(c, op, name, target) ==
    /\ pc[c] = "idle"
    /\ ops < MaxOps
    /\ ops' = ops + 1
    /\ pc' = [pc EXCEPT ![c] = "load"]
    /\ job' = [job EXCEPT ![c] = [op |-> op, name |-> name, target |-> target]]
    /\ UNCHANGED <<disk, list, offset, form, faults, history>>

\* A run of the CLI with one of its options (CommandLine has what leads there).
StartRun(c) ==
    /\ c \in Runs
    /\ \E name \in Names :
          \/ \E target \in RunTargets : Begin(c, "save", name, target)
          \/ \E op \in {"delete", "use"} : Begin(c, op, name, NoTarget)
    /\ UNCHANGED <<combo, selected>>

\* saveCurrentAsTarget, after the name was entered.
SaveAs(d) ==
    /\ \E name \in Names : Begin(d, "save", name, TargetFromFields(form[d]))
    /\ UNCHANGED <<combo, selected>>

\* deleteSelectedTarget, after Yes: it asks before it loads.
DeleteSelected(d) ==
    /\ selected[d] # NoName
    /\ Begin(d, "delete", selected[d], NoTarget)
    /\ UNCHANGED <<combo, selected>>

\* savedTargetSelected, with another name than the one that is shown.
Select(d) ==
    /\ \E name \in combo[d] \ {selected[d]} :
          /\ Begin(d, "use", name, NoTarget)
          /\ selected' = [selected EXCEPT ![d] = name]
    /\ UNCHANGED combo

\* savedTargetSelected, with "(none)": the fields stay.
SelectNone(d) ==
    /\ pc[d] = "idle"
    /\ selected[d] # NoName
    /\ selected' = [selected EXCEPT ![d] = NoName]
    /\ UNCHANGED <<disk, program, form, combo, bounds, history>>

-----------------------------------------------------------------------------
(* Loading.                                                                *)

Finish(c) ==
    /\ pc' = [pc EXCEPT ![c] = "idle"]
    /\ job' = [job EXCEPT ![c] = Idle]
    /\ list' = [list EXCEPT ![c] = <<>>]

\* The list stays in hand, changed or not, for what comes next.
Goto(c, where, entries) ==
    /\ pc' = [pc EXCEPT ![c] = where]
    /\ list' = [list EXCEPT ![c] = entries]
    /\ UNCHANGED job

Entry(c) == [name |-> job[c].name, target |-> job[c].target]

\* The combo box after reloadSavedTargetsCombo(name).
Show(d, entries, name) ==
    /\ combo' = [combo EXCEPT ![d] = NamesIn(entries)]
    /\ selected' = [selected EXCEPT
           ![d] = IF Positions(entries, name) # {} THEN name ELSE NoName]

\* The target called name is applied, if the list has it.
Use(c, entries) ==
    /\ Finish(c)
    /\ IF c \in Dialogs /\ Positions(entries, job[c].name) # {}
       THEN LET target == Find(entries, job[c].name).target
            IN  /\ form' = [form EXCEPT ![c] = ApplyTarget(@, target)]
                /\ pristine' = [pristine EXCEPT ![c] = target]
       ELSE UNCHANGED <<form, pristine>>
    /\ UNCHANGED <<combo, selected>>

\* What is done with the list once it is loaded.
Proceed(c, entries) ==
    LET found == Positions(entries, job[c].name) # {}
        op    == job[c].op
    IN  IF pc[c] = "reload"
        THEN /\ Finish(c)
             /\ Show(c, entries, IF op = "save" THEN job[c].name ELSE NoName)
             /\ UNCHANGED <<form, pristine>>
        ELSE IF op = "use" THEN Use(c, entries)
        ELSE /\ CASE op = "save" /\ found /\ c \in Dialogs -> Goto(c, "confirm", entries)
                  [] op = "save" /\ ~(found /\ c \in Dialogs) ->
                        Goto(c, "open", Upsert(entries, Entry(c)))
                  [] op = "delete" /\ ~found /\ c \in Runs -> Finish(c)
                  [] op = "delete" /\ (found \/ c \in Dialogs) ->
                        Goto(c, "open", Without(entries, job[c].name))
             /\ UNCHANGED <<dialog, pristine>>

\* A list that cannot be loaded: the operation ends, the combo stays empty.
GiveUp(c) ==
    /\ Finish(c)
    /\ IF pc[c] = "reload" THEN Show(c, <<>>, NoName)
                          ELSE UNCHANGED <<combo, selected>>
    /\ UNCHANGED <<form, pristine>>

\* Mutant: a dialog that cannot load the list goes on with an empty one.
LoadGoesOn(c) ==
    /\ pc[c] \in {"load", "reload"}
    /\ IF ~exists THEN Proceed(c, <<>>)
       ELSE IF Readable(file) THEN Proceed(c, Entries(file))
       ELSE IF c \in Dialogs THEN Proceed(c, <<>>) ELSE GiveUp(c)
    /\ fresh' = [fresh EXCEPT ![c] = TRUE]
    /\ UNCHANGED <<disk, offset, bounds, whole, tangled, damaged, stored>>

\* targets_load, and what its caller makes of the result.  It takes the size and reads
\* afterwards, in more than one read; here it sees one version of the file.  A save
\* from a list of two versions is one from a list that is no longer the file's.
Load(c) ==
    /\ pc[c] \in {"load", "reload"}
    /\ IF ~exists THEN Proceed(c, <<>>)
       ELSE IF Readable(file) THEN Proceed(c, Entries(file))
       ELSE GiveUp(c)
    /\ fresh' = [fresh EXCEPT ![c] = TRUE]
    /\ UNCHANGED <<disk, offset, bounds, whole, tangled, damaged, stored>>

\* fopen fails though the file is there: "no saved targets yet".
LoadNothing(c) ==
    /\ pc[c] \in {"load", "reload"}
    /\ exists
    /\ faults < MaxFaults
    /\ faults' = faults + 1
    /\ Proceed(c, <<>>)
    /\ fresh' = [fresh EXCEPT ![c] = FALSE]
    /\ UNCHANGED <<disk, offset, ops, whole, tangled, damaged, stored>>

\* The answer to "Overwrite it?".
Answer(c) ==
    /\ pc[c] = "confirm"
    /\ \/ Finish(c)
       \/ Goto(c, "open", Upsert(list[c], Entry(c)))
    /\ UNCHANGED <<disk, offset, dialog, bounds, history>>

-----------------------------------------------------------------------------
(* Saving.                                                                 *)

Writers == {c \in Programs : pc[c] = "write"}

\* c's document, and that it takes more than one block.
Doc(c)  == Document(list[c])
Long(c) == Len(Doc(c)) > BlockSize

\* fopen(path, "w").
Truncate(c) ==
    /\ pc[c] = "open"
    /\ exists' = TRUE
    /\ file' = <<>>
    /\ Goto(c, "write", list[c])
    /\ offset' = [offset EXCEPT ![c] = 0]
    /\ fresh' = [p \in Programs |-> FALSE]
    /\ whole' = <<>>
    /\ tangled' = (tangled \/ (Long(c) /\ \E p \in Writers : Long(p)))
    /\ damaged' = (damaged \/ ~fresh[c] \/ Writers # {})
    /\ stored' = IF damaged' THEN <<>> ELSE stored
    /\ UNCHANGED <<dialog, bounds, pristine>>

\* The directory or the file cannot be made.
CannotOpen(c) ==
    /\ pc[c] = "open"
    /\ Finish(c)
    /\ UNCHANGED <<disk, offset, dialog, bounds, history>>

\* The file after tokens were written at position at, past its end if need be.
Overlay(at, tokens) ==
    LET length == IF Len(file) > at + Len(tokens) THEN Len(file) ELSE at + Len(tokens)
    IN  [i \in 1 .. length |-> IF i > at /\ i <= at + Len(tokens) THEN tokens[i - at]
                               ELSE IF i <= Len(file) THEN file[i] ELSE Hole]

\* One block; the last one at fclose.  A dialog then reloads its combo box.
WriteBlock(c) ==
    /\ pc[c] = "write"
    /\ LET upto == IF offset[c] + BlockSize < Len(Doc(c)) THEN offset[c] + BlockSize
                   ELSE Len(Doc(c))
       IN  /\ file' = Overlay(offset[c], SubSeq(Doc(c), offset[c] + 1, upto))
           /\ IF upto < Len(Doc(c))
              THEN /\ offset' = [offset EXCEPT ![c] = upto]
                   /\ UNCHANGED <<pc, job, list>>
              ELSE /\ offset' = [offset EXCEPT ![c] = 0]
                   /\ IF c \in Dialogs THEN Goto(c, "reload", <<>>) ELSE Finish(c)
    /\ whole' = IF offset[c] = 0 THEN list[c] ELSE whole
    /\ stored' = IF pc'[c] = "write" \/ damaged THEN stored ELSE Table(Entries(file'))
    /\ fresh' = [p \in Programs |-> FALSE]
    /\ UNCHANGED <<exists, dialog, bounds, pristine, tangled, damaged>>

\* The disk is full: the rest of the document is lost, the save has failed.
DiskFull(c) ==
    /\ pc[c] = "write"
    /\ faults < MaxFaults
    /\ faults' = faults + 1
    /\ Finish(c)
    /\ offset' = [offset EXCEPT ![c] = 0]
    /\ damaged' = TRUE
    /\ stored' = <<>>
    /\ UNCHANGED <<disk, dialog, ops, fresh, pristine, whole, tangled>>

\* The program dies, anywhere; what it had not written is lost.  A dialog is
\* opened again: its constructor loads the combo box.
Crash(c) ==
    /\ pc[c] # "idle"
    /\ faults < MaxFaults
    /\ faults' = faults + 1
    /\ pc' = [pc EXCEPT ![c] = IF c \in Dialogs THEN "reload" ELSE "idle"]
    /\ job' = [job EXCEPT ![c] = Idle]
    /\ list' = [list EXCEPT ![c] = <<>>]
    /\ offset' = [offset EXCEPT ![c] = 0]
    /\ form' = [d \in Dialogs |-> IF d = c THEN EmptyForm ELSE form[d]]
    /\ combo' = [d \in Dialogs |-> IF d = c THEN {} ELSE combo[d]]
    /\ selected' = [d \in Dialogs |-> IF d = c THEN NoName ELSE selected[d]]
    /\ pristine' = [d \in Dialogs |-> IF d = c THEN NoTarget ELSE pristine[d]]
    /\ damaged' = (damaged \/ pc[c] = "write")
    /\ stored' = IF pc[c] = "write" THEN <<>> ELSE stored
    /\ UNCHANGED <<disk, ops, fresh, whole, tangled>>

Next ==
    \/ \E d \in Dialogs :
          EditForm(d) \/ SaveAs(d) \/ DeleteSelected(d) \/ Select(d) \/ SelectNone(d)
    \/ \E c \in Runs : StartRun(c)
    \/ \E c \in Programs :
          \/ Load(c) \/ LoadNothing(c) \/ Answer(c)
          \/ Truncate(c) \/ CannotOpen(c) \/ WriteBlock(c)
          \/ DiskFull(c) \/ Crash(c)

Spec == Init /\ [][Next]_vars

-----------------------------------------------------------------------------

TypeOK ==
    /\ exists \in BOOLEAN
    /\ \A i \in DOMAIN file :
          \/ file[i] \in {Opening, Closing, Hole}
          \/ file[i].target \in Targets /\ file[i].after \in {"comma", "end"}
    /\ pc \in [Programs -> {"idle", "load", "confirm", "open", "write", "reload"}]
    /\ \A c \in Programs :
          /\ job[c].op \in {"none", "save", "delete", "use"}
          /\ job[c].name \in Names \cup {NoName}
          /\ job[c].target \in Targets \cup {NoTarget}
          /\ \A i \in DOMAIN list[c] : list[c][i] \in EntryType
    /\ offset \in [Programs -> Nat]
    /\ form \in [Dialogs -> [protocol : Protocols, port : Nat \ {0},
                             login : Passwords, deploy : Passwords]]
    /\ combo \in [Dialogs -> SUBSET Names]
    /\ \A d \in Dialogs : selected[d] \in combo[d] \cup {NoName}

\* Whenever the file can be read, during a save and after a crash too, it holds
\* just the list of the program that wrote it last: targets_load never returns
\* a part of a list as if it were all.
ReadableMeansWhole ==
    exists /\ ~tangled /\ Readable(file) => Entries(file) = whole

\* A save that was cut short is the only thing that leaves a file nobody can
\* read: not programs that truncate and write across each other, as long as one
\* of the two documents fits a block, and not the tail of a longer document.
ReadableWhenQuiet ==
    exists /\ Writers = {} /\ ~tangled /\ faults = 0 => Readable(file)

\* The file is rewritten in place, block by block, by two programs that know
\* nothing of each other and may crash: what targets_load accepts is a whole list.
FileIsSound == TypeOK /\ ReadableMeansWhole /\ ReadableWhenQuiet

\* A file that cannot be read stays as it is, for the user to repair: no
\* program that found it so goes on to overwrite it.  (One whose open failed
\* does, and one that loaded it before.)
UnreadableIsKept ==
    \A c \in Programs :
        pc[c] \in {"confirm", "open"} /\ fresh[c] /\ exists => Readable(file)

\* "Picking one fills in every field below" (QT_GUI_GUIDE.md:39): what is saved
\* from a form nobody edited since is the target it was filled from; a port of
\* 0 is saved as a number.
SavingAgainChangesNothing ==
    \A d \in Dialogs :
        job[d].op = "save" /\ pristine[d] # NoTarget =>
            /\ job[d].target.protocol = pristine[d].protocol
            /\ job[d].target.password = pristine[d].password
            /\ pristine[d].port > 0 => job[d].target.port = pristine[d].port

-----------------------------------------------------------------------------
(* The promise: all of a save or a delete or nothing of it, until one is   *)
(* cut short or made from a list that is no longer the file's.             *)

\* What a program asks for until its document is written.
Asked(c) ==
    CASE pc[c] = "reload" \/ job[c].op \in {"none", "use"} -> Idle
      [] OTHER -> IF job[c].op = "save" THEN job[c]
                  ELSE [op |-> "delete", name |-> job[c].name]

Store ==
    INSTANCE TargetStore WITH
        Clients <- Programs,
        Nothing <- Idle,
        store   <- stored,
        asked   <- [c \in Programs |-> Asked(c)]

\* Every save and delete that finds the file as it was loaded has its own effect,
\* on the one name it is about, when its document is complete and not before.
ImplementsTargetStore == Store!Spec
=============================================================================
