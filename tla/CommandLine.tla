----------------------------- MODULE CommandLine -----------------------------
(***************************************************************************)
(* The CLI from its command line to its exit: config_parse with the        *)
(* commands on saved targets, the choice of a mode in main, and the remote *)
(* modes, monitoring over SSH or Telnet and deploying over FTP or TFTP.    *)
(* LocalMonitor and Capture are the two other modes.                       *)
(*                                                                         *)
(* Runs follow one another and share the files of saved targets; what runs *)
(* at the same time do to such a file is SavedTargets' subject.  An        *)
(* argument is an option with its value, [opt, value].                     *)
(***************************************************************************)
EXTENDS Filters, Integers, FiniteSets

CONSTANTS
    Arguments,   \* options with values, and patterns, that may be given
    Paths,       \* files of saved targets
    Names,       \* names of saved targets
    FirstFiles,  \* what they may hold at first
    Accounts,    \* local account -> uid
    Numbers,     \* text strtoul reads to its end -> the number
    Processes,   \* what a remote scan may return, each an element with a pid
    PidModulus,  \* 2^32: a long is cut to a pid_t, or a uid_t
    MaxPatterns, \* MAX_PATTERNS
    MaxStates,   \* MAX_STATE_FILTER
    NaN,         \* what strtod makes of "nan"
    NotGiven,
    MaxTaken,    \* bound on the arguments of a line
    MaxRuns      \* bound on the runs

\* The fields a saved target has, and the options that set them.
Fields == {"protocol", "host", "user", "password", "port", "identity",
           "remote_bin", "remote_file"}

Monitors == {"ssh", "telnet"}
Deploys  == {"ftp", "tftp"}

VARIABLES
    phase,     \* the statement of config_parse, main or a mode that is next
    config,    \* NeoConfig
    explicit,  \* history: the last value given for each field
    files,     \* path -> the file of saved targets there
    running,   \* the flag signal_handler clears
    list,      \* the processes of the last scan
    code,      \* the exit status
    taken, runs,
    outcome,   \* history: what the run has done
    reached    \* history: <<path, name>> -> the peer of the run that saved it

vars == <<phase, config, explicit, files, running, list, code, taken, runs,
          outcome, reached>>

-----------------------------------------------------------------------------
(* The configuration.                                                      *)

\* config_init.
DefaultConfig ==
    [connection |-> [protocol |-> "local", host |-> "", user |-> "", password |-> "",
                     port |-> 0, identity |-> "", remote_bin |-> "app_top_monitoring",
                     remote_file |-> ""],
     set        |-> {},        \* protocol_set, host_set, ...
     user_arg   |-> NotGiven,
     filter     |-> NoUser,
     pids |-> <<>>, ppids |-> <<>>, states |-> <<>>, excludes |-> <<>>, patterns |-> <<>>,
     flags      |-> {},        \* the options without a value
     settings   |-> <<>>,      \* those with a value nothing below reads
     capture    |-> FALSE,
     local_file |-> "",
     target_name |-> "", save_name |-> "", delete_name |-> "",
     targets_file |-> ""]

Flags    == {"once", "batch", "csv", "json", "reverse", "long_args", "list_targets",
             "swap", "io", "threads", "start_time", "elapsed", "no_color", "notify"}
Settings == {"interval", "sort", "limit", "cpu_threshold", "ram_mb", "ram_percent",
             "log_level", "log_file", "alert_cpu", "alert_mem", "alert_duration",
             "webhook", "capture_output"}
Texts    == {"local_file", "target_name", "save_name", "delete_name", "targets_file"}

\* A file of saved targets, one that cannot be read, one that is not there.
File(table) == [state |-> "table", table |-> table]
Broken      == [state |-> "broken", table |-> <<>>]
NoFile      == [state |-> "none", table |-> <<>>]

Outside(value, low, high) == value # NaN /\ (value < low \/ value > high)

Options  == Fields \cup Flags \cup Settings \cup Texts \cup
            {"pids", "ppids", "states", "exclude", "pattern", "capture", "help",
             "version", "unknown"}

ASSUME CommandLineAssumption ==
    /\ "default" \in Paths
    /\ PidModulus \in Nat /\ PidModulus % 2 = 0 /\ PidModulus > 0
    /\ {MaxPatterns, MaxStates, MaxTaken, MaxRuns} \subseteq Nat
    /\ \A text \in DOMAIN Numbers : Numbers[text] \in Nat
    /\ \A first \in FirstFiles :
          /\ DOMAIN first = Paths
          /\ \A path \in Paths :
                \A n \in DOMAIN first[path].table : DOMAIN first[path].table[n] = Fields
    /\ \A a \in Arguments :
          /\ a.opt \in Options
          /\ a.opt \in Fields => a.value # NotGiven
          /\ a.opt \in {"pids", "ppids"} => a.value \in Seq(Int)
          /\ a.opt = "targets_file" => a.value \in Paths

\* A pid list with a part that is not above 0, as which no number counts.
BadList(value) == \E i \in DOMAIN value : value[i] <= 0

\* An argument the switch of config_parse returns -1 on.  Numbers are tenths.
\* NaN is outside of no range.
Rejected(a) ==
    CASE a.opt = "interval"       -> Outside(a.value, 1, 600)
      [] a.opt = "alert_duration" -> a.value # NaN /\ a.value < 0
      [] a.opt = "capture"        -> a.value \notin {NaN, NotGiven} /\ a.value <= 0
      [] a.opt = "sort"           -> a.value \notin {"cpu", "mem", "pid", "rss", "read", "write"}
      [] a.opt = "log_level"      -> a.value \notin {"error", "warn", "info", "debug"}
      [] a.opt = "protocol"       -> a.value \notin {"local"} \cup Monitors \cup Deploys
      [] a.opt \in {"pids", "ppids"} -> BadList(a.value)
      [] a.opt = "exclude"        -> Len(config.excludes) >= MaxPatterns
      [] a.opt = "unknown"        -> TRUE
      [] OTHER                    -> FALSE

\* (pid_t)pid.
PidOf(long) == ((long + PidModulus \div 2) % PidModulus) - PidModulus \div 2

\* parse_pid_list: the pids are added to those of an earlier option.
WithPids(c, opt, value) == [c EXCEPT ![opt] = @ \o [i \in DOMAIN value |-> PidOf(value[i])]]

\* parse_states: unknown letters are skipped, letters past the limit too.
WithStates(c, value) ==
    LET known == SelectSeq(value, LAMBDA s : s \in {"R", "S", "D", "T", "Z", "X", "I"})
        all   == c.states \o known
    IN  [c EXCEPT !.states = Restrict(all, DOMAIN all \cap 1 .. MaxStates)]

\* --protocol, --host, --user, ...: the last one of each stands.
WithField(c, a) ==
    [c EXCEPT !.connection[a.opt] = a.value, !.set = @ \cup {a.opt},
              !.user_arg = IF a.opt = "user" THEN a.value ELSE @]

\* --csv and --json are batch modes.
WithFlag(c, flag) ==
    [c EXCEPT !.flags = @ \cup {flag} \cup (IF flag \in {"csv", "json"} THEN {"batch"} ELSE {})]

WithSetting(c, a) ==
    [c EXCEPT !.settings = [s \in DOMAIN @ \cup {a.opt} |-> IF s = a.opt THEN a.value ELSE @[s]]]

\* The switch of config_parse.
WithOption(c, a) ==
    CASE a.opt \in Fields            -> WithField(c, a)
      [] a.opt \in Flags             -> WithFlag(c, a.opt)
      [] a.opt \in Settings          -> WithSetting(c, a)
      [] a.opt \in Texts             -> [c EXCEPT ![a.opt] = a.value]
      [] a.opt \in {"pids", "ppids"} -> WithPids(c, a.opt, a.value)
      [] a.opt = "states"            -> WithStates(c, a.value)
      [] a.opt = "exclude"           -> [c EXCEPT !.excludes = Append(@, a.value)]
      [] a.opt = "pattern"           -> [c EXCEPT !.patterns = Append(@, a.value)]
      [] a.opt = "capture"           -> [c EXCEPT !.capture = TRUE]

-----------------------------------------------------------------------------
(* Parsing.                                                                *)

Init ==
    /\ phase = "options"
    /\ config = DefaultConfig
    /\ explicit = [f \in Fields |-> NotGiven]
    /\ files \in FirstFiles
    /\ running = TRUE
    /\ list = <<>>
    /\ code = 0
    /\ taken = 0
    /\ runs = 1
    /\ outcome = "nothing"
    /\ reached = <<>>

Exit(status) == phase' = "exited" /\ code' = status

\* What most statements of config_parse leave alone.
Kept == <<running, list, taken, runs, outcome, reached>>

\* One argument; --help and --version end the program at once.
TakeArgument ==
    /\ phase = "options"
    /\ taken < MaxTaken
    /\ taken' = taken + 1
    /\ \E a \in Arguments :
          IF a.opt \in {"help", "version"}
          THEN Exit(0) /\ outcome' = "help" /\ UNCHANGED <<config, explicit>>
          ELSE IF Rejected(a)
          THEN Exit(1) /\ UNCHANGED <<config, explicit, outcome>>
          ELSE /\ config' = WithOption(config, a)
               /\ explicit' = IF a.opt \in Fields THEN [explicit EXCEPT ![a.opt] = a.value]
                                                  ELSE explicit
               /\ UNCHANGED <<phase, code, outcome>>
    /\ UNCHANGED <<files, running, list, runs, reached>>

EndOfOptions ==
    /\ phase = "options"
    /\ phase' = IF "list_targets" \in config.flags \/ config.delete_name # ""
                THEN "command" ELSE "target"
    /\ UNCHANGED <<config, explicit, files, code, Kept>>

\* Mutant: --targets-file counts for loading a target only.
PathForTarget ==
    IF config.targets_file = "" \/ phase \in {"save", "command"} THEN "default"
    ELSE config.targets_file

\* The file of saved targets this run uses.
Path == IF config.targets_file = "" THEN "default" ELSE config.targets_file

\* targets_load: no file is an empty list.
Loaded    == files[Path].table
LoadFails == files[Path] = Broken

\* targets_save: it may fail before it opens the file or after.
SaveTargets(table, OnSuccess, OnFailure) ==
    \/ files' = [files EXCEPT ![Path] = File(table)] /\ OnSuccess
    \/ UNCHANGED files /\ OnFailure
    \/ files' = [files EXCEPT ![Path] = Broken] /\ OnFailure

Without(table, name) == [n \in DOMAIN table \ {name} |-> table[n]]
With(table, name, connection) ==
    [n \in DOMAIN table \cup {name} |-> IF n = name THEN connection ELSE table[n]]

\* --list-targets and --delete-target end the program; with both, it deletes.
TargetCommand ==
    LET name == config.delete_name
    IN  /\ phase = "command"
        /\ IF LoadFails \/ (name # "" /\ name \notin DOMAIN Loaded)
           THEN Exit(1) /\ UNCHANGED <<files, outcome>>
           ELSE IF name = ""
           THEN Exit(0) /\ outcome' = "listed" /\ UNCHANGED files
           ELSE SaveTargets(Without(Loaded, name),
                            Exit(0) /\ outcome' = "deleted",
                            Exit(1) /\ UNCHANGED outcome)
        /\ UNCHANGED <<config, explicit, running, list, taken, runs, reached>>

\* Mutant: only the fields the default leaves empty are taken from the target.
MergedIfEmpty(c, target) ==
    [f \in Fields |-> IF c.connection[f] # DefaultConfig.connection[f] THEN c.connection[f]
                      ELSE target[f]]

\* The fields that were not given are the target's.
Merged(c, target) ==
    [f \in Fields |-> IF f \in c.set THEN c.connection[f] ELSE target[f]]

\* --target.
UseTarget ==
    /\ phase = "target"
    /\ IF config.target_name = "" THEN phase' = "patterns" /\ UNCHANGED <<config, code>>
       ELSE IF LoadFails THEN Exit(1) /\ UNCHANGED config
       ELSE IF config.target_name \notin DOMAIN Loaded THEN Exit(1) /\ UNCHANGED config
       ELSE /\ config' = [config EXCEPT !.connection = Merged(config, Loaded[config.target_name])]
            /\ phase' = "patterns"
            /\ UNCHANGED code
    /\ UNCHANGED <<explicit, files, Kept>>

Patterns ==
    /\ phase = "patterns"
    /\ IF Len(config.patterns) > MaxPatterns THEN Exit(1)
                                             ELSE phase' = "user" /\ UNCHANGED code
    /\ UNCHANGED <<config, explicit, files, Kept>>

\* (uid_t)uid.
UidOf(number) == number % PidModulus

\* parse_user: any number is a uid, whether an account has it or not; another
\* text has to be an account, filtered for by uid and by name.
UserFilter(user) ==
    IF user \in DOMAIN Numbers THEN [uid |-> UidOf(Numbers[user]), name |-> NoUser.name]
    ELSE [uid |-> Accounts[user], name |-> user]

KnownUser(user) == user \in DOMAIN Numbers \cup DOMAIN Accounts

\* Mutant: the protocol that was given decides, not the target's.
FiltersByUserUnlessGiven(c) ==
    c.user_arg # NotGiven /\ ("protocol" \in c.set => c.connection.protocol = "local")

\* --user is a filter only of a local run.
FiltersByUser(c) == c.connection.protocol = "local" /\ c.user_arg # NotGiven

User ==
    /\ phase = "user"
    /\ IF ~FiltersByUser(config) THEN phase' = "save" /\ UNCHANGED <<config, code>>
       ELSE IF ~KnownUser(config.user_arg) THEN Exit(1) /\ UNCHANGED config
       ELSE /\ config' = [config EXCEPT !.filter = UserFilter(config.user_arg)]
            /\ phase' = "save"
            /\ UNCHANGED code
    /\ UNCHANGED <<explicit, files, Kept>>

\* What a run builds from its configuration to connect: build_remote_target,
\* build_ftp_target, build_tftp_target.  A port of 0 is the client's default.
Peer(connection) ==
    LET protocol == connection.protocol
        host     == connection.host
        Port(default) == IF connection.port > 0 THEN connection.port ELSE default
    IN  CASE protocol \in Monitors ->
               [protocol |-> protocol, host |-> host, user |-> connection.user,
                password |-> connection.password, identity |-> connection.identity,
                port |-> connection.port,
                binary |-> IF connection.remote_bin # "" THEN connection.remote_bin
                           ELSE "app_top_monitoring"]
          [] protocol = "ftp" ->
               [protocol |-> protocol, host |-> host, user |-> connection.user,
                password |-> connection.password, file |-> connection.remote_file,
                port |-> Port(21)]
          [] protocol = "tftp" ->
               [protocol |-> protocol, host |-> host, file |-> connection.remote_file,
                port |-> Port(69)]

\* Mutant: the identity is not among the fields that are saved.
SavedFieldsNoIdentity(connection) == [connection EXCEPT !.identity = ""]

\* target_from_config: every field, whatever the protocol uses.
SavedFields(connection) == connection

\* --save-target.
Save ==
    LET name == config.save_name
    IN  /\ phase = "save"
        /\ IF name = ""
           THEN phase' = "main" /\ UNCHANGED <<files, code, reached>>
           ELSE IF config.connection.protocol = "local" \/ LoadFails
           THEN Exit(1) /\ UNCHANGED <<files, reached>>
           ELSE SaveTargets(With(Loaded, name, SavedFields(config.connection)),
                            /\ phase' = "main"
                            /\ reached' = With(reached, <<Path, name>>, Peer(config.connection))
                            /\ UNCHANGED code,
                            Exit(1) /\ UNCHANGED reached)
        /\ UNCHANGED <<config, explicit, running, list, taken, runs, outcome>>

-----------------------------------------------------------------------------
(* main and the remote modes.                                              *)

\* A log file that cannot be opened.
LogFails ==
    /\ phase = "main"
    /\ "log_file" \in DOMAIN config.settings
    /\ Exit(1)
    /\ UNCHANGED <<config, explicit, files, Kept>>

\* The mode.  A capture is of the local machine only.
Dispatch ==
    LET protocol == config.connection.protocol
    IN  /\ phase = "main"
        /\ IF config.capture /\ protocol # "local" THEN Exit(1)
           ELSE /\ phase' = CASE protocol \in Monitors -> "remote"
                               [] protocol \in Deploys  -> "deploy"
                               [] OTHER -> IF config.capture THEN "capture" ELSE "local"
                /\ UNCHANGED code
        /\ UNCHANGED <<config, explicit, files, Kept>>

\* run_local_monitor and run_capture_mode, as a whole.
OtherMode ==
    /\ phase \in {"local", "capture"}
    /\ \E status \in IF phase = "local" THEN {0, 1, 2} ELSE {0, 1} : Exit(status)
    /\ outcome' = "local"
    /\ UNCHANGED <<config, explicit, files, running, list, taken, runs, reached>>

\* run_remote_monitor up to its loop.
RemoteStart ==
    /\ phase = "remote"
    /\ IF config.connection.host = "" THEN Exit(1)
                                      ELSE phase' = "loop" /\ UNCHANGED code
    /\ UNCHANGED <<config, explicit, files, Kept>>

\* while (running).
LoopTest ==
    /\ phase = "loop"
    /\ IF running THEN phase' = "scan" /\ UNCHANGED code ELSE Exit(0)
    /\ UNCHANGED <<config, explicit, files, Kept>>

\* The scan fails, or its processes are filtered and shown.
RemoteScan ==
    /\ phase = "scan"
    /\ \/ Exit(1) /\ list' = <<>> /\ UNCHANGED outcome
       \/ /\ \E fetched \in SUBSET Processes :
                 list' = SelectSeq(SetToSeq(fetched), LAMBDA p : Matches(config, p))
          /\ outcome' = "shown"
          /\ IF "once" \in config.flags THEN Exit(0)
             ELSE phase' = "sleep" /\ UNCHANGED code
    /\ UNCHANGED <<config, explicit, files, running, taken, runs, reached>>

\* sleep: it ends by itself or by the signal.
Wake ==
    /\ phase = "sleep"
    /\ phase' = "loop"
    /\ UNCHANGED <<config, explicit, files, code, Kept>>

\* run_deploy.
DeployStart ==
    /\ phase = "deploy"
    /\ IF config.connection.host = "" \/ config.local_file = ""
       THEN Exit(1) ELSE phase' = "upload" /\ UNCHANGED code
    /\ UNCHANGED <<config, explicit, files, Kept>>

\* Mutant: the result of the upload is not looked at.
UploadUnchecked ==
    /\ phase = "upload"
    /\ Exit(0)
    /\ outcome' \in {"deployed", outcome}
    /\ UNCHANGED <<config, explicit, files, running, list, taken, runs, reached>>

Upload ==
    /\ phase = "upload"
    /\ \/ Exit(0) /\ outcome' = "deployed"
       \/ Exit(1) /\ UNCHANGED outcome
    /\ UNCHANGED <<config, explicit, files, running, list, taken, runs, reached>>

Modes   == {"remote", "loop", "scan", "sleep", "deploy", "upload", "local", "capture"}
Parsing == {"options", "command", "target", "patterns", "user", "save", "main"}

\* SIGINT or SIGTERM after install_signals: signal_handler.
Signal ==
    /\ phase \in Modes
    /\ running
    /\ running' = FALSE
    /\ UNCHANGED <<phase, config, explicit, files, list, code, taken, runs, outcome, reached>>

\* And before: the program dies.  What that does to a file being written is
\* among the ways SaveTargets fails.
Killed ==
    /\ phase \in Parsing
    /\ Exit(130)
    /\ UNCHANGED <<config, explicit, files, Kept>>

\* The user starts the program again.
NextRun ==
    /\ phase = "exited"
    /\ runs < MaxRuns
    /\ runs' = runs + 1
    /\ phase' = "options"
    /\ config' = DefaultConfig
    /\ explicit' = [f \in Fields |-> NotGiven]
    /\ running' = TRUE
    /\ list' = <<>>
    /\ code' = 0
    /\ taken' = 0
    /\ outcome' = "nothing"
    /\ UNCHANGED <<files, reached>>

Step ==
    \/ TakeArgument \/ EndOfOptions \/ TargetCommand \/ UseTarget \/ Patterns
    \/ User \/ Save \/ LogFails \/ Dispatch \/ OtherMode
    \/ RemoteStart \/ LoopTest \/ RemoteScan \/ Wake \/ DeployStart \/ Upload

Next == Step \/ Signal \/ Killed \/ NextRun

Spec == Init /\ [][Next]_vars

-----------------------------------------------------------------------------

TypeOK ==
    /\ phase \in Parsing \cup Modes \cup {"exited"}
    /\ DOMAIN config = DOMAIN DefaultConfig
    /\ DOMAIN config.connection = Fields
    /\ config.set \subseteq Fields
    /\ config.flags \subseteq Flags
    /\ \A opt \in {"pids", "ppids"} : \A i \in DOMAIN config[opt] :
          config[opt][i] \in -(PidModulus \div 2) .. PidModulus \div 2 - 1
    /\ DOMAIN config.states \subseteq 1 .. MaxStates
    /\ Len(config.excludes) <= MaxPatterns
    /\ \A path \in Paths : \A n \in DOMAIN files[path].table :
          DOMAIN files[path].table[n] = Fields
    /\ running \in BOOLEAN
    /\ code \in {0, 1, 2, 130}

Resolved == phase \in {"patterns", "user", "save", "main"} \cup Modes

\* "an explicit --host/--user/etc. always wins over what's saved, regardless of
\* where --target appears among the other flags" (monitoring_services_core.c:1152):
\* once it is resolved a field has the value given last, else the target's,
\* else the default, whichever order the options came in and after
\* --save-target rewrote the entry it came from.
ConnectionIsResolved ==
    Resolved =>
        \A f \in Fields :
            config.connection[f] =
                IF explicit[f] # NotGiven THEN explicit[f]
                ELSE IF config.target_name # "" THEN Loaded[config.target_name][f]
                ELSE DefaultConfig.connection[f]

\* A run that names a target and gives nothing else connects to the peer of the
\* run that saved it: nothing is lost between --save-target and --target.
ReusedTargetConnectsAlike ==
    phase \in {"loop", "scan", "sleep", "upload"}
    /\ (\A f \in Fields : explicit[f] = NotGiven)
    /\ <<Path, config.target_name>> \in DOMAIN reached =>
        Peer(config.connection) = reached[<<Path, config.target_name>>]

\* --user is one thing or the other, also when the protocol that decides it comes
\* from the target: a local run filters by it, as a number by that uid alone and
\* else by the account's uid and name, and a user that is neither ends the run; a
\* run over SSH, Telnet or FTP logs in as that user, and filters by nobody.  TFTP
\* has no login: there --user is dropped.
UserMeansOneThing ==
    phase \in {"save", "main"} \cup Modes =>
        LET user     == explicit["user"]
            protocol == config.connection.protocol
        IN  /\ user = NotGiven \/ protocol # "local" => config.filter = NoUser
            /\ user # NotGiven /\ protocol = "local" =>
                  \/ /\ user \in DOMAIN Numbers
                     /\ config.filter = [uid |-> Numbers[user] % PidModulus, name |-> NoUser.name]
                  \/ /\ user \in DOMAIN Accounts \ DOMAIN Numbers
                     /\ config.filter = [uid |-> Accounts[user], name |-> user]
            /\ user # NotGiven /\ protocol \in Monitors \cup {"ftp"} =>
                  Peer(config.connection).user = user

\* A script can go by the exit status: 0 says that what was asked for was done,
\* or that the user stopped a monitor, never a deploy, whenever the signal comes; a
\* deploy or a command that was carried out never exits with another one.
ExitTellsOutcome ==
    /\ TypeOK
    /\ phase = "exited" =>
          /\ code = 0 =>
                \/ outcome # "nothing"
                \/ ~running /\ config.connection.protocol \in Monitors
          /\ outcome \in {"deployed", "deleted", "listed", "help"} => code = 0

Entry(path, name) ==
    IF name \in DOMAIN files[path].table THEN files[path].table[name] ELSE NotGiven

Chosen == IF config.targets_file = "" THEN "default" ELSE config.targets_file

\* A step of a run leaves every file but the one --targets-file names as it is,
\* wherever on the line it was, and in that one every entry but the one it saves
\* or deletes; unless the save fails midway.
OnlyNamedEntryChanges ==
    [][\A path \in Paths :
          files'[path] # files[path] =>
              /\ path = Chosen
              /\ files'[path] # Broken =>
                    \A name \in Names \ {config.save_name, config.delete_name} :
                        Entry(path, name)' = Entry(path, name)]_vars
=============================================================================
