-------------------------- MODULE CommandLineProofs --------------------------
(***************************************************************************)
(* Whatever options there are on a line and in which order, whatever the   *)
(* files hold, and in any number of runs: the connection, the user filter, *)
(* the files of saved targets and the exit status are what the             *)
(* documentation says.                                                     *)
(*                                                                         *)
(* The first two need what config_parse relies on without saying: `set`    *)
(* names just the fields that were given, until --target is reached a      *)
(* field is what was given or the default, and no filter is set before the *)
(* protocol is known.  And the entry of the target is still there when the *)
(* run saves its connection, perhaps over it.  That a saved target is      *)
(* connected to as by the run that saved it needs, besides, that the file  *)
(* still says so between any two statements of any later run.              *)
(***************************************************************************)
EXTENDS CommandLine, TLAPS

Before == {"options", "command", "target"}

\* The parts of the configuration and of the files the proof speaks of.
ShapeInv ==
    /\ {"connection", "set", "user_arg", "filter", "target_name", "targets_file"}
          \subseteq DOMAIN config
    /\ DOMAIN config.connection = Fields
    /\ DOMAIN explicit = Fields
    /\ DOMAIN files = Paths
    /\ Path \in Paths

\* protocol_set, host_set and the others, and user_arg, follow the options.
GivenInv ==
    /\ config.set = {f \in Fields : explicit[f] # NotGiven}
    /\ config.user_arg = explicit["user"]

\* Before --target a field is what was given, or the default.
UnresolvedInv ==
    phase \in Before =>
        \A f \in Fields :
            config.connection[f] = IF explicit[f] # NotGiven THEN explicit[f]
                                   ELSE DefaultConfig.connection[f]

\* The target of a run stays in its file until the run saves its own.
TargetInv ==
    phase \in {"patterns", "user", "save"} /\ config.target_name # "" =>
        config.target_name \in DOMAIN Loaded

\* No account is filtered for until all of the line is known.
FilterInv == phase \in Before \cup {"patterns", "user"} => config.filter = NoUser

IInv ==
    /\ ShapeInv
    /\ GivenInv
    /\ UnresolvedInv
    /\ TargetInv
    /\ FilterInv
    /\ ConnectionIsResolved
    /\ UserMeansOneThing

USE DEF Before, Resolved, Modes, Parsing

\* What is known of the defaults.
LEMMA Defaults ==
    /\ {"connection", "set", "user_arg", "filter", "target_name", "targets_file"}
          \subseteq DOMAIN DefaultConfig
    /\ DOMAIN DefaultConfig.connection = Fields
    /\ DefaultConfig.set = {}
    /\ DefaultConfig.user_arg = NotGiven
    /\ DefaultConfig.filter = NoUser
    /\ DefaultConfig.targets_file = ""
  BY DEF DefaultConfig, Fields

\* A run begins.
Fresh ==
    /\ phase = "options"
    /\ config = DefaultConfig
    /\ explicit = [f \in Fields |-> NotGiven]
    /\ DOMAIN files = Paths

LEMMA FreshIInv == Fresh => IInv
  <1> SUFFICES ASSUME Fresh PROVE IInv
    OBVIOUS
  <1>1. ShapeInv
    BY Defaults, CommandLineAssumption DEF Fresh, ShapeInv, Path
  <1>2. GivenInv
    BY Defaults DEF Fresh, GivenInv, Fields
  <1>3. UnresolvedInv
    BY DEF Fresh, UnresolvedInv
  <1>4. FilterInv
    BY Defaults DEF Fresh, FilterInv
  <1>5. TargetInv /\ ConnectionIsResolved /\ UserMeansOneThing
    BY DEF Fresh, TargetInv, ConnectionIsResolved, UserMeansOneThing
  <1> QED
    BY <1>1, <1>2, <1>3, <1>4, <1>5 DEF IInv

\* An exit keeps what is true of every phase.
LEMMA ExitKeeps ==
    ASSUME IInv, phase' = "exited", UNCHANGED <<config, explicit>>, DOMAIN files' = Paths
    PROVE  IInv'
  BY DEF IInv, ShapeInv, GivenInv, UnresolvedInv, TargetInv, FilterInv,
         ConnectionIsResolved, UserMeansOneThing, Path, Loaded

\* So does a step from one resolved phase to a later one.
LEMMA LaterKeeps ==
    ASSUME IInv, UNCHANGED <<config, explicit, files>>,
           phase \in {"save", "main"} \cup Modes, phase' \in {"main"} \cup Modes
    PROVE  IInv'
  BY DEF IInv, ShapeInv, GivenInv, UnresolvedInv, TargetInv, FilterInv,
         ConnectionIsResolved, UserMeansOneThing, Path, Loaded

\* And one that leaves all of it alone.
LEMMA StutterKeeps ==
    ASSUME IInv, UNCHANGED <<phase, config, explicit, files>>
    PROVE  IInv'
  BY DEF IInv, ShapeInv, GivenInv, UnresolvedInv, TargetInv, FilterInv,
         ConnectionIsResolved, UserMeansOneThing, Path, Loaded

-----------------------------------------------------------------------------
(* The options.                                                            *)

\* An option that is no field of a connection leaves what the proof speaks of,
\* but for the name of a target and of a file.
LEMMA OtherOption ==
    ASSUME IInv, NEW a \in Arguments, a.opt \notin Fields,
           a.opt \notin {"help", "version", "unknown"},
           NEW c, c = WithOption(config, a)
    PROVE  /\ {"connection", "set", "user_arg", "filter", "target_name", "targets_file"}
                 \subseteq DOMAIN c
           /\ c.connection = config.connection
           /\ c.set = config.set
           /\ c.user_arg = config.user_arg
           /\ c.filter = config.filter
           /\ c.targets_file \in {config.targets_file} \cup Paths
  <1> USE DEF IInv, ShapeInv
  <1>1. CASE a.opt \in Flags
    <2>1. c = WithFlag(config, a.opt)
      BY <1>1 DEF WithOption, Fields, Flags, Settings, Texts
    <2> QED  BY <2>1 DEF WithFlag
  <1>2. CASE a.opt \in Settings
    <2>1. c = WithSetting(config, a)
      BY <1>2 DEF WithOption, Fields, Flags, Settings, Texts
    <2> QED  BY <2>1 DEF WithSetting
  <1>3. CASE a.opt \in Texts
    <2>1. c = [config EXCEPT ![a.opt] = a.value]
      BY <1>3 DEF WithOption, Fields, Flags, Settings, Texts
    <2>2. a.opt \notin {"connection", "set", "user_arg", "filter"}
      BY <1>3 DEF Texts
    <2> QED  BY <2>1, <2>2, CommandLineAssumption
  <1>4. CASE a.opt \in {"pids", "ppids"}
    <2>1. c = WithPids(config, a.opt, a.value)
      BY <1>4 DEF WithOption, Fields, Flags, Settings, Texts
    <2> QED  BY <1>4, <2>1 DEF WithPids
  <1>5. CASE a.opt = "states"
    <2>1. c = WithStates(config, a.value)
      BY <1>5 DEF WithOption, Fields, Flags, Settings, Texts
    <2> QED  BY <2>1 DEF WithStates
  <1>6. CASE a.opt \in {"exclude", "pattern", "capture"}
    <2>1. \/ c = [config EXCEPT !.excludes = Append(@, a.value)]
          \/ c = [config EXCEPT !.patterns = Append(@, a.value)]
          \/ c = [config EXCEPT !.capture = TRUE]
      BY <1>6 DEF WithOption, Fields, Flags, Settings, Texts
    <2> QED  BY <2>1
  <1> QED
    BY <1>1, <1>2, <1>3, <1>4, <1>5, <1>6, CommandLineAssumption DEF Options

\* Before the target is reached the parts about what follows hold of nothing.
LEMMA OptionsKeep ==
    ASSUME IInv, phase = "options", phase' \in Before,
           ShapeInv', GivenInv', UnresolvedInv', config'.filter = config.filter
    PROVE  IInv'
  BY DEF IInv, TargetInv, FilterInv, ConnectionIsResolved, UserMeansOneThing

LEMMA TakeArgumentStep ==
    ASSUME IInv, TakeArgument
    PROVE  IInv'
  <1>1. PICK a \in Arguments :
          \/ a.opt \in {"help", "version"} /\ Exit(0) /\ UNCHANGED <<config, explicit>>
          \/ Rejected(a) /\ Exit(1) /\ UNCHANGED <<config, explicit>>
          \/ /\ a.opt \notin {"help", "version"} /\ ~Rejected(a)
             /\ config' = WithOption(config, a)
             /\ explicit' = IF a.opt \in Fields THEN [explicit EXCEPT ![a.opt] = a.value]
                                                ELSE explicit
             /\ UNCHANGED phase
    BY DEF TakeArgument
  <1>2. UNCHANGED files /\ phase = "options"
    BY DEF TakeArgument
  <1>3. CASE phase' = "exited" /\ UNCHANGED <<config, explicit>>
    BY <1>2, <1>3, ExitKeeps DEF IInv, ShapeInv
  <1>4. CASE /\ a.opt \notin {"help", "version"} /\ ~Rejected(a)
             /\ config' = WithOption(config, a)
             /\ explicit' = IF a.opt \in Fields THEN [explicit EXCEPT ![a.opt] = a.value]
                                                ELSE explicit
             /\ UNCHANGED phase
    <2>1. CASE a.opt \in Fields
      <3>1. config' = WithField(config, a) /\ explicit' = [explicit EXCEPT ![a.opt] = a.value]
        BY <1>4, <2>1 DEF WithOption, Fields, Flags, Settings, Texts
      <3>2. a.value # NotGiven
        BY <2>1, CommandLineAssumption
      <3>3. /\ config'.connection = [config.connection EXCEPT ![a.opt] = a.value]
            /\ config'.set = config.set \cup {a.opt}
            /\ config'.user_arg = IF a.opt = "user" THEN a.value ELSE config.user_arg
            /\ config'.filter = config.filter
            /\ config'.targets_file = config.targets_file
            /\ DOMAIN config' = DOMAIN config
        BY <3>1 DEF WithField, IInv, ShapeInv
      <3>4. ShapeInv'
        BY <1>2, <3>1, <3>3 DEF IInv, ShapeInv, Path
      <3>5. GivenInv'
        BY <2>1, <3>1, <3>2, <3>3 DEF IInv, ShapeInv, GivenInv, Fields
      <3>6. UnresolvedInv'
        BY <1>2, <2>1, <3>1, <3>2, <3>3 DEF IInv, ShapeInv, UnresolvedInv
      <3> QED
        BY <1>2, <1>4, <3>3, <3>4, <3>5, <3>6, OptionsKeep
    <2>2. CASE a.opt \notin Fields
      <3>1. a.opt # "unknown"
        BY <1>4 DEF Rejected
      <3>2. /\ {"connection", "set", "user_arg", "filter", "target_name", "targets_file"}
                  \subseteq DOMAIN config'
            /\ config'.connection = config.connection
            /\ config'.set = config.set
            /\ config'.user_arg = config.user_arg
            /\ config'.filter = config.filter
            /\ config'.targets_file \in {config.targets_file} \cup Paths
        BY <1>4, <2>2, <3>1, OtherOption
      <3>3. UNCHANGED explicit
        BY <1>4, <2>2
      <3>4. ShapeInv'
        BY <1>2, <3>2, <3>3, CommandLineAssumption DEF IInv, ShapeInv, Path
      <3>5. GivenInv' /\ UnresolvedInv'
        BY <1>2, <1>4, <3>2, <3>3 DEF IInv, GivenInv, UnresolvedInv
      <3> QED
        BY <1>2, <1>4, <3>2, <3>4, <3>5, OptionsKeep
    <2> QED  BY <2>1, <2>2
  <1> QED
    BY <1>1, <1>3, <1>4 DEF Exit

LEMMA EndOfOptionsStep ==
    ASSUME IInv, EndOfOptions
    PROVE  IInv'
  BY OptionsKeep DEF EndOfOptions, IInv, ShapeInv, GivenInv, UnresolvedInv, Path

-----------------------------------------------------------------------------
(* From the options to main.                                               *)

LEMMA TargetCommandStep ==
    ASSUME IInv, TargetCommand
    PROVE  IInv'
  <1>1. UNCHANGED <<config, explicit>> /\ phase' = "exited"
    BY DEF TargetCommand, SaveTargets, Exit
  <1>2. DOMAIN files' = Paths
    BY DEF TargetCommand, SaveTargets, IInv, ShapeInv
  <1> QED
    BY <1>1, <1>2, ExitKeeps

\* --target resolves the connection, from an entry that is there.
LEMMA UseTargetStep ==
    ASSUME IInv, UseTarget
    PROVE  IInv'
  <1> USE DEF IInv, ShapeInv
  <1>1. phase = "target" /\ UNCHANGED <<explicit, files>>
    BY DEF UseTarget
  <1>2. CASE phase' = "exited" /\ UNCHANGED config
    BY <1>1, <1>2, ExitKeeps
  <1>3. CASE config.target_name = "" /\ phase' = "patterns" /\ UNCHANGED config
    BY <1>1, <1>3 DEF GivenInv, UnresolvedInv, TargetInv, FilterInv,
       ConnectionIsResolved, UserMeansOneThing, Path, Loaded
  <1>4. CASE /\ config.target_name # "" /\ config.target_name \in DOMAIN Loaded
             /\ config' = [config EXCEPT !.connection =
                              Merged(config, Loaded[config.target_name])]
             /\ phase' = "patterns"
    <2>2. /\ config'.connection = Merged(config, Loaded[config.target_name])
          /\ config'.set = config.set
          /\ config'.user_arg = config.user_arg
          /\ config'.filter = config.filter
          /\ config'.target_name = config.target_name
          /\ config'.targets_file = config.targets_file
          /\ DOMAIN config' = DOMAIN config
      BY <1>4
    <2>3. Path' = Path /\ Loaded' = Loaded
      BY <1>1, <2>2 DEF Path, Loaded
    <2>4. ShapeInv' /\ GivenInv' /\ FilterInv'
      BY <1>1, <2>2, <2>3 DEF Merged, GivenInv, FilterInv
    <2>5. TargetInv'
      BY <1>1, <1>4, <2>2, <2>3 DEF TargetInv
    <2>6. ConnectionIsResolved'
      <3> SUFFICES ASSUME NEW f \in Fields
                   PROVE  config'.connection[f] =
                            IF explicit[f] # NotGiven THEN explicit[f]
                            ELSE Loaded[config.target_name][f]
        BY <1>1, <1>4, <2>2, <2>3 DEF ConnectionIsResolved
      <3>1. config'.connection[f] = IF f \in config.set THEN config.connection[f]
                                    ELSE Loaded[config.target_name][f]
        BY <2>2 DEF Merged
      <3>2. explicit[f] # NotGiven => config.connection[f] = explicit[f]
        BY <1>1 DEF UnresolvedInv
      <3> QED
        BY <3>1, <3>2 DEF GivenInv
    <2>7. UnresolvedInv' /\ UserMeansOneThing'
      BY <1>4 DEF UnresolvedInv, UserMeansOneThing
    <2> QED
      BY <2>4, <2>5, <2>6, <2>7
  <1> QED
    BY <1>2, <1>3, <1>4 DEF UseTarget, Exit

LEMMA PatternsStep ==
    ASSUME IInv, Patterns
    PROVE  IInv'
  <1>1. CASE phase' = "exited"
    BY <1>1, ExitKeeps DEF Patterns, IInv, ShapeInv
  <1>2. CASE phase' = "user"
    BY <1>2 DEF Patterns, IInv, ShapeInv, GivenInv, UnresolvedInv, TargetInv,
       FilterInv, ConnectionIsResolved, UserMeansOneThing, Path, Loaded
  <1> QED
    BY <1>1, <1>2 DEF Patterns, Exit

\* What a run over SSH, Telnet or FTP logs in as.
LEMMA PeerUser ==
    ASSUME NEW connection, connection.protocol \in Monitors \cup {"ftp"}
    PROVE  Peer(connection).user = connection.user
  <1>1. CASE connection.protocol \in Monitors
    BY <1>1 DEF Peer, Monitors
  <1>2. CASE connection.protocol = "ftp"
    BY <1>2 DEF Peer, Monitors
  <1> QED
    BY <1>1, <1>2

LEMMA LoginIsGiven ==
    ASSUME ConnectionIsResolved, Resolved, explicit["user"] # NotGiven,
           config.connection.protocol \in Monitors \cup {"ftp"}
    PROVE  Peer(config.connection).user = explicit["user"]
  <1>1. config.connection["user"] = explicit["user"]
    BY DEF ConnectionIsResolved, Fields
  <1> QED
    BY <1>1, PeerUser

\* The protocol is known; now --user becomes a filter or does not.
LEMMA UserStep ==
    ASSUME IInv, User
    PROVE  IInv'
  <1> USE DEF IInv, ShapeInv
  <1>1. phase = "user" /\ UNCHANGED <<explicit, files>>
    BY DEF User
  <1>2. CASE phase' = "exited" /\ UNCHANGED config
    BY <1>1, <1>2, ExitKeeps
  <1>3. CASE ~FiltersByUser(config) /\ phase' = "save" /\ UNCHANGED config
    <2>1. ShapeInv' /\ GivenInv' /\ UnresolvedInv' /\ TargetInv' /\ FilterInv'
          /\ ConnectionIsResolved'
      BY <1>1, <1>3 DEF GivenInv, UnresolvedInv, TargetInv, FilterInv, ConnectionIsResolved,
         Path, Loaded
    <2>2. config.filter = NoUser /\ config.user_arg = explicit["user"]
      BY <1>1 DEF FilterInv, GivenInv
    <2>3. explicit["user"] = NotGiven \/ config.connection.protocol # "local"
      BY <1>3, <2>2 DEF FiltersByUser
    <2>4. \/ explicit["user"] = NotGiven
          \/ config.connection.protocol \notin Monitors \cup {"ftp"}
          \/ Peer(config.connection).user = explicit["user"]
      BY <1>1, LoginIsGiven
    <2>5. UserMeansOneThing'
      BY <1>1, <1>3, <2>2, <2>3, <2>4 DEF UserMeansOneThing
    <2> QED
      BY <2>1, <2>5
  <1>4. CASE /\ FiltersByUser(config) /\ phase' = "save" /\ KnownUser(config.user_arg)
             /\ config' = [config EXCEPT !.filter = UserFilter(config.user_arg)]
    <2>1. /\ config'.connection = config.connection
          /\ config'.set = config.set
          /\ config'.user_arg = config.user_arg
          /\ config'.filter = UserFilter(config.user_arg)
          /\ config'.target_name = config.target_name
          /\ config'.targets_file = config.targets_file
          /\ DOMAIN config' = DOMAIN config
      BY <1>4
    <2>2. Path' = Path /\ Loaded' = Loaded
      BY <1>1, <2>1 DEF Path, Loaded
    <2>3. ShapeInv' /\ GivenInv' /\ TargetInv' /\ ConnectionIsResolved'
      BY <1>1, <2>1, <2>2 DEF GivenInv, TargetInv, ConnectionIsResolved
    <2>4. UnresolvedInv' /\ FilterInv'
      BY <1>4 DEF UnresolvedInv, FilterInv
    <2>5. /\ config.connection.protocol = "local"
          /\ config.user_arg = explicit["user"]
          /\ explicit["user"] # NotGiven
      BY <1>1, <1>4 DEF FiltersByUser, GivenInv
    <2>6. \/ /\ explicit["user"] \in DOMAIN Numbers
             /\ config'.filter = [uid |-> Numbers[explicit["user"]] % PidModulus,
                                  name |-> NoUser.name]
          \/ /\ explicit["user"] \in DOMAIN Accounts \ DOMAIN Numbers
             /\ config'.filter = [uid |-> Accounts[explicit["user"]],
                                  name |-> explicit["user"]]
      BY <1>4, <2>1, <2>5 DEF KnownUser, UserFilter, UidOf
    <2>7. "local" \notin Monitors \cup {"ftp"}
      BY DEF Monitors
    <2>8. UserMeansOneThing'
      BY <1>1, <2>1, <2>5, <2>6, <2>7 DEF UserMeansOneThing
    <2> QED
      BY <2>3, <2>4, <2>8
  <1> QED
    BY <1>2, <1>3, <1>4 DEF User, Exit

\* --save-target may write over the entry the connection came from: then it
\* holds what the run has resolved.
LEMMA SaveStep ==
    ASSUME IInv, Save
    PROVE  IInv'
  <1> USE DEF IInv, ShapeInv
  <1>1. phase = "save" /\ UNCHANGED <<config, explicit>>
    BY DEF Save
  <1>2. DOMAIN files' = Paths
    BY DEF Save, SaveTargets
  <1>3. CASE phase' = "exited"
    BY <1>1, <1>2, <1>3, ExitKeeps
  <1>4. CASE phase' = "main" /\ UNCHANGED files
    BY <1>1, <1>4, LaterKeeps
  <1>5. CASE /\ phase' = "main"
             /\ files' = [files EXCEPT ![Path] =
                             File(With(Loaded, config.save_name,
                                       SavedFields(config.connection)))]
    <2>1. Path' = Path
      BY <1>1 DEF Path
    <2>2. Loaded' = With(Loaded, config.save_name, config.connection)
      BY <1>5, <2>1 DEF SavedFields, Loaded, File
    <2>3. ASSUME config.target_name # ""
          PROVE  Loaded'[config.target_name] \in
                     {config.connection, Loaded[config.target_name]}
      <3>1. config.target_name \in DOMAIN Loaded
        BY <1>1, <2>3 DEF TargetInv
      <3> QED
        BY <2>2, <3>1 DEF With
    <2>4. ShapeInv' /\ GivenInv' /\ UnresolvedInv' /\ FilterInv' /\ UserMeansOneThing'
      BY <1>1, <1>2, <1>5, <2>1
      DEF GivenInv, UnresolvedInv, FilterInv, UserMeansOneThing
    <2>5. TargetInv' /\ ConnectionIsResolved'
      BY <1>1, <1>5, <2>1, <2>3 DEF TargetInv, ConnectionIsResolved
    <2> QED
      BY <2>4, <2>5
  <1> QED
    BY <1>3, <1>4, <1>5 DEF Save, SaveTargets, Exit

-----------------------------------------------------------------------------
(* main and the modes leave the configuration alone.                       *)

LEMMA ModeStep ==
    ASSUME IInv,
           \/ LogFails \/ Dispatch \/ OtherMode \/ RemoteStart \/ LoopTest
           \/ RemoteScan \/ Wake \/ DeployStart \/ Upload
    PROVE  IInv'
  <1>1. UNCHANGED <<config, explicit, files>> /\ phase \in {"main"} \cup Modes
    BY DEF LogFails, Dispatch, OtherMode, RemoteStart, LoopTest, RemoteScan, Wake,
           DeployStart, Upload
  <1>2. phase' \in {"exited"} \cup Modes
    BY DEF LogFails, Dispatch, OtherMode, RemoteStart, LoopTest, RemoteScan, Wake,
           DeployStart, Upload, Exit, Monitors, Deploys
  <1> QED
    BY <1>1, <1>2, ExitKeeps, LaterKeeps DEF IInv, ShapeInv

LEMMA NextIInv == IInv /\ [Next]_vars => IInv'
  <1> SUFFICES ASSUME IInv, [Next]_vars PROVE IInv'
    OBVIOUS
  <1>1. CASE Signal
    BY <1>1, StutterKeeps DEF Signal
  <1>2. CASE Killed
    BY <1>2, ExitKeeps DEF Killed, Exit, IInv, ShapeInv
  <1>3. CASE NextRun
    <2>1. Fresh'
      BY <1>3 DEF NextRun, Fresh, IInv, ShapeInv
    <2> QED  BY <2>1, FreshIInv, PTL
  <1>4. CASE UNCHANGED vars
    BY <1>4, StutterKeeps DEF vars
  <1> QED
    BY <1>1, <1>2, <1>3, <1>4, TakeArgumentStep, EndOfOptionsStep, TargetCommandStep,
       UseTargetStep, PatternsStep, UserStep, SaveStep, ModeStep DEF Next, Step

LEMMA Invariance == Spec => []IInv
  <1>1. Init => Fresh
    BY CommandLineAssumption DEF Init, Fresh
  <1> QED
    BY <1>1, FreshIInv, NextIInv, PTL DEF Spec

\* "an explicit --host/--user/etc. always wins over what's saved, regardless of
\* where --target appears" (monitoring_services_core.c:1152), for every set of
\* options and targets, in every order.
THEOREM ExplicitOptionsWin == Spec => []ConnectionIsResolved
  BY Invariance, PTL DEF IInv

\* --user is the uid or account a local run filters by and the login of a run over
\* SSH, Telnet or FTP, whatever decides between them (config_parse validates it
\* after --target), for any accounts and any numbers.
THEOREM UserIsFilterOrLogin == Spec => []UserMeansOneThing
  BY Invariance, PTL DEF IInv

-----------------------------------------------------------------------------
(* The files of saved targets.                                             *)

\* What a step makes of the files and of the targets that were saved.
LEMMA FilesWritten ==
    ASSUME IInv, [Next]_vars
    PROVE  \/ UNCHANGED <<files, reached>>
           \/ files' = [files EXCEPT ![Path] = Broken] /\ UNCHANGED reached
           \/ /\ files' = [files EXCEPT ![Path] = File(Without(Loaded, config.delete_name))]
              /\ UNCHANGED reached
           \/ /\ config.save_name # ""
              /\ files' = [files EXCEPT ![Path] =
                              File(With(Loaded, config.save_name, config.connection))]
              /\ reached' = With(reached, <<Path, config.save_name>>, Peer(config.connection))
  <1>1. CASE TargetCommand
    BY <1>1, Zenon DEF TargetCommand, SaveTargets
  <1>2. CASE Save
    BY <1>2, Zenon DEF Save, SaveTargets, SavedFields
  <1>3. CASE UNCHANGED <<files, reached>>
    BY <1>3
  <1> QED
    BY <1>1, <1>2, <1>3
    DEF Next, Step, TakeArgument, EndOfOptions, UseTarget, Patterns, User, LogFails, Dispatch,
        OtherMode, RemoteStart, LoopTest, RemoteScan, Wake, DeployStart, Upload, Signal, Killed,
        NextRun, Kept, vars

\* What a file that is written then holds.
LEMMA FileWritten ==
    ASSUME IInv, NEW file, files' = [files EXCEPT ![Path] = file]
    PROVE  /\ files'[Path] = file
           /\ \A path \in Paths \ {Path} : files'[path] = files[path]
  BY DEF IInv, ShapeInv

LEMMA WithoutEntry ==
    ASSUME NEW table, NEW name
    PROVE  /\ DOMAIN Without(table, name) = DOMAIN table \ {name}
           /\ \A n \in DOMAIN table : n # name => Without(table, name)[n] = table[n]
  BY DEF Without

\* The file in use has the table t now, all others are as they were.
Holds(t) == /\ Path \in Paths /\ files'[Path] = File(t) /\ files'[Path].table = t
            /\ \A path \in Paths \ {Path} : files'[path] = files[path]

LEMMA TableWritten ==
    ASSUME IInv, NEW t, files' = [files EXCEPT ![Path] = File(t)]
    PROVE  Holds(t)
  <1>1. files'[Path] = File(t) /\ \A path \in Paths \ {Path} : files'[path] = files[path]
    BY FileWritten
  <1>2. File(t).table = t
    BY DEF File
  <1> QED
    BY <1>1, <1>2 DEF Holds, IInv, ShapeInv

LEMMA FilesStep ==
    ASSUME IInv, [Next]_vars
    PROVE  \/ UNCHANGED <<files, reached>>
           \/ /\ Path \in Paths /\ files'[Path] = Broken /\ DOMAIN files'[Path].table = {}
              /\ \A path \in Paths \ {Path} : files'[path] = files[path]
              /\ UNCHANGED reached
           \/ \E t : /\ Holds(t) /\ UNCHANGED reached
                     /\ DOMAIN t = DOMAIN Loaded \ {config.delete_name}
                     /\ \A n \in DOMAIN t : t[n] = Loaded[n]
           \/ \E t : /\ Holds(t) /\ config.save_name # ""
                     /\ DOMAIN t = DOMAIN Loaded \cup {config.save_name}
                     /\ t[config.save_name] = config.connection
                     /\ \A n \in DOMAIN Loaded : n # config.save_name => t[n] = Loaded[n]
                     /\ reached' = With(reached, <<Path, config.save_name>>,
                                        Peer(config.connection))
  <1>1. CASE UNCHANGED <<files, reached>>
    BY <1>1
  <1>2. CASE files' = [files EXCEPT ![Path] = Broken] /\ UNCHANGED reached
    <2>1. Broken.table = <<>> /\ DOMAIN <<>> = {}
      BY DEF Broken
    <2>2. files'[Path] = Broken /\ \A path \in Paths \ {Path} : files'[path] = files[path]
      BY <1>2, FileWritten
    <2> QED
      BY <1>2, <2>1, <2>2 DEF IInv, ShapeInv
  <1>3. CASE /\ files' = [files EXCEPT ![Path] = File(Without(Loaded, config.delete_name))]
             /\ UNCHANGED reached
    <2>1. PICK t : t = Without(Loaded, config.delete_name)
      OBVIOUS
    <2>2. Holds(t)
      BY <1>3, <2>1, TableWritten
    <2>3. /\ DOMAIN t = DOMAIN Loaded \ {config.delete_name}
          /\ \A n \in DOMAIN t : t[n] = Loaded[n]
      BY <2>1, WithoutEntry
    <2> QED
      BY <1>3, <2>2, <2>3
  <1>4. CASE /\ config.save_name # ""
             /\ files' = [files EXCEPT ![Path] =
                             File(With(Loaded, config.save_name, config.connection))]
             /\ reached' = With(reached, <<Path, config.save_name>>, Peer(config.connection))
    <2>1. PICK t, table, name, entry :
             /\ table = Loaded /\ name = config.save_name /\ entry = config.connection
             /\ t = With(table, name, entry)
      OBVIOUS
    <2>2. Holds(t)
      BY <1>4, <2>1, TableWritten
    <2>3. /\ DOMAIN t = DOMAIN Loaded \cup {config.save_name}
          /\ t[config.save_name] = config.connection
          /\ \A n \in DOMAIN Loaded : n # config.save_name => t[n] = Loaded[n]
      BY <2>1 DEF With
    <2> QED
      BY <1>4, <2>2, <2>3
  <1> QED
    BY <1>1, <1>2, <1>3, <1>4, FilesWritten

\* A run touches one entry of one file, unless its save fails midway: nothing
\* a user saved is lost to a run about something else, wherever on the line
\* --targets-file was.
THEOREM RunsTouchOneEntry == Spec => OnlyNamedEntryChanges
  <1> DEFINE Kind == \A path \in Paths :
                 files'[path] # files[path] =>
                     /\ path = Chosen
                     /\ files'[path] # Broken =>
                           \A name \in Names \ {config.save_name, config.delete_name} :
                               Entry(path, name)' = Entry(path, name)
  <1>1. ASSUME IInv, [Next]_vars, NEW path \in Paths, files'[path] # files[path]
        PROVE  /\ path = Chosen
               /\ files'[path] # Broken =>
                     \A name \in Names \ {config.save_name, config.delete_name} :
                         Entry(path, name)' = Entry(path, name)
    <2>1. path = Path /\ Path = Chosen
      <3>1. path = Path
        BY <1>1, FilesStep DEF Holds
      <3> QED
        BY <3>1 DEF Path, Chosen
    <2>2. ASSUME files'[path] # Broken,
                 NEW name \in Names \ {config.save_name, config.delete_name}
          PROVE  Entry(path, name)' = Entry(path, name)
      <3>1. \/ UNCHANGED files
            \/ \E t : /\ files'[path].table = t
                      /\ name \in DOMAIN t <=> name \in DOMAIN Loaded
                      /\ name \in DOMAIN t => t[name] = Loaded[name]
        BY <1>1, <2>1, <2>2, FilesStep DEF Holds
      <3>2. Loaded = files[path].table
        BY <2>1 DEF Loaded
      <3> QED
        BY <1>1, <3>1, <3>2 DEF Entry
    <2> QED
      BY <2>1, <2>2
  <1>2. IInv /\ [Next]_vars => [Kind]_vars
    BY <1>1
  <1> QED
    BY <1>2, Invariance, PTL DEF Spec, OnlyNamedEntryChanges

-----------------------------------------------------------------------------
(* From --save-target to --target.                                         *)

\* An entry that a run saved and that is still there connects to what the run
\* that saved it last did.
ReachedInv ==
    \A k \in DOMAIN reached :
        /\ k = <<k[1], k[2]>> /\ k[1] \in Paths /\ k[2] # ""
        /\ k[2] \in DOMAIN files[k[1]].table =>
              reached[k] = Peer(files[k[1]].table[k[2]])

NothingGiven == \A f \in Fields : explicit[f] = NotGiven
Target       == <<Path, config.target_name>>

\* From the moment a target is used on, its run has that peer; a save over the
\* entry the connection came from changes nothing about it.
ReusedInv ==
    Resolved /\ NothingGiven /\ Target \in DOMAIN reached =>
        Peer(config.connection) = reached[Target]

\* Nothing of the connection but the fields of a target counts.
LEMMA PeerOfSame ==
    ASSUME NEW c, NEW d, \A f \in Fields : c[f] = d[f]
    PROVE  Peer(c) = Peer(d)
  <1>1. /\ c.protocol = d.protocol /\ c.host = d.host /\ c.user = d.user
        /\ c.password = d.password /\ c.port = d.port /\ c.identity = d.identity
        /\ c.remote_bin = d.remote_bin /\ c.remote_file = d.remote_file
    BY DEF Fields
  <1> QED
    BY <1>1, Zenon DEF Peer

LEMMA ReachedStep ==
    ASSUME IInv, ReachedInv, [Next]_vars
    PROVE  ReachedInv'
  <1>1. CASE UNCHANGED <<files, reached>>
    BY <1>1 DEF ReachedInv
  <1>2. CASE /\ DOMAIN files'[Path].table = {} /\ UNCHANGED reached
             /\ \A path \in Paths \ {Path} : files'[path] = files[path]
    BY <1>2 DEF ReachedInv
  <1>3. ASSUME NEW t, Holds(t), UNCHANGED reached,
               DOMAIN t = DOMAIN Loaded \ {config.delete_name},
               \A n \in DOMAIN t : t[n] = Loaded[n]
        PROVE  ReachedInv'
    <2>1. ASSUME NEW k \in DOMAIN reached, k[2] \in DOMAIN files'[k[1]].table
          PROVE  reached[k] = Peer(files'[k[1]].table[k[2]])
      <3>1. CASE k[1] = Path
        <4>1. /\ files'[k[1]].table = t /\ k[2] \in DOMAIN Loaded
              /\ Loaded = files[k[1]].table /\ t[k[2]] = Loaded[k[2]]
          BY <1>3, <2>1, <3>1 DEF Holds, Loaded
        <4> QED
          BY <4>1 DEF ReachedInv
      <3>2. CASE k[1] # Path
        <4>1. files'[k[1]] = files[k[1]]
          BY <1>3, <3>2 DEF ReachedInv, Holds
        <4> QED
          BY <2>1, <4>1 DEF ReachedInv
      <3> QED
        BY <3>1, <3>2
    <2> QED
      BY <1>3, <2>1 DEF ReachedInv
  <1>4. ASSUME NEW t, Holds(t), config.save_name # "",
               DOMAIN t = DOMAIN Loaded \cup {config.save_name},
               t[config.save_name] = config.connection,
               \A n \in DOMAIN Loaded : n # config.save_name => t[n] = Loaded[n],
               reached' = With(reached, <<Path, config.save_name>>, Peer(config.connection))
        PROVE  ReachedInv'
    <2>1. PICK key, peer : key = <<Path, config.save_name>> /\ peer = Peer(config.connection)
      OBVIOUS
    <2>2. key[1] = Path /\ key[2] = config.save_name
      BY <2>1
    <2>3. /\ DOMAIN reached' = DOMAIN reached \cup {key} /\ reached'[key] = peer
          /\ \A k \in DOMAIN reached : k # key => reached'[k] = reached[k]
      <3>1. PICK before : before = reached
        OBVIOUS
      <3>2. reached' = With(before, key, peer)
        BY <1>4, <2>1, <3>1
      <3> QED
        BY <3>1, <3>2 DEF With
    <2>4. ASSUME NEW k \in DOMAIN reached'
          PROVE  /\ k = <<k[1], k[2]>> /\ k[1] \in Paths /\ k[2] # ""
                 /\ k[2] \in DOMAIN files'[k[1]].table =>
                       reached'[k] = Peer(files'[k[1]].table[k[2]])
      <3>1. CASE k = key
        BY <1>4, <2>1, <2>2, <2>3, <3>1 DEF Holds
      <3>2. CASE k # key /\ k[1] = Path
        <4>1. k \in DOMAIN reached /\ k[2] # ""
          BY <2>3, <3>2 DEF ReachedInv
        <4>2. CASE k[2] = config.save_name
          BY <2>1, <2>3, <3>2, <4>2 DEF ReachedInv
        <4>3. CASE k[2] # config.save_name
          BY <1>4, <2>3, <3>2, <4>1, <4>3 DEF ReachedInv, Loaded, Holds
        <4> QED
          BY <4>2, <4>3
      <3>3. CASE k # key /\ k[1] # Path
        <4>1. k \in DOMAIN reached /\ reached'[k] = reached[k]
          BY <2>3, <3>3
        <4>2. files'[k[1]] = files[k[1]]
          BY <1>4, <3>3, <4>1 DEF ReachedInv, Holds
        <4> QED
          BY <4>1, <4>2 DEF ReachedInv
      <3> QED
        BY <3>1, <3>2, <3>3
    <2> QED
      BY <2>4 DEF ReachedInv
  <1> QED
    BY <1>1, <1>2, <1>3, <1>4, FilesStep

\* Only --target makes a connection a resolved one.
LEMMA ResolvedStep ==
    ASSUME IInv, [Next]_vars, Resolved'
    PROVE  \/ UseTarget
           \/ /\ Resolved
              /\ UNCHANGED <<config.connection, config.target_name, Path, explicit>>
  <1>1. CASE User
    <2>1. /\ config'.connection = config.connection
          /\ config'.target_name = config.target_name
          /\ config'.targets_file = config.targets_file
      BY <1>1 DEF User, IInv, ShapeInv
    <2> QED
      BY <1>1, <2>1 DEF User, Path
  <1>2. CASE UNCHANGED <<config, explicit>> /\ Resolved
    BY <1>2 DEF Path
  <1>3. CASE TakeArgument \/ EndOfOptions \/ TargetCommand \/ Killed \/ NextRun
    BY <1>3 DEF TakeArgument, EndOfOptions, TargetCommand, SaveTargets, Killed, NextRun, Exit
  <1>4. CASE \/ Patterns \/ Save \/ LogFails \/ Dispatch \/ OtherMode \/ RemoteStart
             \/ LoopTest \/ RemoteScan \/ Wake \/ DeployStart \/ Upload \/ Signal
             \/ UNCHANGED vars
    <2>1. UNCHANGED <<config, explicit>> /\ Resolved
      BY <1>4 DEF Patterns, Save, LogFails, Dispatch, OtherMode, RemoteStart, LoopTest,
         RemoteScan, Wake, DeployStart, Upload, Signal, vars
    <2> QED
      BY <2>1, <1>2
  <1> QED
    BY <1>1, <1>3, <1>4 DEF Next, Step

LEMMA ReusedStep ==
    ASSUME IInv, ReachedInv, ReusedInv, [Next]_vars
    PROVE  ReusedInv'
  <1> SUFFICES ASSUME Resolved', NothingGiven', Target' \in DOMAIN reached'
               PROVE  Peer(config.connection)' = reached'[Target']
    BY DEF ReusedInv
  <1>1. CASE UseTarget
    <2>1. UNCHANGED <<files, reached, explicit>> /\ phase = "target"
      BY <1>1 DEF UseTarget, Kept
    <2>2. CASE config.target_name = "" /\ UNCHANGED config
      <3>1. Target'[2] = ""
        BY <2>2 DEF Target
      <3> QED
        BY <2>1, <3>1 DEF ReachedInv
    <2>3. CASE /\ config.target_name \in DOMAIN Loaded
               /\ config' = [config EXCEPT !.connection =
                                Merged(config, Loaded[config.target_name])]
      <3>1. /\ config'.connection = Merged(config, Loaded[config.target_name])
            /\ config'.target_name = config.target_name
            /\ config'.targets_file = config.targets_file
        BY <2>3 DEF IInv, ShapeInv
      <3>2. \A f \in Fields : config'.connection[f] = Loaded[config.target_name][f]
        <4>1. config.set = {}
          BY <2>1 DEF IInv, GivenInv, NothingGiven
        <4> QED
          BY <3>1, <4>1 DEF Merged
      <3>3. Peer(config'.connection) = Peer(Loaded[config.target_name])
        BY <3>2, PeerOfSame
      <3>4. Target' = Target /\ Target[1] = Path /\ Target[2] = config.target_name
        BY <3>1 DEF Target, Path
      <3>5. reached[Target] = Peer(Loaded[config.target_name])
        BY <2>1, <2>3, <3>4 DEF ReachedInv, Loaded
      <3>6. Peer(config.connection)' = Peer(config'.connection)
        BY DEF Peer
      <3> QED
        BY <2>1, <3>3, <3>4, <3>5, <3>6
    <2>4. phase' # "exited"
      OBVIOUS
    <2> QED
      BY <1>1, <2>2, <2>3, <2>4 DEF UseTarget, Exit
  <1>2. CASE Resolved /\ UNCHANGED <<config.connection, config.target_name, Path, explicit>>
    <2>1. NothingGiven /\ Target' = Target /\ config'.connection = config.connection
      BY <1>2 DEF NothingGiven, Target
    <2>2. Peer(config.connection)' = Peer(config.connection)
      BY <2>1 DEF Peer
    <2>3. CASE reached' = reached
      BY <1>2, <2>1, <2>2, <2>3 DEF ReusedInv
    <2>4. ASSUME NEW key, NEW peer, NEW before, before = reached,
                 peer = Peer(config.connection), reached' = With(before, key, peer)
          PROVE  Peer(config.connection)' = reached'[Target']
      <3>1. CASE Target = key
        BY <2>1, <2>2, <2>4, <3>1 DEF With
      <3>2. CASE Target # key
        BY <1>2, <2>1, <2>2, <2>4, <3>2 DEF ReusedInv, With
      <3> QED
        BY <3>1, <3>2
    <2> QED
      BY <2>3, <2>4, FilesStep
  <1> QED
    BY <1>1, <1>2, ResolvedStep

\* A run that names a target and nothing else connects to the same protocol,
\* host, port, account and binary as the run that saved the target, however
\* many runs, saves and deletions of other targets lie between.
THEOREM SavedTargetConnectsAlike == Spec => []ReusedTargetConnectsAlike
  <1>1. Init => ReachedInv /\ ReusedInv
    BY DEF Init, ReachedInv, ReusedInv
  <1>2. IInv /\ ReachedInv /\ ReusedInv /\ [Next]_vars => ReachedInv' /\ ReusedInv'
    BY ReachedStep, ReusedStep
  <1>3. ReusedInv => ReusedTargetConnectsAlike
    BY DEF ReusedInv, ReusedTargetConnectsAlike, NothingGiven, Target
  <1> QED
    BY <1>1, <1>2, <1>3, Invariance, PTL DEF Spec

-----------------------------------------------------------------------------
(* The exit status.                                                        *)

\* While the run goes on nothing that only an exit tells of is done, and its loop is
\* a monitor's.
StatusInv ==
    /\ running \in BOOLEAN
    /\ phase # "exited" => outcome \in {"nothing", "shown"}
    /\ phase \in {"remote", "loop", "scan", "sleep"} => config.connection.protocol \in Monitors
    /\ phase = "exited" =>
          /\ code = 0 =>
                \/ outcome # "nothing"
                \/ ~running /\ config.connection.protocol \in Monitors
          /\ outcome \in {"deployed", "deleted", "listed", "help"} => code = 0

LEMMA StatusStep ==
    ASSUME StatusInv, [Next]_vars
    PROVE  StatusInv'
  <1> USE DEF StatusInv, Exit
  <1>1. CASE TakeArgument
    BY <1>1 DEF TakeArgument
  <1>2. CASE EndOfOptions
    BY <1>2 DEF EndOfOptions, Kept
  <1>3. CASE TargetCommand
    <2>1. \/ code' = 0 /\ outcome' \in {"listed", "deleted"}
          \/ code' = 1 /\ outcome' = outcome
      BY <1>3, Zenon DEF TargetCommand, SaveTargets, Exit
    <2>2. phase = "command" /\ phase' = "exited" /\ running' = running
      <3>1. phase' = "exited"
        BY <1>3, Zenon DEF TargetCommand, SaveTargets, Exit
      <3> QED
        BY <1>3, <3>1 DEF TargetCommand
    <2> QED
      BY <2>1, <2>2
  <1>4. CASE UseTarget
    <2>1. phase' = "patterns" \/ (phase' = "exited" /\ code' = 1)
      BY <1>4, Zenon DEF UseTarget, Exit, Kept
    <2>2. phase # "exited" /\ outcome' = outcome /\ running' = running
      BY <1>4 DEF UseTarget, Kept
    <2> QED
      BY <2>1, <2>2
  <1>5. CASE Patterns
    BY <1>5 DEF Patterns, Kept
  <1>6. CASE User
    BY <1>6 DEF User, Kept
  <1>7. CASE Save
    <2>1. phase' = "main" \/ (phase' = "exited" /\ code' = 1)
      BY <1>7, Zenon DEF Save, SaveTargets, Exit
    <2>2. phase # "exited" /\ outcome' = outcome /\ running' = running
      BY <1>7 DEF Save
    <2> QED
      BY <2>1, <2>2
  <1>8. CASE LogFails
    BY <1>8 DEF LogFails, Kept
  <1>9. CASE Dispatch
    BY <1>9 DEF Dispatch, Kept
  <1>10. CASE OtherMode
    BY <1>10 DEF OtherMode
  <1>11. CASE RemoteStart
    <2>1. phase' = "loop" \/ (phase' = "exited" /\ code' = 1)
      BY <1>11, Zenon DEF RemoteStart, Exit, Kept
    <2>2. phase = "remote" /\ outcome' = outcome /\ running' = running /\ config' = config
      BY <1>11 DEF RemoteStart, Kept
    <2> QED
      BY <2>1, <2>2
  <1>12. CASE LoopTest
    BY <1>12 DEF LoopTest, Kept
  <1>13. CASE RemoteScan
    <2>1. \/ code' = 1 /\ outcome' = outcome
          \/ outcome' = "shown"
      BY <1>13, Zenon DEF RemoteScan, Exit
    <2>2. phase = "scan" /\ running' = running /\ config' = config
      BY <1>13 DEF RemoteScan
    <2> QED
      BY <2>1, <2>2
  <1>14. CASE Wake
    BY <1>14 DEF Wake, Kept
  <1>15. CASE DeployStart
    <2>1. phase' = "upload" \/ (phase' = "exited" /\ code' = 1)
      BY <1>15, Zenon DEF DeployStart, Exit, Kept
    <2>2. phase # "exited" /\ outcome' = outcome /\ running' = running
      BY <1>15 DEF DeployStart, Kept
    <2> QED
      BY <2>1, <2>2
  <1>16. CASE Upload
    BY <1>16 DEF Upload
  <1>17. CASE Signal
    BY <1>17 DEF Signal
  <1>18. CASE Killed
    BY <1>18 DEF Killed, Kept
  <1>19. CASE NextRun
    BY <1>19 DEF NextRun
  <1>20. CASE UNCHANGED vars
    BY <1>20 DEF vars
  <1> QED
    BY <1>1, <1>2, <1>3, <1>4, <1>5, <1>6, <1>7, <1>8, <1>9, <1>10, <1>11, <1>12, <1>13, <1>14, <1>15, <1>16, <1>17, <1>18, <1>19, <1>20 DEF Next, Step

-----------------------------------------------------------------------------
(* Types.                                                                  *)

Pids == -(PidModulus \div 2) .. PidModulus \div 2 - 1

\* The values of --exclude.
Excludes == {a.value : a \in {b \in Arguments : b.opt = "exclude"}}

\* The lists of the configuration.
ListsInv ==
    /\ DOMAIN config = DOMAIN DefaultConfig
    /\ config.pids \in Seq(Pids)
    /\ config.ppids \in Seq(Pids)
    /\ DOMAIN config.states \subseteq 1 .. MaxStates
    /\ config.excludes \in Seq(Excludes)
    /\ Len(config.excludes) <= MaxPatterns
    /\ config.flags \subseteq Flags

\* What the files hold, and where the run is.
FilesInv ==
    /\ phase \in Parsing \cup Modes \cup {"exited"}
    /\ code \in {0, 1, 2, 130}
    /\ \A path \in Paths : \A n \in DOMAIN files[path].table :
          DOMAIN files[path].table[n] = Fields

\* A number of a list is cut to a pid_t.
LEMMA PidOfType ==
    ASSUME NEW long \in Int
    PROVE  PidOf(long) \in Pids
  <1>1. PICK m, h : m \in Nat /\ m = PidModulus /\ h = PidModulus \div 2 /\ m > 0 /\ m % 2 = 0
    BY CommandLineAssumption
  <1>2. h \in Int /\ m = 2 * h
    BY <1>1
  <1>3. \A x \in Int : x % m \in 0 .. m - 1
    BY <1>1
  <1>4. (long + h) % m \in 0 .. m - 1
    BY <1>2, <1>3
  <1>5. PICK x \in 0 .. m - 1 : x = (long + h) % m
    BY <1>4
  <1>6. PidOf(long) = x - h
    BY <1>1, <1>5 DEF PidOf
  <1>7. x - h \in -h .. h - 1
    BY <1>2, <1>5
  <1> QED
    BY <1>1, <1>6, <1>7 DEF Pids

LEMMA PidListType ==
    ASSUME NEW list_before \in Seq(Pids), NEW value \in Seq(Int)
    PROVE  list_before \o [i \in DOMAIN value |-> PidOf(value[i])] \in Seq(Pids)
  <1>1. \A i \in DOMAIN value : value[i] \in Int
    OBVIOUS
  <1>2. DOMAIN value = 1 .. Len(value) /\ Len(value) \in Nat
    OBVIOUS
  <1>3. \A i \in DOMAIN value : PidOf(value[i]) \in Pids
    BY <1>1, PidOfType
  <1>4. [i \in DOMAIN value |-> PidOf(value[i])] \in Seq(Pids)
    BY <1>2, <1>3
  <1> QED
    BY <1>4

\* The options keep the lists within their limits.
LEMMA OptionLists ==
    ASSUME ListsInv, NEW a \in Arguments, ~Rejected(a),
           a.opt \notin {"help", "version", "unknown"},
           config' = WithOption(config, a)
    PROVE  ListsInv'
  <1>0. /\ {"connection", "set", "user_arg", "pids", "ppids", "states", "excludes", "patterns",
            "flags", "settings", "capture"} \subseteq DOMAIN config
    BY DEF ListsInv, DefaultConfig
  <1>1. CASE a.opt \in Fields
    <2>1. config' = WithField(config, a)
      BY <1>1 DEF WithOption, Fields, Flags, Settings, Texts
    <2> QED
      BY <1>0, <2>1 DEF WithField, ListsInv
  <1>2. CASE a.opt \in Flags
    <2>1. config' = WithFlag(config, a.opt)
      BY <1>2 DEF WithOption, Fields, Flags, Settings, Texts
    <2>2. config'.flags \subseteq Flags
      BY <1>0, <1>2, <2>1 DEF WithFlag, ListsInv, Flags
    <2> QED
      BY <1>0, <2>1, <2>2 DEF WithFlag, ListsInv
  <1>3. CASE a.opt \in Settings
    <2>1. config' = WithSetting(config, a)
      BY <1>3 DEF WithOption, Fields, Flags, Settings, Texts
    <2> QED
      BY <1>0, <2>1 DEF WithSetting, ListsInv
  <1>4. CASE a.opt \in Texts
    <2>1. config' = [config EXCEPT ![a.opt] = a.value]
      BY <1>4 DEF WithOption, Fields, Flags, Settings, Texts
    <2>2. a.opt \notin {"pids", "ppids", "states", "excludes", "flags"}
      BY <1>4 DEF Texts
    <2> QED
      BY <1>0, <2>1, <2>2 DEF ListsInv
  <1>5. CASE a.opt \in {"pids", "ppids"}
    <2>1. config' = WithPids(config, a.opt, a.value)
      BY <1>5 DEF WithOption, Fields, Flags, Settings, Texts
    <2>2. PICK added : added = config[a.opt] \o [i \in DOMAIN a.value |-> PidOf(a.value[i])]
      OBVIOUS
    <2>3. added \in Seq(Pids)
      BY <1>5, <2>2, PidListType, CommandLineAssumption DEF ListsInv
    <2>4. config' = [config EXCEPT ![a.opt] = added]
      BY <2>1, <2>2 DEF WithPids
    <2> QED
      BY <1>0, <1>5, <2>3, <2>4 DEF ListsInv
  <1>6. CASE a.opt = "states"
    <2>1. config' = WithStates(config, a.value)
      BY <1>6 DEF WithOption, Fields, Flags, Settings, Texts
    <2>2. PICK all : config' = [config EXCEPT !.states =
                                   Restrict(all, DOMAIN all \cap 1 .. MaxStates)]
      BY <2>1, Zenon DEF WithStates
    <2>3. DOMAIN Restrict(all, DOMAIN all \cap 1 .. MaxStates) \subseteq 1 .. MaxStates
      BY DEF Restrict
    <2> QED
      BY <1>0, <2>2, <2>3 DEF ListsInv
  <1>7. CASE a.opt = "exclude"
    <2>1. config' = [config EXCEPT !.excludes = Append(@, a.value)]
      BY <1>7 DEF WithOption, Fields, Flags, Settings, Texts
    <2>2. Len(config.excludes) < MaxPatterns
      <3>1. ~(Len(config.excludes) >= MaxPatterns)
        BY <1>7 DEF Rejected
      <3> QED
        BY <3>1, CommandLineAssumption DEF ListsInv
    <2>3. PICK added : added = Append(config.excludes, a.value)
      OBVIOUS
    <2>4. added \in Seq(Excludes) /\ Len(added) = Len(config.excludes) + 1
      BY <1>7, <2>3 DEF ListsInv, Excludes
    <2>5. Len(added) <= MaxPatterns
      BY <2>2, <2>4, CommandLineAssumption DEF ListsInv
    <2>6. config' = [config EXCEPT !.excludes = added]
      BY <2>1, <2>3
    <2> QED
      BY <1>0, <2>4, <2>5, <2>6 DEF ListsInv
  <1>8. CASE a.opt \in {"pattern", "capture"}
    <2>1. \/ config' = [config EXCEPT !.patterns = Append(@, a.value)]
          \/ config' = [config EXCEPT !.capture = TRUE]
      BY <1>8 DEF WithOption, Fields, Flags, Settings, Texts
    <2> QED
      BY <1>0, <2>1 DEF ListsInv
  <1> QED
    BY <1>1, <1>2, <1>3, <1>4, <1>5, <1>6, <1>7, <1>8, CommandLineAssumption DEF Options

\* An assignment of another member leaves the lists alone.
LEMMA ListsKept ==
    ASSUME ListsInv, DOMAIN config' = DOMAIN config,
           \A f \in {"pids", "ppids", "states", "excludes", "flags"} : config'[f] = config[f]
    PROVE  ListsInv'
  BY DEF ListsInv

LEMMA ListsStart ==
    /\ DefaultConfig.pids \in Seq(Pids) /\ DefaultConfig.ppids \in Seq(Pids)
    /\ DOMAIN DefaultConfig.states \subseteq 1 .. MaxStates
    /\ DefaultConfig.excludes \in Seq(Excludes)
    /\ Len(DefaultConfig.excludes) <= MaxPatterns
    /\ DefaultConfig.flags \subseteq Flags
  <1>1. /\ DefaultConfig.pids = <<>> /\ DefaultConfig.ppids = <<>> /\ DefaultConfig.states = <<>>
        /\ DefaultConfig.excludes = <<>> /\ DefaultConfig.flags = {}
    BY DEF DefaultConfig
  <1>2. DOMAIN <<>> = {} /\ Len(<<>>) = 0 /\ \A S : <<>> \in Seq(S)
    OBVIOUS
  <1>3. Len(DefaultConfig.excludes) <= MaxPatterns
    BY <1>1, <1>2, CommandLineAssumption
  <1> QED
    BY <1>1, <1>2, <1>3

LEMMA ListsStep ==
    ASSUME IInv, ListsInv, [Next]_vars
    PROVE  ListsInv'
  <1>1. CASE TakeArgument
    <2>1. \/ UNCHANGED config
          \/ \E a \in Arguments : /\ a.opt \notin {"help", "version"} /\ ~Rejected(a)
                                  /\ config' = WithOption(config, a)
      BY <1>1 DEF TakeArgument
    <2>2. \A a \in Arguments : ~Rejected(a) => a.opt # "unknown"
      BY DEF Rejected
    <2>3. CASE UNCHANGED config
      BY <2>3 DEF ListsInv
    <2> QED
      BY <2>1, <2>2, <2>3, OptionLists
  <1>2. CASE UseTarget
    <2>1. UNCHANGED config \/ \E c : config' = [config EXCEPT !.connection = c]
      BY <1>2, Zenon DEF UseTarget
    <2>2. {"pids", "ppids", "states", "excludes", "flags"} \subseteq DOMAIN config
      BY DEF ListsInv, DefaultConfig
    <2>3. DOMAIN config' = DOMAIN config
      BY <2>1
    <2>4. \A f \in {"pids", "ppids", "states", "excludes", "flags"} : config'[f] = config[f]
      BY <2>1, <2>2
    <2> QED
      BY <2>3, <2>4, ListsKept
  <1>3. CASE User
    <2>1. UNCHANGED config \/ \E f : config' = [config EXCEPT !.filter = f]
      BY <1>3, Zenon DEF User
    <2>2. {"pids", "ppids", "states", "excludes", "flags"} \subseteq DOMAIN config
      BY DEF ListsInv, DefaultConfig
    <2>3. DOMAIN config' = DOMAIN config
      BY <2>1
    <2>4. \A f \in {"pids", "ppids", "states", "excludes", "flags"} : config'[f] = config[f]
      BY <2>1, <2>2
    <2> QED
      BY <2>3, <2>4, ListsKept
  <1>4. CASE NextRun
    <2>1. config' = DefaultConfig
      BY <1>4 DEF NextRun
    <2> QED
      BY <2>1, ListsStart DEF ListsInv
  <1>5. CASE UNCHANGED config
    BY <1>5 DEF ListsInv
  <1> QED
    BY <1>1, <1>2, <1>3, <1>4, <1>5
    DEF Next, Step, EndOfOptions, TargetCommand, Patterns, Save, LogFails, Dispatch, OtherMode,
        RemoteStart, LoopTest, RemoteScan, Wake, DeployStart, Upload, Signal, Killed, vars

LEMMA FilesInvStep ==
    ASSUME IInv, FilesInv, [Next]_vars
    PROVE  FilesInv'
  <1>1. phase' \in Parsing \cup Modes \cup {"exited"} /\ code' \in {0, 1, 2, 130}
    <2> USE DEF FilesInv, Exit
    <2>1. CASE TakeArgument \/ EndOfOptions
      BY <2>1 DEF TakeArgument, EndOfOptions, Kept
    <2>2. CASE TargetCommand \/ Save
      BY <2>2 DEF TargetCommand, Save, SaveTargets
    <2>3. CASE UseTarget \/ Patterns \/ User
      BY <2>3 DEF UseTarget, Patterns, User
    <2>4. CASE LogFails \/ Dispatch \/ OtherMode
      BY <2>4 DEF LogFails, Dispatch, OtherMode
    <2>5. CASE RemoteStart \/ LoopTest \/ RemoteScan \/ Wake
      BY <2>5 DEF RemoteStart, LoopTest, RemoteScan, Wake
    <2>6. CASE DeployStart \/ Upload
      BY <2>6 DEF DeployStart, Upload
    <2>7. CASE Signal \/ Killed \/ NextRun \/ UNCHANGED vars
      BY <2>7 DEF Signal, Killed, NextRun, vars
    <2> QED
      BY <2>1, <2>2, <2>3, <2>4, <2>5, <2>6, <2>7 DEF Next, Step
  <1>2. ASSUME NEW path \in Paths, NEW n \in DOMAIN files'[path].table
        PROVE  DOMAIN files'[path].table[n] = Fields
    <2>1. \/ files'[path] = files[path]
          \/ DOMAIN files'[path].table = {}
          \/ \E t : /\ files'[path].table = t /\ path = Path
                    /\ n \in DOMAIN t => \/ n \in DOMAIN Loaded /\ t[n] = Loaded[n]
                                         \/ t[n] = config.connection
      BY <1>2, FilesStep DEF Holds
    <2>2. DOMAIN config.connection = Fields
      BY DEF IInv, ShapeInv
    <2> QED
      BY <1>2, <2>1, <2>2 DEF FilesInv, Loaded
  <1> QED
    BY <1>1, <1>2 DEF FilesInv

LEMMA TypeFromParts ==
    ASSUME IInv, ListsInv, FilesInv, StatusInv
    PROVE  TypeOK
  <1>1. \A opt \in {"pids", "ppids"} : \A i \in DOMAIN config[opt] : config[opt][i] \in Pids
    BY DEF ListsInv
  <1>2. config.set \subseteq Fields /\ DOMAIN config.connection = Fields
    BY DEF IInv, GivenInv, ShapeInv
  <1> QED
    BY <1>1, <1>2 DEF TypeOK, ListsInv, FilesInv, StatusInv, Pids

\* A script can go by the exit status of every run: 0 says that what was asked
\* for was done or that the user stopped a monitor, and a deploy or a command
\* on the saved targets that was carried out exits with 0; and the lists of the
\* configuration never outgrow their arrays.
THEOREM ExitStatusIsTrue == Spec => []ExitTellsOutcome
  <1>1. Init => StatusInv /\ ListsInv /\ FilesInv
    <2> SUFFICES ASSUME Init PROVE StatusInv /\ ListsInv /\ FilesInv
      OBVIOUS
    <2>1. StatusInv
      BY DEF Init, StatusInv
    <2>2. ListsInv
      <3>1. config = DefaultConfig
        BY DEF Init
      <3> QED
        BY <3>1, ListsStart DEF ListsInv
    <2>3. FilesInv
      BY CommandLineAssumption DEF Init, FilesInv
    <2> QED
      BY <2>1, <2>2, <2>3
  <1>2. IInv /\ StatusInv /\ ListsInv /\ FilesInv /\ [Next]_vars
            => StatusInv' /\ ListsInv' /\ FilesInv'
    BY StatusStep, ListsStep, FilesInvStep
  <1>3. IInv /\ StatusInv /\ ListsInv /\ FilesInv => ExitTellsOutcome
    BY TypeFromParts DEF StatusInv, ExitTellsOutcome
  <1> QED
    BY <1>1, <1>2, <1>3, Invariance, PTL DEF Spec
=============================================================================
