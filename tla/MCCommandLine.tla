--------------------------- MODULE MCCommandLine ---------------------------
(* Values for CommandLine under TLC: of every group of options that meet   *)
(* in a test one or two values, two accounts, one process and one target    *)
(* that an earlier run has saved.                                          *)
EXTENDS CommandLine

Option(opt, values) == [opt : {opt}, value : values]

const_Arguments ==
    UNION {Option("protocol", {"local", "ssh", "ftp"}), Option("host", {"h"}),
           Option("user", {"ann", "eve", "18"}), Option("port", {7}),
           Option("identity", {"key"}), Option("remote_bin", {""}),
           Option("target_name", {"a"}), Option("save_name", {"a", "b"}),
           Option("delete_name", {"a"}), Option("targets_file", {"other"}),
           Option("local_file", {"f"}), Option("once", {TRUE}), Option("json", {TRUE}),
           Option("capture", {NotGiven, NaN, 0}), Option("interval", {0, NaN}),
           Option("pids", {<<1>>, <<0>>, <<2, 17>>}), Option("states", {<<"R", "?", "T">>}),
           Option("exclude", {"sh"}), Option("pattern", {"sh"}), Option("log_file", {"l"}),
           Option("help", {TRUE}), Option("list_targets", {TRUE})}

\* Two accounts; the second has a number for a name.  A number that is cut, to no
\* account's uid.
const_Accounts == "ann" :> 1 @@ "18" :> 5
const_Numbers == "18" :> 18

Saved == [DefaultConfig.connection EXCEPT !.protocol = "ssh", !.host = "s", !.user = "root"]
const_FirstFiles == {[path \in Paths |-> IF path = "default" THEN File("a" :> Saved) ELSE NoFile]}

const_Processes == {[pid |-> 1, ppid |-> 0, user |-> "ann", uid |-> 1, state |-> "R",
                     texts |-> {"sh"}]}
=============================================================================
