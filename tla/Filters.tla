------------------------------- MODULE Filters -------------------------------
(***************************************************************************)
(* monitoring_filter.c: which processes a configuration shows.  A process  *)
(* has the texts its name and command line contain, without regard to      *)
(* case, as `texts`.                                                       *)
(***************************************************************************)
EXTENDS Integers, Sequences, SequencesExt

\* No filter by account: neither the uid nor the name is enabled.
NoUser == [uid |-> -1, name |-> "none"]

\* filter_match_patterns: no patterns means everything.
MatchPatterns(config, process) ==
    config.patterns = <<>> \/ \E i \in DOMAIN config.patterns : config.patterns[i] \in process.texts

MatchExcludes(config, process) ==
    \E i \in DOMAIN config.excludes : config.excludes[i] \in process.texts

MatchPid(config, process) ==
    config.pids = <<>> \/ \E i \in DOMAIN config.pids : config.pids[i] = process.pid

MatchPpid(config, process) ==
    config.ppids = <<>> \/ \E i \in DOMAIN config.ppids : config.ppids[i] = process.ppid

\* The uid, and the name if the user was given by name.
MatchUser(config, process) ==
    /\ config.filter.uid # NoUser.uid => process.uid = config.filter.uid
    /\ config.filter.name # NoUser.name => process.user = config.filter.name

MatchState(config, process) ==
    config.states = <<>> \/ \E i \in DOMAIN config.states : config.states[i] = process.state

\* process_matches.
Matches(config, process) ==
    /\ MatchPatterns(config, process)
    /\ ~MatchExcludes(config, process)
    /\ MatchPid(config, process)
    /\ MatchPpid(config, process)
    /\ MatchUser(config, process)
    /\ MatchState(config, process)
=============================================================================
