-------------------------- MODULE MCControlChannel --------------------------
(***************************************************************************)
(* TLC instances of ControlChannel.                                        *)
(***************************************************************************)
EXTENDS ControlChannel, TLC

CONSTANTS j1, j2

Verb(v) == [verb |-> v, target |-> "none", follow |-> FALSE]
LogsTail(target, follow) == [verb |-> "logs.tail", target |-> target, follow |-> follow]

\* An unlimited snapshot, a line-limited one and the job without a command, beside
\* a second job that asks for the snapshot.
Mixed == {Verb("disk.df"), Verb("proc.top"), Verb("metrics.live")}
OneCommand == {Verb("disk.df")}
Snapshots == [j \in Jobs |-> IF j = j1 THEN Mixed ELSE OneCommand]

\* A log that is not followed has no deadline, the live metrics have one.
Streams2 == [j \in Jobs |-> IF j = j1 THEN {LogsTail("web", FALSE)} ELSE {Verb("metrics.live")}]

SameCommand == [j \in Jobs |-> OneCommand]

-----------------------------------------------------------------------------

AllowList(toggles) ==
  [file |-> [kind |-> "ok", enabled |-> TRUE, toggles |-> toggles, defaultLines |-> 0,
             maxLines |-> 0, maxFollow |-> 0,
             sources |-> [n \in {"web"} |->
                            [type |-> "file", located |-> TRUE, from |-> "control.yaml"]]],
   services |-> [ok |-> TRUE,
                 defs |-> <<[name |-> "db", hasLogs |-> TRUE, type |-> "docker", located |-> FALSE]>>]]

Everything == {AllowList(Toggles)}

\* The operator closes disk.df and opens it again.
Closing == {AllowList(Toggles), AllowList(Toggles \ {"df"})}

-----------------------------------------------------------------------------

\* Ids are interchangeable.
AnyId == Permutations(ReqIds)

\* Bound: once the channel has reconnected or the allow-list has been edited, the jobs
\* are the snapshot alone, of at most one line, and the agent is not shutting down.
Edited == \E g \in 1..gen : cfg[g] # LoadControlConfig(disk.file, disk.services)

Narrow ==
  gen = 2 \/ Edited =>
    /\ ~shutdown
    /\ \A j \in Jobs : req[j] \in OneCommand \cup {NoRequest} /\ seq[j] <= 1
=============================================================================
