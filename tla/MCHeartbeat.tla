----------------------------- MODULE MCHeartbeat -----------------------------
(***************************************************************************)
(* TLC instance of Heartbeat: two runtime.services bindings and a script   *)
(* that share runtime_instances, a script for a number, a service whose    *)
(* definition the operator breaks and mends, and a directory that cannot   *)
(* be parsed.                                                              *)
(***************************************************************************)
EXTENDS Heartbeat

Binding(id, primitive, key, yields) ==
  [id |-> <<"", id>>, primitive |-> primitive, command |-> primitive = "exec",
   key |-> <<"", key>>, yields |-> yields]

\* By HTTP, both of them.
Runtime(id) == Binding(id, "runtime.services", "runtime_instances", {"signals"})

Load == Binding("load", "exec", "load", {"scalar", "nan"})

Script == Binding("script", "exec", "runtime_instances", {"array"})

Skipped == Binding("skipped", "typo", "load", {"scalar"})

MCCollectors ==
  {[ok |-> TRUE, bindings |-> {Runtime("icosys"), Runtime("aigw"), Load, Skipped}],
   [ok |-> TRUE, bindings |-> {Runtime("icosys"), Script}],
   [ok |-> FALSE, bindings |-> {}]}

Service(unknown) ==
  [name |-> "tleasy", axes |-> {"up"}, unknown |-> unknown, yields |-> {"scalar"},
   metrics |-> {[key |-> "sessions", whole |-> TRUE]}]

MCServices ==
  {[ok |-> TRUE, services |-> {Service({})}],
   [ok |-> TRUE, services |-> {Service({"up"})}],
   [ok |-> FALSE, services |-> {}]}

MCWishes == {1, 2}
=============================================================================
