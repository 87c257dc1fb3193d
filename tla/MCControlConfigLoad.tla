------------------------- MODULE MCControlConfigLoad -------------------------
(***************************************************************************)
(* TLC instance of ControlConfigLoad: every combination of the switches    *)
(* that matter with numbers below, at and above the ceilings, an operator  *)
(* source that clashes with a service, and directories of up to two        *)
(* services that clash with each other or declare no usable source.        *)
(***************************************************************************)
EXTENDS ControlConfigLoad

MCToggles == {{}, {"logs"}, {"svc"}, {"logs", "pkg"}, {"df", "metrics", "cron"}, Toggles}

OperatorSource == [type |-> "file", located |-> TRUE, from |-> "control.yaml"]

MCSources == {<<>>, [n \in {"web"} |-> OperatorSource]}

MCFiles ==
  {NoFile, [NoFile EXCEPT !.kind = "malformed"]} \cup
  [kind : {"ok"}, enabled : BOOLEAN, toggles : MCToggles, defaultLines : {0, 9},
   maxLines : {-1, 0, 1, 7}, maxFollow : {0, 1, 9}, sources : MCSources]

MCDefs ==
  {[name |-> n, hasLogs |-> TRUE, type |-> t, located |-> l] :
     n \in {"web", "db"}, t \in {"docker", ""}, l \in BOOLEAN}
  \cup {[name |-> "db", hasLogs |-> FALSE, type |-> "journald", located |-> TRUE]}

MCServiceDirs ==
  {[ok |-> FALSE, defs |-> <<>>], [ok |-> TRUE, defs |-> <<>>]}
  \cup {[ok |-> TRUE, defs |-> <<d>>] : d \in MCDefs}
  \cup {[ok |-> TRUE, defs |-> <<d, e>>] : d \in MCDefs, e \in MCDefs}

MCArgSets == {<<>>} \cup {[a \in {"lines"} |-> n] : n \in {-3, 0, 1, 2, 6, 100}}
=============================================================================
