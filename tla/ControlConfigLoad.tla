-------------------------- MODULE ControlConfigLoad --------------------------
(***************************************************************************)
(* One load of the control channel's allow-list.  loadControlConfig reads   *)
(* two things that the operator edits independently and at any time: first *)
(* control.yaml, then the services.d directory beside it.  The load is two *)
(* steps, each meeting whatever is on disk at that moment; the session     *)
(* that asked for it keeps the result until it reconnects and loads again. *)
(***************************************************************************)
EXTENDS ControlConfig

CONSTANTS
  Files,          \* the control.yaml files that may be found
  ServiceDirs,    \* the contents services.d may have
  ArgSets         \* the argument objects a logs.tail request may carry

ServiceDefs == [name : STRING, hasLogs : BOOLEAN, type : STRING, located : BOOLEAN]

\* What the YAML and JSON decoders deliver: limits that are integers (an int field takes
\* nothing else, and argInt counts a lines argument that is no number as absent), services
\* in a list; and what control.yaml declares is marked as its own.
ASSUME ParsedAssumption ==
  /\ \A f \in Files :
       /\ {f.defaultLines, f.maxLines, f.maxFollow} \subseteq Int
       /\ \A n \in DOMAIN f.sources : f.sources[n].from = "control.yaml"
  /\ \A d \in ServiceDirs : d.defs \in Seq(ServiceDefs)
  /\ \A args \in ArgSets : "lines" \in DOMAIN args => args["lines"] \in Int

VARIABLES
  step,           \* "connect", "file" (control.yaml has been read) or "loaded"
  file,           \* control.yaml as it was read
  services,       \* services.d as it was read
  cfg             \* session.cfg

vars == <<step, file, services, cfg>>

NoFile == [kind |-> "absent", enabled |-> FALSE, toggles |-> {}, defaultLines |-> 0,
           maxLines |-> 0, maxFollow |-> 0, sources |-> <<>>]

Init ==
  /\ step = "connect"
  /\ file = NoFile
  /\ services = [ok |-> TRUE, defs |-> <<>>]
  /\ cfg = NoConfig

ReadFile ==
  /\ step = "connect"
  /\ file' \in Files
  /\ step' = "file"
  /\ UNCHANGED <<services, cfg>>

MergeServices ==
  /\ step = "file"
  /\ services' \in ServiceDirs
  /\ cfg' = LoadControlConfig(file, services')
  /\ step' = "loaded"
  /\ UNCHANGED file

\* The session ends; the next one starts from nothing.
Reconnect ==
  /\ step = "loaded"
  /\ step' = "connect"
  /\ file' = NoFile
  /\ services' = [ok |-> TRUE, defs |-> <<>>]
  /\ cfg' = NoConfig

Next == ReadFile \/ MergeServices \/ Reconnect

Spec == Init /\ [][Next]_vars

-----------------------------------------------------------------------------
(* Properties *)

\* Every loaded number stays within the hard ceilings whatever the operator
\* wrote, and whatever lines argument ICLIC sends, a tail asks for at least one
\* line and no more than the ceiling (loadControlConfig's clamps, logsJob's clampInt).
CeilingsHold ==
  step = "loaded" /\ file.kind = "ok" =>
    /\ cfg.maxLines \in 1..HardMaxLines
    /\ cfg.maxFollow \in 1..HardMaxFollow
    /\ \A args \in ArgSets : TailLines(cfg, args) \in 1..cfg.maxLines

\* The hello frame and the jobs agree: a verb is advertised exactly when its job
\* would pass its opt-in check (ControlConfig.verbs against the guards of the
\* jobs), so no button of the Fleet UI is dead and no verb is served unannounced.
AdvertisedIsServed ==
  \A v \in StreamVerbs : v \in Advertised(cfg) <=> JobAllowed(cfg, v)

\* The services whose log block would be usable under name n, in directory order.
Usable(n) == {i \in DOMAIN services.defs :
                /\ services.defs[i].hasLogs
                /\ services.defs[i].type # ""
                /\ services.defs[i].name = n}

\* What the merge loop leaves behind, said without the loop: a source of
\* control.yaml is kept as it was written, and any other source comes from the
\* first service that offers a usable one under that name.
OperatorSourcesWin ==
  step = "loaded" /\ file.kind = "ok" =>
    /\ \A n \in DOMAIN file.sources :
         n \in DOMAIN cfg.sources /\ cfg.sources[n] = file.sources[n]
    /\ \A n \in DOMAIN cfg.sources \ DOMAIN file.sources :
         \E i \in Usable(n) :
           /\ \A k \in Usable(n) : i <= k
           /\ cfg.sources[n].type = services.defs[i].type
           /\ cfg.sources[n].located = services.defs[i].located
    /\ LogsEnabled(cfg) /\ services.ok =>
         \A i \in DOMAIN services.defs :
           i \in Usable(services.defs[i].name) => services.defs[i].name \in DOMAIN cfg.sources

\* A service definition can never bypass the opt-in: a source that a service
\* contributed is in the table only if control.yaml enables both the channel and
\* its logs, and an unreadable or malformed control.yaml opens nothing at all.
OptInGoverns ==
  /\ \A n \in DOMAIN cfg.sources :
       cfg.sources[n].from = "service" => file.enabled /\ "logs" \in file.toggles
  /\ file.kind # "ok" => Advertised(cfg) = {} /\ cfg.sources = <<>>
  /\ ~file.enabled => Advertised(cfg) = {}

=============================================================================
