---------------------------- MODULE ControlConfig ----------------------------
(***************************************************************************)
(* The control channel's allow-list: how control.yaml and the service      *)
(* definitions beside it become the configuration of one session, which    *)
(* verbs that configuration advertises and which ones it serves.           *)
(*                                                                         *)
(* A control.yaml is abstracted to a record:                               *)
(*   kind      "ok", "absent" (or unreadable) or "malformed"               *)
(*   enabled   control.enabled                                             *)
(*   toggles   the verb groups whose own `enabled` is true                 *)
(*   defaultLines, maxLines, maxFollow   the three numbers of logs:        *)
(*   sources   function from logical names to log sources                  *)
(* A log source keeps its type, whether the field that type needs          *)
(* (container, path or unit) is non-empty, and which file declared it.     *)
(*                                                                         *)
(* Operators called a mutant are plausible slips in the definition after   *)
(* them; no action uses them.                                              *)
(***************************************************************************)
EXTENDS Integers, Sequences, FiniteSets

CONSTANTS
  HardMaxLines,          \* hardMaxLines (5000 in the code)
  HardMaxFollow,         \* hardMaxFollowSeconds (3600)
  DefaultLines,          \* defaultLines (200)
  DefaultMaxLines,       \* defaultMaxLines (2000)
  DefaultFollow          \* defaultFollowSeconds (600)

ASSUME CeilingAssumption ==
  /\ {HardMaxLines, HardMaxFollow, DefaultLines, DefaultMaxLines, DefaultFollow}
        \subseteq Nat \ {0}
  /\ DefaultMaxLines <= HardMaxLines
  /\ DefaultFollow <= HardMaxFollow

Toggles == {"logs", "top", "df", "ports", "cron", "svc", "pkg", "docker", "metrics"}

StreamVerbs == {"logs.tail", "proc.top", "proc.top.live", "disk.df", "net.listen",
                "cron.list", "svc.status", "svc.list", "pkg.list", "docker.ps",
                "metrics.live"}

\* The configuration of an absent or malformed file: everything off.
NoConfig == [enabled |-> FALSE, toggles |-> {}, defaultLines |-> 0, maxLines |-> 0,
             maxFollow |-> 0, sources |-> <<>>]

-----------------------------------------------------------------------------
(* Loading *)

\* Mutant of Ceiling: only a default is held to the hard ceiling.
CeilingOfDefaultsOnly(v, default, hard) ==
  IF v > 0 THEN v ELSE IF default > hard THEN hard ELSE default

\* A value the operator left out (or wrote as nothing usable) takes its
\* default; no value passes the hard ceiling.
Ceiling(v, default, hard) ==
  LET w == IF v <= 0 THEN default ELSE v
  IN  IF w > hard THEN hard ELSE w

\* A service that contributes a log source: LoadServiceLogSources passes over one without a
\* logs: block, the merge loop over a block without a type, which is unusable.
Contributes(s) == s.hasLogs /\ s.type # ""

\* Mutant of MergeSource: no exists check, the last service of a name wins.
MergeSourceLastWins(sources, s) ==
  IF ~Contributes(s) THEN sources
  ELSE [n \in DOMAIN sources \cup {s.name} |->
          IF n = s.name THEN [type |-> s.type, located |-> s.located, from |-> "service"]
                        ELSE sources[n]]

\* The body of the merge loop: a name already there is kept.
MergeSource(sources, s) ==
  IF ~Contributes(s) \/ s.name \in DOMAIN sources
  THEN sources
  ELSE [n \in DOMAIN sources \cup {s.name} |->
          IF n \in DOMAIN sources
          THEN sources[n]
          ELSE [type |-> s.type, located |-> s.located, from |-> "service"]]

\* The merge loop: the sources there are after the first i services of the directory.
Merge(sources, defs) ==
  LET after[i \in 0 .. Len(defs)] ==
        IF i = 0 THEN sources ELSE MergeSource(after[i - 1], defs[i])
  IN  after

\* Mutant of MergedSources: the services are merged whatever the opt-in says.
MergedSourcesUngated(file, services) ==
  IF services.ok
  THEN Merge(file.sources, services.defs)[Len(services.defs)]
  ELSE file.sources

\* services is [ok |-> loadServiceDefs succeeded, defs |-> its result].
MergedSources(file, services) ==
  IF file.enabled /\ "logs" \in file.toggles /\ services.ok
  THEN Merge(file.sources, services.defs)[Len(services.defs)]
  ELSE file.sources

LoadControlConfig(file, services) ==
  IF file.kind # "ok"
  THEN NoConfig
  ELSE [enabled      |-> file.enabled,
        toggles      |-> file.toggles,
        defaultLines |-> IF file.defaultLines <= 0 THEN DefaultLines ELSE file.defaultLines,
        maxLines     |-> Ceiling(file.maxLines, DefaultMaxLines, HardMaxLines),
        maxFollow    |-> Ceiling(file.maxFollow, DefaultFollow, HardMaxFollow),
        sources      |-> MergedSources(file, services)]

-----------------------------------------------------------------------------
(* What a configuration permits *)

On(c, t) == c.enabled /\ t \in c.toggles

LogsEnabled(c) == On(c, "logs") /\ DOMAIN c.sources # {}

\* ControlConfig.verbs: the list sent in the hello frame.
Advertised(c) ==
  UNION {IF LogsEnabled(c)   THEN {"logs.tail"}                 ELSE {},
         IF On(c, "top")     THEN {"proc.top", "proc.top.live"} ELSE {},
         IF On(c, "df")      THEN {"disk.df"}                   ELSE {},
         IF On(c, "ports")   THEN {"net.listen"}                ELSE {},
         IF On(c, "cron")    THEN {"cron.list"}                 ELSE {},
         IF On(c, "svc")     THEN {"svc.status", "svc.list"}    ELSE {},
         IF On(c, "pkg")     THEN {"pkg.list"}                  ELSE {},
         IF On(c, "docker")  THEN {"docker.ps"}                 ELSE {},
         IF On(c, "metrics") THEN {"metrics.live"}              ELSE {}}

\* Mutant of JobAllowed: svc.list asks for the toggle of pkg.list.
JobAllowedWrongToggle(c, verb) ==
  IF verb = "svc.list" THEN On(c, "pkg") ELSE verb \in Advertised(c)

\* The guard each job starts with; a job that fails it answers not_permitted.
JobAllowed(c, verb) ==
  CASE verb = "logs.tail"                      -> LogsEnabled(c)
    [] verb \in {"proc.top", "proc.top.live"}  -> On(c, "top")
    [] verb = "disk.df"                        -> On(c, "df")
    [] verb = "net.listen"                     -> On(c, "ports")
    [] verb = "cron.list"                      -> On(c, "cron")
    [] verb \in {"svc.status", "svc.list"}     -> On(c, "svc")
    [] verb = "pkg.list"                       -> On(c, "pkg")
    [] verb = "docker.ps"                      -> On(c, "docker")
    [] verb = "metrics.live"                   -> On(c, "metrics")

SourceNames(c) == DOMAIN c.sources

-----------------------------------------------------------------------------
(* How a permitted request is answered.  A request is a record of its verb, *)
(* its target (a logical log source), its follow argument and its other     *)
(* arguments, a function whose domain is the argument names it carries.     *)

Clamp(v, lo, hi) == IF v < lo THEN lo ELSE IF v > hi THEN hi ELSE v

RequestedLines(c, args) == IF "lines" \in DOMAIN args THEN args["lines"] ELSE c.defaultLines

TailLines(c, args) == Clamp(RequestedLines(c, args), 1, c.maxLines)

\* logArgs fails for any other type, or when the one field its type needs is empty.
UsableSource(s) == s.type \in {"docker", "file", "journald"} /\ s.located

LogsAnswer(c, target) ==
  IF ~LogsEnabled(c) THEN "not_permitted"
  ELSE IF target \notin DOMAIN c.sources THEN "unknown_target"
  ELSE IF ~UsableSource(c.sources[target]) THEN "bad_source"
  ELSE "stream"

\* "stream", or the error of the job's early return.
Answer(c, request) ==
  IF request.verb = "logs.tail" THEN LogsAnswer(c, request.target)
  ELSE IF JobAllowed(c, request.verb) THEN "stream" ELSE "not_permitted"

\* The jobs that arm a context.WithTimeout: their ceiling ends them.
HasDeadline(request) ==
  \/ request.verb \in {"proc.top.live", "metrics.live"}
  \/ request.verb = "logs.tail" /\ request.follow

\* The jobs that pass streamCommand a non-zero maxLines.
LineLimited(request) ==
  request.verb \in {"proc.top", "net.listen", "cron.list", "svc.status", "svc.list",
                    "pkg.list", "docker.ps"}

\* The jobs whose argv is `sh -c`: a kill reaches the shell, not its children.
RunsShell(request) == request.verb \in {"cron.list", "pkg.list"}
=============================================================================
