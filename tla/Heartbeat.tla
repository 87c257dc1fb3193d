------------------------------- MODULE Heartbeat -------------------------------
(***************************************************************************)
(* The agent's heartbeat: the main loop, and in each beat the reading of   *)
(* collectors.d and services.d, one goroutine per binding writing to one   *)
(* map of metrics, the POST to ICLIC, the runtime signals after it and the *)
(* interval that ICLIC sets.  The operator edits both directories, and the *)
(* process may be told to stop, at any moment.                             *)
(*                                                                         *)
(* A metric key is a pair: <<service, axis or metric>> for the bindings of *)
(* a service (<service>_<axis> in the code), <<"", key>> for the others;   *)
(* that two of them may spell the same string is left out.                 *)
(* A value keeps its kind and the bindings it comes from:                  *)
(*   "signals"  the []runtimeSignal of the runtime.services primitive      *)
(*   "array"    an array of signals that a script printed as JSON          *)
(*   "scalar"   anything else that JSON can carry                          *)
(*   "nan"      a float that it cannot (exec with parse: float)            *)
(* A binding that waits for a command (exec, or runtime.services with a    *)
(* service probed by docker exec) may outlast its context: Output also     *)
(* waits for whoever else holds the command's pipe.                        *)
(* The desired version in ICLIC's reply is the subject of SelfUpdate.      *)
(*                                                                         *)
(* Operators called a mutant are plausible slips in the definition after   *)
(* them; no action uses them.                                              *)
(***************************************************************************)
EXTENDS Naturals, FiniteSets

CONSTANTS
  CollectorDirs,   \* what collectors.d may hold: [ok, bindings]
  ServiceDirs,     \* what services.d may hold: [ok, services]
  Configured,      \* heartbeat_interval_seconds
  Wishes           \* the intervals ICLIC may ask for

Kinds == {"signals", "array", "scalar", "nan"}

ASSUME IntervalAssumption == Configured \in Nat \ {0} /\ Wishes \subseteq Nat
ASSUME KindsAssumption ==
  /\ \A d \in CollectorDirs : \A b \in d.bindings : b.yields \subseteq Kinds
  /\ \A d \in ServiceDirs : \A s \in d.services : s.yields \subseteq Kinds

VARIABLES
  shutdown,        \* the process context is cancelled
  loop,            \* where the main loop is
  interval,        \* the period of the ticker
  collectorsDir,   \* collectors.d, as on disk
  servicesDir,     \* services.d, as on disk
  bindings,        \* the bindings of this beat
  expanded,        \* services.d, as LoadServiceDir found it
  running,         \* the bindings whose goroutine is in its primitive
  found,           \* the results not yet merged: <<binding, kind>>
  answered,        \* all the results of this beat, merged or not
  out,             \* the metrics: a set of [key, kind, from]
  cards,           \* the summaries under metrics["services"]
  sentCards,       \* services.d, as LoadServiceSummaries found it
  signals,         \* the runtime signals still to be posted
  outcome,         \* how the POST of this beat went
  desired,         \* the interval in its reply
  wish             \* the interval ICLIC wants

world == <<shutdown, collectorsDir, servicesDir, wish>>
beat == <<bindings, expanded, running, found, answered, out, cards, sentCards>>
vars == <<world, loop, interval, beat, signals, outcome, desired>>

RuntimeKey == <<"", "runtime_instances">>
NoServices == [ok |-> TRUE, services |-> {}]

-----------------------------------------------------------------------------
(* Bindings and services *)

\* A service has its non-empty axes, those among them with an unknown probe, and its
\* own metrics with, for each, whether both key and exec are there.
Expands(s) == s.unknown = {} /\ \A m \in s.metrics : m.whole

\* LoadServiceDir: one bad file or service, and none is expanded.
AllExpand(dir) == dir.ok /\ \A s \in dir.services : Expands(s)

Probe(s, what) ==
  [id |-> <<s.name, what>>, primitive |-> "exec", command |-> TRUE, key |-> <<s.name, what>>,
   yields |-> s.yields]

\* Mutant of ServiceBindings: the custom metrics are taken for axes and left out.
ServiceBindingsAxes(dir) == UNION {{Probe(s, a) : a \in s.axes} : s \in dir.services}

ServiceBindings(dir) ==
  UNION {{Probe(s, a) : a \in s.axes} \cup {Probe(s, m.key) : m \in s.metrics} : s \in dir.services}

\* LoadServiceSummaries looks at the files alone, not at whether they expand.
Summaries(dir) ==
  {[name |-> s.name,
    refs |-> {<<s.name, a>> : a \in s.axes} \cup {<<s.name, m.key>> : m \in s.metrics}] :
     s \in dir.services}

\* A binding without a key, or whose primitive is not in the registry, is skipped.
Runnable(b) == b.key # <<"", "">> /\ b.primitive \in {"exec", "runtime.services"}

\* Mutant of Merge: the last writer wins for every type.
MergeLast(old, new) == {new}

\* mergeBindingValue: lists of typed signals are concatenated, else the last wins.
Merge(old, new) ==
  LET kept == {v \in old : v.kind = "signals" /\ new.kind = "signals"}
  IN {[new EXCEPT !.from = @ \cup UNION {v.from : v \in kept}]}

-----------------------------------------------------------------------------
(* The environment *)

EditCollectors ==
  /\ collectorsDir' \in CollectorDirs \ {collectorsDir}
  /\ UNCHANGED <<shutdown, servicesDir, wish, loop, interval, beat, signals, outcome, desired>>

EditServices ==
  /\ servicesDir' \in ServiceDirs \ {servicesDir}
  /\ UNCHANGED <<shutdown, collectorsDir, wish, loop, interval, beat, signals, outcome, desired>>

AskInterval ==
  /\ wish' \in Wishes \ {wish}
  /\ UNCHANGED <<shutdown, collectorsDir, servicesDir, loop, interval, beat, signals, outcome,
                 desired>>

Signal ==
  /\ ~shutdown
  /\ shutdown' = TRUE
  /\ UNCHANGED <<collectorsDir, servicesDir, wish, loop, interval, beat, signals, outcome, desired>>

-----------------------------------------------------------------------------
(* The main loop between two beats *)

\* SendOnce starts from nothing: the locals of the beat before are gone.
Tick ==
  /\ loop = "idle"
  /\ loop' = "collectors"
  /\ bindings' = {} /\ running' = {} /\ found' = {} /\ answered' = {} /\ out' = {} /\ cards' = {}
  /\ expanded' = NoServices /\ sentCards' = NoServices
  /\ signals' = {}
  /\ outcome' = "none"
  /\ desired' = 0
  /\ UNCHANGED <<world, interval>>

\* Mutant of Stop: only looked at when the ticker is not due, and it always is.
StopWhenQuiet == FALSE /\ UNCHANGED vars

Stop ==
  /\ loop = "idle"
  /\ shutdown
  /\ loop' = "stopped"
  /\ UNCHANGED <<world, interval, beat, signals, outcome, desired>>

-----------------------------------------------------------------------------
(* Building the payload *)

\* A bad file in collectors.d costs the beat all its bindings.
LoadCollectors ==
  /\ loop = "collectors"
  /\ bindings' = IF collectorsDir.ok THEN collectorsDir.bindings ELSE {}
  /\ loop' = "services"
  /\ UNCHANGED <<world, interval, expanded, running, found, answered, out, cards, sentCards,
                 signals, outcome, desired>>

LoadServices ==
  /\ loop = "services"
  /\ expanded' = servicesDir
  /\ bindings' = bindings \cup (IF AllExpand(servicesDir) THEN ServiceBindings(servicesDir) ELSE {})
  /\ running' = {b \in bindings' : Runnable(b)}
  /\ loop' = "collect"
  /\ UNCHANGED <<world, interval, found, answered, out, cards, sentCards, signals, outcome,
                 desired>>

BindingStep ==
  UNCHANGED <<world, loop, interval, bindings, expanded, cards, sentCards, signals, outcome,
              desired>>

ProbeAnswers(b) ==
  /\ b \in running
  /\ running' = running \ {b}
  /\ \E kind \in b.yields :
       /\ found' = found \cup {<<b, kind>>}
       /\ answered' = answered \cup {<<b, kind>>}
  /\ UNCHANGED out
  /\ BindingStep

\* An error, or the end of the binding's context: no metric in this beat.
ProbeFails(b) ==
  /\ b \in running
  /\ running' = running \ {b}
  /\ UNCHANGED <<found, answered, out>>
  /\ BindingStep

Store(f) ==
  /\ f \in found
  /\ found' = found \ {f}
  /\ LET b == f[1]
         old == {v \in out : v.key = b.key}
     IN out' = (out \ old) \cup Merge(old, [key |-> b.key, kind |-> f[2], from |-> {b.id}])
  /\ UNCHANGED <<running, answered>>
  /\ BindingStep

\* Mutant of AllDone: a binding is added to the group before it may be skipped.
AllCounted == running = {} /\ found = {} /\ \A b \in bindings : Runnable(b)

\* wg.Wait
AllDone == running = {} /\ found = {}

\* services.d is read a second time, for the summaries.
Collected ==
  /\ loop = "collect"
  /\ AllDone
  /\ cards' = IF servicesDir.ok THEN Summaries(servicesDir) ELSE {}
  /\ sentCards' = servicesDir
  /\ loop' = "post"
  /\ UNCHANGED <<world, interval, bindings, expanded, running, found, answered, out,
                 signals, outcome, desired>>

-----------------------------------------------------------------------------
(* SendOnce from json.Marshal on *)

\* The runtime signals are not part of the host's payload.
HostMetrics == {v \in out : v.key # RuntimeKey}

Encodable == \A v \in HostMetrics : v.kind # "nan"

\* runtimeSignals: what the key holds, if it is an array of signals.
RuntimeSignals ==
  UNION {v.from : v \in {o \in out : o.key = RuntimeKey /\ o.kind \in {"signals", "array"}}}

MarshalFails ==
  /\ loop = "post"
  /\ ~Encodable
  /\ outcome' = "unencodable"
  /\ loop' = "idle"
  /\ UNCHANGED <<world, interval, beat, signals, desired>>

\* No connection, a timeout, a cancelled context, or a status from 400 up.
PostFails ==
  /\ loop = "post"
  /\ Encodable
  /\ outcome' = "failed"
  /\ loop' = "idle"
  /\ UNCHANGED <<world, interval, beat, signals, desired>>

\* A reply without the field, without JSON, or cut off by the end of the context
\* leaves the interval 0.
Accepted ==
  /\ loop = "post"
  /\ Encodable
  /\ outcome' = "accepted"
  /\ desired' \in {wish, 0}
  /\ signals' = RuntimeSignals
  /\ loop' = "signals"
  /\ UNCHANGED <<world, interval, beat>>

\* Delivered or rejected, each signal is tried once.
PostSignal ==
  /\ loop = "signals"
  /\ \E s \in signals : signals' = signals \ {s}
  /\ UNCHANGED <<world, loop, interval, beat, outcome, desired>>

\* Mutant of Adopt: compared with the configured interval instead of the current one.
AdoptUnlessConfigured == IF desired \in {0, Configured} THEN interval ELSE desired

\* applyInterval
Adopt == IF desired = 0 THEN interval ELSE desired

SignalsDone ==
  /\ loop = "signals"
  /\ signals = {}
  /\ interval' = Adopt
  /\ loop' = "idle"
  /\ UNCHANGED <<world, beat, signals, outcome, desired>>

-----------------------------------------------------------------------------

\* The first beat starts at once.
Init ==
  /\ shutdown = FALSE
  /\ loop = "collectors"
  /\ interval = Configured
  /\ collectorsDir \in CollectorDirs
  /\ servicesDir \in ServiceDirs
  /\ bindings = {} /\ running = {} /\ found = {} /\ answered = {} /\ out = {} /\ cards = {}
  /\ expanded = NoServices /\ sentCards = NoServices
  /\ signals = {}
  /\ outcome = "none"
  /\ desired = 0
  /\ wish \in Wishes

Environment == EditCollectors \/ EditServices \/ AskInterval \/ Signal

Primitive == \E b \in running : ProbeAnswers(b) \/ ProbeFails(b)

\* A request returns, by itself or with its context.
RequestReturns == \E b \in running : ~b.command /\ (ProbeAnswers(b) \/ ProbeFails(b))

\* The steps that the agent takes by itself.
Loop ==
  \/ Tick \/ Stop \/ LoadCollectors \/ LoadServices
  \/ \E f \in found : Store(f)
  \/ Collected \/ MarshalFails \/ PostFails \/ Accepted \/ PostSignal \/ SignalsDone

Next == Environment \/ Primitive \/ Loop

Spec == Init /\ [][Next]_vars

-----------------------------------------------------------------------------
(* Safety *)

Bindings ==
  (UNION {d.bindings : d \in CollectorDirs}) \cup (UNION {ServiceBindings(d) : d \in ServiceDirs})

Results == Bindings \X Kinds

TypeOK ==
  /\ shutdown \in BOOLEAN
  /\ loop \in {"idle", "collectors", "services", "collect", "post", "signals", "stopped"}
  /\ interval \in {Configured} \cup (Wishes \ {0})
  /\ collectorsDir \in CollectorDirs
  /\ servicesDir \in ServiceDirs
  /\ {expanded, sentCards} \subseteq ServiceDirs \cup {NoServices}
  /\ bindings \subseteq Bindings
  /\ running \subseteq bindings
  /\ found \subseteq answered /\ answered \subseteq Results
  /\ \A v \in out : v.from \subseteq {b.id : b \in Bindings}
  /\ outcome \in {"none", "failed", "accepted", "unencodable"}
  /\ {desired, wish} \subseteq Wishes \cup {0}

\* The map that is marshalled and posted has no goroutine left that may write to it,
\* however the probes and the deadlines fell (Run's WaitGroup).
PayloadIsSettled == loop \in {"post", "signals"} => running = {} /\ found = {}

Answers(key) == {f \in answered : f[1].key = key}

\* A key is in the payload exactly if a binding for it was answered, with one value;
\* and where all its answers are typed signals, the value has every one of them, in
\* whatever order the goroutines came to the mutex (mergeBindingValue, #49).
NothingLost ==
  loop = "post" =>
    /\ {v.key : v \in out} = {f[1].key : f \in answered}
    /\ \A v, w \in out : v.key = w.key => v = w
    /\ \A v \in out :
         (\A f \in Answers(v.key) : f[2] = "signals") => v.from = {f[1].id : f \in Answers(v.key)}

\* The cards of a beat refer to metrics that the same beat has probed, key by key,
\* provided that services.d was the same at both readings and could be expanded
\* (LoadServiceSummaries mirrors expandService).
CardsHaveProbes ==
  loop = "post" /\ sentCards = expanded /\ AllExpand(expanded) =>
    UNION {c.refs : c \in cards} \subseteq {b.key : b \in bindings}

\* docs/en/collectors.md 505: a pathological probe never blocks the heartbeat.
NeverSilenced == outcome # "unencodable"

-----------------------------------------------------------------------------
(* Liveness *)

\* What waits for a connection returns when its context ends; every POST has the client's
\* timeout; and select does not pass over a ready case for ever.  Nothing makes a command
\* return.
Fairness == WF_vars(Loop) /\ WF_vars(RequestReturns) /\ SF_vars(Stop)

FairSpec == Spec /\ Fairness

\* No command is waited for without end.
CommandsReturn == \A b \in Bindings : b.command => []<>(b \notin running)

\* As long as the process is not told to stop, one payload follows another, whatever the
\* directories and ICLIC do and however the probes end, if only their commands let go of
\* their output: wg.Wait has no deadline of its own (runner.go 57).
BeatsGoOn == CommandsReturn => []<>(loop = "post" \/ shutdown)

\* SIGTERM ends the process, in the middle of a beat when the commands of that beat return.
ShutdownStops == CommandsReturn => (shutdown ~> loop = "stopped")

\* The ticker ends up with the interval that ICLIC settles on, also when that is the
\* configured one again, as long as such a reply comes through now and then.
CadenceFollows ==
  \A w \in Wishes \ {0} :
    <>[](wish = w) /\ []<>(loop = "signals" /\ desired = w) => <>[](interval = w)
=============================================================================
