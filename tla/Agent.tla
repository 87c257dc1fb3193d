--------------------------------- MODULE Agent ---------------------------------
(***************************************************************************)
(* The agent's process with the beats it runs and the primitives that keep *)
(* state in it: the start and end of the process (AgentProcess), the calls *)
(* of a beat (Beat), and security.snapshot, CPU sampling, the Docker       *)
(* primitives and the timed probes, side by side in the same beats, under  *)
(* the same deadline, and all forgotten when the process dies.             *)
(*                                                                         *)
(* A host is a scenario: the lock file, command lines and configuration    *)
(* that a process may meet there, the bindings of its collectors.d, its    *)
(* services and its sources of security events.                            *)
(***************************************************************************)
EXTENDS SecuritySnapshot, CpuSample, DockerProbes, TimedProbes

CONSTANT Hosts   \* the scenarios

\* A binding has one primitive; a command line is one of those the agent tells apart; services,
\* devices and the lines of a log are what their modules say.
ASSUME GroupsAssumption ==
  /\ SnapshotBindings \cap (CpuBindings \cup DockerBindings \cup ProbeBindings) = {}
  /\ CpuBindings \cap (DockerBindings \cup ProbeBindings) = {}
  /\ DockerBindings \cap ProbeBindings = {}
ASSUME HostsAssumption ==
  \A h \in Hosts :
    /\ h.argv \subseteq Argv /\ h.release \in Releases
    /\ DOMAIN h.services \subseteq Items /\ h.devices \subseteq Devices
    /\ h.log.lines \in Seq(Line) /\ h.log.since \in Int /\ h.log.cap \in Nat

primitiveVars == <<snapshotVars, cpuVars, dockerVars, probeVars>>
vars == <<host, processVars, beatVars, primitiveVars>>

Init ==
  /\ host \in Hosts
  /\ ProcessInit /\ BeatInit
  /\ SnapshotInit /\ CpuInit /\ DockerInit /\ ProbeInit

-----------------------------------------------------------------------------
(* The process *)

\* What the variables of the process are worth when it has died: those of the kernel and
\* what its predecessor answered stay.
Forget ==
  /\ NewBeats
  /\ cacheAt' = Never /\ cache' = Nothing /\ UNCHANGED scan
  /\ prev' = [o \in DOMAIN prev |-> NoReading] /\ UNCHANGED <<ticks, taken, shown>>
  /\ client' = [s \in Sockets |-> NoClient] /\ made' = {}
  /\ pc' = [g \in Goroutines |-> "off"] /\ UNCHANGED <<items, asks, got, rows>>
  /\ UNCHANGED probeVars

Living == UNCHANGED <<beatVars, primitiveVars>>

BootProcess(p) == Boot(p) /\ Living /\ UNCHANGED host

LaunchProcess ==
  /\ StartUnit \/ (host.argv # {} /\ \E p \in Manual : StartManual(p))
  /\ Living /\ UNCHANGED host

KillProcess ==
  /\ "kill" \in host.events
  /\ \E p \in Processes : Kill(p) /\ IF p = Unit THEN Forget ELSE Living
  /\ UNCHANGED host

\* The signal; the loop looks at it when its beat is over.
StopProcess ==
  /\ "stop" \in host.events
  /\ Tell \/ (~Beating /\ Obey)
  /\ Living /\ UNCHANGED host

EditProcessConfig == EditConfig /\ Living /\ UNCHANGED host

Collect == (\E p \in Processes : CollectGarbage(p)) /\ Living /\ UNCHANGED host

-----------------------------------------------------------------------------
(* The beats *)

BeginsBeat == BeginBeat /\ UNCHANGED <<host, processVars, primitiveVars>>
PassesTime == PassTime /\ UNCHANGED <<host, processVars, primitiveVars>>
EndsBeat == EndBeat /\ UNCHANGED <<host, processVars, primitiveVars>>

SnapshotNext ==
  /\ \E b \in SnapshotBindings : SnapshotStep(b)
  /\ UNCHANGED <<host, processVars, cpuVars, dockerVars, probeVars>>

CpuNext ==
  /\ \E b \in CpuBindings : ReadCpu(b) \/ CommitCpu(b)
  /\ UNCHANGED <<host, processVars, snapshotVars, dockerVars, probeVars>>

LiveNext ==
  /\ at[Unit] = "running"
  /\ \E s \in Streams \cap host.live : StartLive(s) \/ SampleLive(s)
  /\ UNCHANGED <<host, processVars, snapshotVars, dockerVars, probeVars>>

DockerNext == DockerStep /\ UNCHANGED <<host, processVars, snapshotVars, cpuVars, probeVars>>
DockerCutOff == CutOff /\ UNCHANGED <<host, processVars, snapshotVars, cpuVars, probeVars>>
DockerAnswer == Answer /\ UNCHANGED <<host, processVars, snapshotVars, cpuVars, probeVars>>

ProbeNext ==
  /\ \E b \in ProbeBindings : CallProbe(b) \/ SecondSample(b)
  /\ UNCHANGED <<host, processVars, snapshotVars, cpuVars, dockerVars>>
ProbeCut ==
  /\ \E b \in ProbeBindings : Cut(b)
  /\ UNCHANGED <<host, processVars, snapshotVars, cpuVars, dockerVars>>
ProbeEnded ==
  /\ \E b \in ProbeBindings : Ended(b)
  /\ UNCHANGED <<host, processVars, snapshotVars, cpuVars, dockerVars>>

\* What the host does under the agent, where a primitive of this scenario looks at it.
HostNext ==
  /\ \/ (host.live # {} \/ host.bound \cap CpuBindings # {}) /\ (Work \/ TakeBack)
        /\ UNCHANGED probeVars
     \/ (DoIO \/ Plug)
        /\ UNCHANGED cpuVars
  /\ UNCHANGED <<host, processVars, beatVars, snapshotVars, dockerVars>>

Next ==
  \/ LaunchProcess \/ (\E p \in Processes : BootProcess(p))
  \/ KillProcess \/ StopProcess \/ EditProcessConfig \/ Collect
  \/ BeginsBeat \/ PassesTime \/ EndsBeat
  \/ SnapshotNext \/ CpuNext \/ LiveNext
  \/ DockerNext \/ DockerCutOff \/ DockerAnswer
  \/ ProbeNext \/ ProbeCut \/ ProbeEnded
  \/ HostNext

\* The binding waits for a command.
AtCommand(b) ==
  \/ b \in SnapshotBindings /\ stage[b] \in ByCommand
  \/ b \in ProbeBindings /\ Probe[b] \in Commands /\ stage[b] = "waiting"
  \/ b \in DockerBindings /\ \E g \in Of(b) : AtExec(g)

\* What goes on without the help of a command: reading files, and the end of the context,
\* which ends requests, connections and sleeps.
SnapshotGoesOn == SnapshotNext /\ \E b \in SnapshotBindings : stage[b] # stage'[b] /\ ~AtCommand(b)
ProbeEnds == ProbeCut /\ \E b \in ProbeBindings : stage[b] # stage'[b] /\ ~AtCommand(b)
RequestEnds == DockerCutOff /\ \A g \in Goroutines : AtExec(g) => pc'[g] = pc[g]

\* systemd restarts the unit and its process goes through main(); time passes; goroutines
\* run; and a context that is done ends what waits under it, but for commands.  Nothing makes
\* what is on the other end answer, nor an operator or the kernel do anything.
Fairness ==
  /\ WF_vars(StartUnit /\ Living /\ UNCHANGED host) /\ WF_vars(BootProcess(Unit))
  /\ WF_vars(PassesTime) /\ WF_vars(EndsBeat)
  /\ WF_vars(SnapshotGoesOn) /\ WF_vars(CpuNext)
  /\ WF_vars(DockerNext) /\ WF_vars(RequestEnds)
  /\ WF_vars(ProbeNext) /\ WF_vars(ProbeEnds)

Spec == Init /\ [][Next]_vars /\ Fairness

-----------------------------------------------------------------------------
(* Properties of the process *)

\* Two agents never beat on one host, however they were started and killed, unless the
\* lock file cannot be opened: no state directory, or a file that root made first.
SingleInstance ==
  \A p, q \in Processes :
    at[p] = "running" /\ at[q] = "running" /\ p # q => lockFile \in {"no_directory", "root"}

\* A question on the command line never becomes an agent, and verify-release is content
\* with nothing but an authentic release.
QuestionsEnd ==
  \A p \in Processes :
    argv[p] # "none" =>
      /\ at[p] \in {"down", "args"}
      /\ argv[p] = "verify-release" /\ at[p] = "down" /\ code[p] = 0 => Authentic(host.release)

\* Once nobody else holds the lock for good and config.json stays valid, the unit beats
\* again, unless systemd was told to stop it: a start that found another agent, or a bad
\* configuration, is not its last.
UnitComesBack ==
  /\ <>[](\A p \in Manual : at[p] = "down")
  /\ <>[](file = "whole")
  => []<>(at[Unit] = "running" \/ told)

\* No command is waited for without end.
CommandsReturn == \A b \in Bindings : []<>~AtCommand(b)

\* Every beat ends, however many of its requests, connections and sockets hang at the other
\* end, if only its commands let go of their output: wg.Wait has no deadline of its own
\* (runner.go 57).
BeatsEnd == CommandsReturn => (Beating ~> ~Beating)

=============================================================================
