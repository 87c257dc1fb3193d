------------------------------ MODULE AgentProofs ------------------------------
(***************************************************************************)
(* Proofs about the agent's process in Agent: two agents never run side by *)
(* side on a lock file that can be opened, and a question on the command   *)
(* line never becomes an agent.  What makes the first true is that a       *)
(* process past the lock holds the flock through a file that a global      *)
(* keeps from the garbage collector.                                       *)
(***************************************************************************)
EXTENDS Agent, TLAPS

Places == {"down", "args", "open", "flock", "load", "running"}
Codes == {0, 2, 3, 4, 137}

\* The types of what the process is made of.
ProcessTypes ==
  /\ host \in Hosts
  /\ at \in [Processes -> Places]
  /\ argv \in [Processes -> Argv]
  /\ code \in [Processes -> Codes]

\* A lock file on which the lock is not taken by all: it cannot be made, or not be opened
\* by the service user.
Unlockable == lockFile \in {"no_directory", "root"}

\* Past the lock, a process holds it for as long as it lives.
Locked == \A p \in Processes :
  at[p] \in {"load", "running"} => (holder = p /\ p \in kept) \/ Unlockable

ProcessInv ==
  /\ ProcessTypes
  /\ argv[Unit] = "none"
  /\ Locked
  /\ QuestionsEnd

\* The unit is a process, and nobody is none.
LEMMA ProcessNames ==
  /\ Unit \in Processes /\ Unit \notin Manual
  /\ Nobody \notin Processes
  /\ Manual \subseteq Processes
BY ProcessAssumption DEF Processes

\* Every process is down at first.
LEMMA InitProcess == Init => ProcessInv
BY ProcessNames DEF Init, ProcessInit, ProcessInv, ProcessTypes, Places, Codes, Argv, Locked, QuestionsEnd

\* An end of a process is one kind of step: it leaves the others and the file as they are.
LEMMA ExitKeeps ==
  ASSUME ProcessInv, NEW p \in Processes, NEW c \in Codes, Exit(p, c),
         UNCHANGED <<host, argv, lockFile>>,
         argv[p] = "verify-release" /\ c = 0 => Authentic(host.release)
  PROVE  ProcessInv'
<1>1. ProcessTypes'
  BY DEF ProcessInv, ProcessTypes, Exit, Places
<1>2. (argv[Unit] = "none")'
  BY DEF ProcessInv
<1>3. Locked'
  BY ProcessNames DEF ProcessInv, ProcessTypes, Locked, Exit, Unlockable
<1>4. QuestionsEnd'
  BY DEF ProcessInv, ProcessTypes, QuestionsEnd, Exit, Authentic
<1> QED
  BY <1>1, <1>2, <1>3, <1>4 DEF ProcessInv

\* A start, by systemd or by hand.
LEMMA LaunchKeeps == ASSUME ProcessInv, LaunchProcess PROVE ProcessInv'
<1>1. CASE StartUnit
  BY <1>1, ProcessNames DEF LaunchProcess, StartUnit, ProcessInv, ProcessTypes, Places, Locked,
    Unlockable, QuestionsEnd, Authentic
<1>2. ASSUME NEW p \in Manual, StartManual(p) PROVE ProcessInv'
  <2>1. p \in Processes /\ p # Unit
    BY ProcessNames
  <2>2. \A a \in host.argv : a \in Argv
    BY HostsAssumption DEF ProcessInv, ProcessTypes
  <2>3. UNCHANGED host
    BY DEF LaunchProcess
  <2>4. ProcessTypes'
    BY <1>2, <2>1, <2>2, <2>3 DEF StartManual, ProcessInv, ProcessTypes, Places
  <2>5. (argv[Unit] = "none")'
    BY <1>2, <2>1, ProcessNames DEF StartManual, ProcessInv, ProcessTypes
  <2>6. Locked'
    BY <1>2, <2>1 DEF StartManual, ProcessInv, ProcessTypes, Locked, Unlockable
  <2>7. QuestionsEnd'
    BY <1>2, <2>1, <2>3 DEF StartManual, ProcessInv, ProcessTypes, QuestionsEnd, Authentic
  <2> QED
    BY <2>4, <2>5, <2>6, <2>7 DEF ProcessInv
<1> QED
  BY <1>1, <1>2 DEF LaunchProcess

\* A step of main() before the beats.
LEMMA BootKeeps == ASSUME ProcessInv, NEW p \in Processes, BootProcess(p) PROVE ProcessInv'
<1> USE DEF BootProcess
<1>1. CASE HandleCLIArgs(p)
  <2>1. argv[p] \in Argv
    BY DEF ProcessInv, ProcessTypes
  <2>2. CASE argv[p] = "none"
    BY <1>1, <2>2 DEF HandleCLIArgs, ProcessInv, ProcessTypes, Places, Locked, Unlockable,
      QuestionsEnd, Authentic
  <2>3. CASE argv[p] = "version"
    BY <1>1, <2>3, ExitKeeps DEF HandleCLIArgs, Codes
  <2>4. CASE argv[p] = "unknown"
    BY <1>1, <2>4, ExitKeeps DEF HandleCLIArgs, Codes
  <2>5. CASE argv[p] = "verify-release"
    <3>1. VerifyExit(host.release) \in Codes
      BY DEF VerifyExit, Codes
    <3>2. VerifyExit(host.release) = 0 => Authentic(host.release)
      <4>1. host.release \in Releases
        BY HostsAssumption DEF ProcessInv, ProcessTypes
      <4> QED
        BY <4>1 DEF VerifyExit, Verify, Authentic, Releases
    <3>3. Exit(p, VerifyExit(host.release))
      BY <1>1, <2>5 DEF HandleCLIArgs
    <3> QED
      BY <1>1, <3>1, <3>2, <3>3, ExitKeeps DEF HandleCLIArgs
  <2> QED
    BY <2>1, <2>2, <2>3, <2>4, <2>5 DEF Argv
<1>2. CASE OpenLock(p)
  <2>1. argv[p] = "none"
    BY <1>2 DEF OpenLock, ProcessInv, QuestionsEnd
  <2>2. at'[p] = "load" => Unlockable'
    BY <1>2 DEF OpenLock, CanOpen, Unlockable, ProcessInv, ProcessTypes
  <2>3. Unlockable => Unlockable'
    BY <1>2 DEF OpenLock, Unlockable
  <2>4. Locked'
    BY <1>2, <2>2, <2>3 DEF OpenLock, ProcessInv, ProcessTypes, Locked
  <2> QED
    BY <1>2, <2>1, <2>4 DEF OpenLock, ProcessInv, ProcessTypes, Places, QuestionsEnd, Authentic
<1>3. CASE Flock(p)
  <2>1. argv[p] = "none"
    BY <1>3 DEF Flock, ProcessInv, QuestionsEnd
  <2>2. CASE holder = Nobody
    <3>1. Locked'
      BY <1>3, <2>2, ProcessNames DEF Flock, ProcessInv, ProcessTypes, Locked, Unlockable
    <3> QED
      BY <1>3, <2>1, <2>2, <3>1 DEF Flock, ProcessInv, ProcessTypes, Places, QuestionsEnd, Authentic
  <2>3. CASE holder # Nobody
    BY <1>3, <2>1, <2>3, ExitKeeps DEF Flock, Codes
  <2> QED
    BY <2>2, <2>3
<1>4. CASE LoadConfig(p)
  <2>1. argv[p] = "none"
    BY <1>4 DEF LoadConfig, ProcessInv, QuestionsEnd
  <2>2. CASE Loads(p)
    BY <1>4, <2>1, <2>2 DEF LoadConfig, ProcessInv, ProcessTypes, Places, Locked, Unlockable,
      QuestionsEnd, Authentic
  <2>3. CASE ~Loads(p)
    BY <1>4, <2>1, <2>3, ExitKeeps DEF LoadConfig, Codes
  <2> QED
    BY <2>2, <2>3
<1> QED
  BY <1>1, <1>2, <1>3, <1>4 DEF Boot

\* The other steps that look at the process.
LEMMA OtherProcessSteps ==
  ASSUME ProcessInv, KillProcess \/ StopProcess \/ EditProcessConfig \/ Collect
  PROVE  ProcessInv'
<1>1. ASSUME NEW p \in Processes, Kill(p), UNCHANGED host PROVE ProcessInv'
  <2>1. argv[p] = "none"
    BY <1>1 DEF Kill, ProcessInv, QuestionsEnd
  <2> QED
    BY <1>1, <2>1, ExitKeeps DEF Kill, Codes
<1>2. CASE StopProcess
  <2>1. CASE Tell
    BY <1>2, <2>1 DEF StopProcess, Tell, ProcessInv, ProcessTypes, Locked, Unlockable, QuestionsEnd,
      Authentic
  <2>2. CASE Obey
    <3>1. argv[Unit] # "verify-release"
      BY DEF ProcessInv
    <3> QED
      BY <1>2, <2>2, <3>1, ExitKeeps, ProcessNames DEF StopProcess, Obey, Codes
  <2> QED
    BY <1>2, <2>1, <2>2 DEF StopProcess
<1>3. CASE EditProcessConfig
  BY <1>3 DEF EditProcessConfig, EditConfig, ProcessInv, ProcessTypes, Locked, Unlockable,
    QuestionsEnd, Authentic
<1>4. ASSUME NEW p \in Processes, CollectGarbage(p), UNCHANGED host PROVE ProcessInv'
  BY <1>4 DEF CollectGarbage, ProcessInv, ProcessTypes, Locked, Unlockable, QuestionsEnd, Authentic
<1> QED
  BY <1>1, <1>2, <1>3, <1>4 DEF KillProcess, Collect

\* The beats and the primitives leave the process alone.
LEMMA BeatsKeep ==
  ASSUME ProcessInv, UNCHANGED <<host, processVars>>
  PROVE  ProcessInv'
BY DEF processVars, ProcessInv, ProcessTypes, Locked, Unlockable, QuestionsEnd, Authentic

LEMMA NextProcess == ProcessInv /\ [Next]_vars => ProcessInv'
<1> SUFFICES ASSUME ProcessInv, [Next]_vars PROVE ProcessInv'
  OBVIOUS
<1>1. CASE LaunchProcess
  BY <1>1, LaunchKeeps
<1>2. CASE \E p \in Processes : BootProcess(p)
  BY <1>2, BootKeeps
<1>3. CASE KillProcess \/ StopProcess \/ EditProcessConfig \/ Collect
  BY <1>3, OtherProcessSteps
<1>4. CASE BeginsBeat \/ PassesTime \/ EndsBeat
  BY <1>4, BeatsKeep DEF BeginsBeat, PassesTime, EndsBeat
<1>5. CASE SnapshotNext \/ CpuNext \/ LiveNext
  BY <1>5, BeatsKeep DEF SnapshotNext, CpuNext, LiveNext
<1>6. CASE DockerNext \/ DockerCutOff \/ DockerAnswer
  BY <1>6, BeatsKeep DEF DockerNext, DockerCutOff, DockerAnswer
<1>7. CASE ProbeNext \/ ProbeCut \/ ProbeEnded
  BY <1>7, BeatsKeep DEF ProbeNext, ProbeCut, ProbeEnded
<1>8. CASE HostNext
  BY <1>8, BeatsKeep DEF HostNext
<1>9. CASE UNCHANGED vars
  BY <1>9, BeatsKeep DEF vars
<1> QED
  BY <1>1, <1>2, <1>3, <1>4, <1>5, <1>6, <1>7, <1>8, <1>9 DEF Next

\* The process invariant holds throughout.
THEOREM ProcessAlways == Spec => []ProcessInv
<1>1. Init => ProcessInv
  BY InitProcess
<1>2. ProcessInv /\ [Next]_vars => ProcessInv'
  BY NextProcess
<1> QED
  BY <1>1, <1>2, PTL DEF Spec

\* SingleInstance: two agents never run at once on one host, whatever is started by hand or
\* killed, unless the lock file cannot be opened by both (acquireSingleInstanceLock).
THEOREM OneAgent == Spec => []SingleInstance
<1>1. ProcessInv => SingleInstance
  BY DEF ProcessInv, Locked, Unlockable, SingleInstance
<1> QED
  BY <1>1, ProcessAlways, PTL

\* QuestionsEnd: a command line with an argument never becomes an agent, and verify-release
\* ends with 0 for an authentic release only (handleCLIArgs, runVerifyRelease).
THEOREM QuestionsAlwaysEnd == Spec => []QuestionsEnd
<1>1. ProcessInv => QuestionsEnd
  BY DEF ProcessInv
<1> QED
  BY <1>1, ProcessAlways, PTL

=============================================================================
