------------------------------- MODULE SelfUpdate -------------------------------
(***************************************************************************)
(* The nightly self-update of an enrolled host, which three parties share  *)
(* without a lock: the unprivileged agent, whose accepted heartbeats leave *)
(* a line in the journal and ICLIC's wish in the desired-version file; the *)
(* root updater, which reads that file, runs install.sh in strict mode,    *)
(* waits for a heartbeat in the journal and otherwise rolls back; and      *)
(* systemd, which restarts a failed agent from wherever the symlink points *)
(* at that moment.  The host may lose power at any point.                  *)
(*                                                                         *)
(* Clocks are left out: the window of the health gate may close at any     *)
(* time after the agent has had one attempt at a heartbeat.                *)
(*                                                                         *)
(* Operators called a mutant are plausible slips in the definition after   *)
(* them; no action uses them.                                              *)
(***************************************************************************)
EXTENDS Installer

CONSTANTS
  Accepted,       \* the releases whose heartbeats ICLIC accepts
  Ring,           \* the directives an operator may set in ICLIC
  MaxPowerLosses  \* bound on the power losses of a behaviour

ASSUME AcceptedAreVersions == Accepted \subseteq Versions
ASSUME PowerLossesAreCounted == MaxPowerLosses \in Nat

VARIABLES
  asked,          \* the directive in ICLIC's replies, None for no directive
  phase,          \* where the agent is in one SendOnce, "down" without a process
  got,            \* the directive in the reply it is handling
  tmp,            \* desired-version.tmp, as long as the agent is writing it
  desiredFile,    \* desired-version
  pc,             \* the updater
  desired,        \* its variable of that name
  prev,           \* prev_bin
  journal,        \* the versions with an accepted heartbeat since upgrade_start
  outcome,        \* how its last run ended
  losses          \* power losses so far

ASSUME RingIsKnown == Ring \subseteq Versions \cup {Latest, None}

Absent == NVersions + 2
Torn == NVersions + 3      \* the file is there, its content is not, or not all
Directives == Versions \cup {Latest, None}

disk == <<bin, link, config, collectors, units_, foreign>>
files == <<tmp, desiredFile>>
agent == <<running, phase, got, files>>
updater == <<pc, desired, prev, outcome>>
script == <<step, session, rc, blind>>

vars == <<installerVars, asked, phase, got, files, updater, journal, losses>>

\* PROFILES is not set, and the script is the copy kept for the updater.
UpdaterRun(v) == [strict |-> TRUE, version |-> v, profiles |-> {}, token |-> FALSE,
                  from |-> "copy"]

\* The host has been enrolled with release 1, by a script on disk or a piped one.
UpdateInit ==
  /\ InitWorld
  /\ bin = [v \in Versions |-> IF v = 1 THEN "whole" ELSE "absent"]
  /\ link = 1
  /\ config = "ready"
  /\ collectors = [p \in Profiles |-> IF p \in DefaultProfiles THEN 1 ELSE None]
  /\ units = [agent |-> 1, updater |-> 1]
  /\ installSh \in BOOLEAN
  /\ timer = TRUE
  /\ enabled = TRUE
  /\ running = 1
  /\ asked = None
  /\ phase = "starting"
  /\ got = None
  /\ tmp = Absent
  /\ desiredFile = Absent
  /\ pc = "idle"
  /\ desired = None
  /\ prev = None
  /\ journal = {}
  /\ outcome = "none"
  /\ losses = 0

-----------------------------------------------------------------------------
(* ICLIC, GitHub *)

Ask(d) ==
  /\ asked' = d
  /\ UNCHANGED <<script, disk, agent, updater, world, journal, losses>>

NewRelease ==
  /\ Publish
  /\ UNCHANGED <<asked, phase, got, files, updater, journal, losses>>

-----------------------------------------------------------------------------
(* The agent: SendOnce and recordDesiredVersion *)

AgentStep == UNCHANGED <<script, disk, world, asked, updater, losses>>

\* A fresh process, or none when it cannot start.  A tmp file that the last one left is
\* forgotten: nothing reads it, and os.WriteFile empties it before it is written again.
Fresh ==
  /\ phase' = (IF running' = None THEN "down" ELSE "starting")
  /\ got' = None
  /\ tmp' = Absent

\* A line "heartbeat accepted" in the unit's journal.
Logged == IF pc \in {"apply", "gate"} THEN journal \cup {running} ELSE journal

\* Mutant of Reply: the directive is written only when there is no file yet.
ReplyWritesOnce ==
  /\ phase \in {"starting", "waiting"}
  /\ running \in Accepted
  /\ got' = asked
  /\ phase' = IF asked = None \/ desiredFile # Absent THEN "posting" ELSE "writing"
  /\ AgentStep
  /\ UNCHANGED <<running, files, journal>>

\* The reply was accepted; an empty directive and one already on file are not written.
Reply ==
  /\ phase \in {"starting", "waiting"}
  /\ running \in Accepted
  /\ got' = asked
  /\ phase' = IF asked \in {None, desiredFile} THEN "posting" ELSE "writing"
  /\ AgentStep
  /\ UNCHANGED <<running, files, journal>>

\* ICLIC cannot be reached or answers 4xx or 5xx: until the next tick.
Rejected ==
  /\ phase = "starting"
  /\ phase' = "waiting"
  /\ AgentStep
  /\ UNCHANGED <<running, got, files, journal>>

\* os.WriteFile creates or empties the file beside desired-version, then fills it.
OpenTmp ==
  /\ phase = "writing"
  /\ tmp' = Torn
  /\ phase' = "filling"
  /\ AgentStep
  /\ UNCHANGED <<running, got, desiredFile, journal>>

\* Mutant of FillTmp: the error of the write is dropped.
FillTmpUnchecked ==
  /\ phase = "filling"
  /\ tmp' \in {tmp, got}
  /\ phase' = "renaming"
  /\ AgentStep
  /\ UNCHANGED <<running, got, desiredFile, journal>>

FillTmp ==
  /\ phase = "filling"
  /\ tmp' = got
  /\ phase' = "renaming"
  /\ AgentStep
  /\ UNCHANGED <<running, got, desiredFile, journal>>

Rename ==
  /\ phase = "renaming"
  /\ desiredFile' = tmp
  /\ tmp' = Absent
  /\ phase' = "posting"
  /\ AgentStep
  /\ UNCHANGED <<running, got, journal>>

\* The file is not opened, not filled or not renamed: the heartbeat goes on without it.
RecordFails ==
  /\ phase \in {"writing", "filling", "renaming"}
  /\ tmp' = Absent
  /\ phase' = "posting"
  /\ AgentStep
  /\ UNCHANGED <<running, got, desiredFile, journal>>

\* The runtime signals are out, then the heartbeat is logged.
LogAccepted ==
  /\ phase = "posting"
  /\ phase' = "waiting"
  /\ got' = None
  /\ journal' = Logged
  /\ AgentStep
  /\ UNCHANGED <<running, files>>

\* The process fails: the memory limit, a bug of this release.
Crash ==
  /\ running # None
  /\ running' = None
  /\ Fresh
  /\ AgentStep
  /\ UNCHANGED <<desiredFile, journal>>

\* Restart=on-failure: systemd starts whatever the symlink points at by now.
Respawn ==
  /\ running = None
  /\ enabled
  /\ Launched # None
  /\ running' = Launched
  /\ Fresh
  /\ AgentStep
  /\ UNCHANGED <<desiredFile, journal>>

Agent == Reply \/ Rejected \/ OpenTmp \/ FillTmp \/ Rename \/ RecordFails \/ LogAccepted
         \/ Crash \/ Respawn

-----------------------------------------------------------------------------
(* The updater *)

UpdaterStep == UNCHANGED <<world, asked, desiredFile, losses>>

Finish(how) == pc' = "idle" /\ outcome' = how

\* At night: what the run of the night before has installed is on disk by now.
TimerFires ==
  /\ pc = "idle"
  /\ timer
  /\ Dirty = {}
  /\ desiredFile # Absent
  /\ desired' = desiredFile
  /\ pc' = IF desiredFile = Latest THEN "resolve" ELSE "compare"
  /\ outcome' = "none"
  /\ prev' = None
  /\ journal' = {}
  /\ UpdaterStep
  /\ UNCHANGED <<script, disk, agent>>

\* 'latest' becomes a concrete tag here, once, for the comparison and the pin.
ResolveLatest ==
  /\ pc = "resolve"
  /\ desired' = newest
  /\ pc' = "compare"
  /\ UpdaterStep
  /\ UNCHANGED <<script, disk, agent, prev, journal, outcome>>

CannotResolve ==
  /\ pc = "resolve"
  /\ Finish("skipped")
  /\ UpdaterStep
  /\ UNCHANGED <<script, disk, agent, desired, prev, journal>>

\* Mutant of AlreadyThere: the comparison is left out.
NeverThere == FALSE

AlreadyThere == desired = link

NothingToDo ==
  /\ pc = "compare"
  /\ AlreadyThere \/ ~installSh
  /\ Finish(IF AlreadyThere THEN "same" ELSE "no installer")
  /\ prev' = link
  /\ UpdaterStep
  /\ UNCHANGED <<script, disk, agent, desired, journal>>

\* Mutant of Apply: the version in use is not noted before the installer starts.
ApplyForgetsCurrent ==
  /\ pc = "compare"
  /\ ~AlreadyThere
  /\ installSh
  /\ journal' = {}
  /\ Start(UpdaterRun(desired))
  /\ pc' = "apply"
  /\ UNCHANGED <<asked, phase, got, files, desired, prev, outcome, losses>>

\* upgrade_start is taken, and then the installer runs with the pinned tag.
Apply ==
  /\ pc = "compare"
  /\ ~AlreadyThere
  /\ installSh
  /\ prev' = link
  /\ journal' = {}
  /\ Start(UpdaterRun(desired))
  /\ pc' = "apply"
  /\ UNCHANGED <<asked, phase, got, files, desired, outcome, losses>>

\* A step of install.sh.  Its restart of the agent replaces the process; one that
\* is about to log an accepted heartbeat may still do so on its way out.
RunScript ==
  /\ pc = "apply"
  /\ Script
  /\ \/ /\ step = "activate"
        /\ running' = Launched
        /\ Fresh
        /\ journal' \in {journal} \cup (IF phase = "posting" THEN {Logged} ELSE {})
     \/ /\ step = "activate" => rc' = "failed" /\ UNCHANGED running
        /\ UNCHANGED <<phase, got, tmp, journal>>
  /\ UNCHANGED <<asked, desiredFile, updater, losses>>

Installed ==
  /\ pc = "apply"
  /\ step = "idle"
  /\ rc = "ok"
  /\ pc' = "gate"
  /\ UpdaterStep
  /\ UNCHANGED <<script, disk, agent, desired, prev, journal, outcome>>

InstallerFailed ==
  /\ pc = "apply"
  /\ step = "idle"
  /\ rc = "failed"
  /\ Finish("left in place")
  /\ UpdaterStep
  /\ UNCHANGED <<script, disk, agent, desired, prev, journal>>

\* Mutant of Healthy: the unit being active is enough.
HealthyWhenActive == running # None

\* systemctl is-active, and the journal has an accepted heartbeat.
Healthy == running # None /\ journal # {}

GatePasses ==
  /\ pc = "gate"
  /\ Healthy
  /\ Finish("healthy")
  /\ UpdaterStep
  /\ UNCHANGED <<script, disk, agent, desired, prev, journal>>

\* Mutant of GateTimesOut: the deadline is pushed on by every poll.
GateWaitsOn == pc = "gate" /\ FALSE /\ UNCHANGED vars

\* The window closes.  It is long enough for the first attempt of the new process.
GateTimesOut ==
  /\ pc = "gate"
  /\ phase # "starting"
  /\ pc' = "rollback"
  /\ UpdaterStep
  /\ UNCHANGED <<script, disk, agent, desired, prev, journal, outcome>>

\* prev was in use before the run, so its file is there and has its mode: the branch for
\* a host without a previous binary is never taken.  `-x` does not see whether the file is
\* one that a power loss has emptied.
RollbackLink ==
  /\ pc = "rollback"
  /\ prev \in Versions /\ bin[prev] # "absent"
  /\ link' = prev
  /\ pc' = "restart"
  /\ UpdaterStep
  /\ UNCHANGED <<script, bin, config, collectors, units_, foreign, agent, desired, prev,
                 journal, outcome>>

RollbackRestart ==
  /\ pc = "restart"
  /\ running' = Launched
  /\ Fresh
  /\ Finish("rolled back")
  /\ UpdaterStep
  /\ UNCHANGED <<script, disk, desired, prev, journal>>

Updater ==
  \/ TimerFires \/ ResolveLatest \/ CannotResolve \/ NothingToDo \/ Apply \/ RunScript
  \/ Installed \/ InstallerFailed \/ GatePasses \/ GateTimesOut \/ RollbackLink
  \/ RollbackRestart

\* The kernel writes back what the installer has left.
Flush ==
  /\ WriteBack
  /\ UNCHANGED <<asked, phase, got, files, updater, journal, losses>>

\* Nothing of a run in progress survives.  desired-version may come back empty, however
\* long ago it was renamed; the updater takes that for no file.
HostDown ==
  /\ losses < MaxPowerLosses
  /\ losses' = losses + 1
  /\ PowerLoss
  /\ Fresh
  /\ pc' = "idle"
  /\ outcome' = IF pc = "idle" THEN outcome ELSE "cut short"
  /\ desiredFile' \in {desiredFile, Absent}
  /\ UNCHANGED <<asked, desired, prev, journal>>

UpdateNext ==
  \/ \E d \in Ring : Ask(d)
  \/ NewRelease
  \/ Agent
  \/ Updater
  \/ Flush
  \/ HostDown

UpdateSpec == UpdateInit /\ [][UpdateNext]_vars

-----------------------------------------------------------------------------
(* Safety *)

AgentAndUpdaterTypeOK ==
  /\ asked \in Directives
  /\ phase \in {"down", "starting", "waiting", "writing", "filling", "renaming",
               "posting"}
  /\ got \in Directives
  /\ tmp \in Versions \cup {Latest, Absent, Torn}
  /\ desiredFile \in Versions \cup {Latest, Absent, Torn}
  /\ pc \in {"idle", "resolve", "compare", "apply", "gate", "rollback", "restart"}
  /\ desired \in Versions \cup {None, Latest, Torn}
  /\ prev \in Versions \cup {None}
  /\ journal \subseteq Versions
  /\ outcome \in {"none", "skipped", "same", "no installer", "left in place", "healthy",
                 "rolled back", "cut short"}
  /\ losses \in Nat

UpdateTypeOK == TypeOK /\ AgentAndUpdaterTypeOK

\* The strict runs of the updater install nothing but what the release key signed,
\* whatever was altered, whichever verifier was at hand, across failed runs,
\* rollbacks to agents that cannot verify, and power losses (updater.sh 73-75).
StrictIsAuthentic == foreign = {} /\ ~blind

\* A trial lasts from the swap of the symlink to the end of the updater's run.
OnTrial == pc \in {"apply", "gate", "rollback"} /\ link # prev

\* systemd can start an agent at any moment: the symlink stops leading to a complete
\* binary in two ways only, a power loss before that binary is on disk (install.sh never
\* syncs) and a rollback to a binary that such a loss has emptied before.  The updater never
\* has the installer rewrite the version in use (updater.sh 59, install.sh 264-269), and the
\* one it would roll back to is on disk for as long as another is on trial.
AlwaysBootable ==
  [][/\ Executable(link) => \/ Executable(link)'
                            \/ HostDown /\ bin[link] = "fresh"
                            \/ RollbackLink /\ ~Executable(prev)
     /\ OnTrial /\ Executable(prev) => bin[prev] = "whole" /\ bin'[prev] = "whole"]_vars

\* What the updater logs at the end is how the host stands: "healthy" on the
\* version asked for with its unit file, "rolled back" on the version from before
\* the run, and in both cases no process of another version left over.
OutcomeHonest ==
  /\ outcome = "healthy" => link = desired /\ units.agent = desired /\ journal # {}
  /\ outcome = "rolled back" => link = prev
  /\ outcome \in {"healthy", "rolled back"} => running \in {None, link}

\* The root updater never sees a half-written directive of the agent it runs beside
\* or of one that died or failed writing, whatever is left in the file beside it
\* (recordDesiredVersion: only what was written to the end is renamed).
DirectiveIsWhole == desiredFile # Torn /\ desired # Torn

\* The host as GatedUpgrade sees it.
Gated == INSTANCE GatedUpgrade WITH
  Versions <- Versions, NoVersion <- None,
  installed <- link, fallback <- IF OnTrial THEN prev ELSE None

\* The installed version moves only by a trial of another version, and from a trial
\* only back to the one it replaced.
ImplementsGatedUpgrade == Gated!Spec

\* updater.sh 81-83: the heartbeat the gate saw came from the new binary.
GateMeansNewBinary == outcome = "healthy" => desired \in journal

\* updater.sh 76-77: when the installer fails, the current version is in place.
FailedInstallLeavesCurrent == outcome = "left in place" => link = prev

-----------------------------------------------------------------------------
(* Liveness *)

\* The scripts, systemd, the kernel and a live agent move on; the window of the gate closes
\* even if the agent dies again and again before its first attempt.
UpdateFairness ==
  WF_vars(Updater) /\ WF_vars(Agent) /\ WF_vars(Flush) /\ SF_vars(GateTimesOut)

FairUpdateSpec == UpdateSpec /\ UpdateFairness

\* Each nightly run comes to an end, so the next one can start.
RunsEnd == pc # "idle" ~> pc = "idle"

\* The version ICLIC wants when it wants one: for latest, the newest release.
Wanted == IF asked = Latest THEN newest ELSE asked

\* What may go wrong with the network, the disk, ICLIC, the process or the host.
Failure ==
  Rejected \/ RecordFails \/ Crash \/ CannotResolve \/ InstallerFailed \/ GateTimesOut
  \/ HostDown

\* A host follows its ring: once ICLIC settles on a release that exists and nothing
\* fails any more, the host ends up on that release and stays there, whatever
\* failures, rollbacks, power losses and changes of mind it has been through.  It
\* takes releases that ICLIC accepts, for an agent it rejects never learns of
\* another directive, a copy of install.sh, which a piped enrolment leaves out, and a
\* version in use that runs: one that a power loss has emptied learns of nothing.
FollowsItsRing ==
  \A v \in Versions :
    /\ installSh
    /\ <>[](Wanted = v /\ v <= newest)
    /\ <>[][~Failure]_vars
    /\ []<>Executable(link)
    => <>[](link = v)
=============================================================================
