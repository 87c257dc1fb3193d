# Verification of the ICLIC host agent

TLA+ models of the agent in this repository, model-checked with TLC and proved
about with TLAPS. Paths are relative to the repository.

## The system

| Part | State it keeps | Operations | Where it is hard | Correct if |
|---|---|---|---| --- |
| Control-channel allow-list, `internal/control/config.go` | none; a configuration per session | load and clamp `control.yaml`, merge the log sources of `services.d`, advertise verbs, check a verb | two files edited independently, defaults under ceilings, two lists (advertised, served) that must agree | limits stay under the hard ceilings, what is advertised is what is served, nothing is served that the operator did not open |
| Control channel, `internal/control/control.go` | connection, write mutex, registry of cancel functions, one goroutine and one command per request | dial, hello, read loop, spawn, cancel, stream, end | everything concurrent: jobs outlive sessions, one mutex for all writers, cancels and deadlines at any point, a peer that does not read | streams are well formed, one writer at a time, cancels and deadlines end a job and its command, an old session never touches a new one |
| Live metrics, `internal/control/metrics.go` | previous CPU sample of a stream | sample, delta | unsigned counters that wrap or go back | a share of the time since this stream's last sample |
| Main loop, `cmd/agent/main.go`, `installer/iclic-host-agent.service` | ticker, interval, lock file | command line, lock, tick, adopt the server's interval, stop | an interval from the network, starts by systemd and by hand at once, a lock that must not be collected | one agent per host, a question never becomes an agent, beats go on and follow the interval asked for |
| Configuration, `internal/config/config.go` | none | file, environment, validation | two sources of each setting | a process starts only with all settings |
| Heartbeat, `internal/heartbeat/heartbeat.go` | `desired-version` file | build payload, post, record version, post runtime signals | crash between write and rename, slow collectors, partial failures | what is posted is settled and complete, one bad part never costs the beat, the file is never half written |
| Collector runner, `internal/collectors/runner.go`, `loader.go` | result map | run bindings concurrently, merge | timeouts, duplicate keys | every answer is merged once, in any order, and the phase ends when its commands do |
| Service definitions, `internal/collectors/services.go` | none | load, expand into bindings, summarise, list log sources | one bad file among many, the directory read twice per beat | cards refer to probes, one definition never hides another |
| Primitives, `internal/collectors/primitives_*.go` | CPU sample, security snapshot, Docker clients | read the host, ask Docker and services, run commands | caches shared by concurrent bindings, one deadline for many requests, answers cut half way | a cached value is never older than its window, every item has a row, what is reported was there in full |
| Auto-updater, `installer/iclic-host-agent-updater.sh` | symlink `current`, `desired-version` | compare, install, wait for a heartbeat, roll back | crashes between swap and gate, evidence taken from the wrong binary | a host follows its ring, an agent can be started at every moment unless power fails before its binary is on disk, and each outcome logged is true |
| Installer, `installer/install.sh` | versioned binaries, symlink, units | verify, stage, swap, restart | failing after the swap | nothing altered is installed, the swap is to a whole binary, an enrolment is never lost |
| Release verification, `internal/release/verify.go` | none | verify a signature | many ways not to be able to | accepts exactly what the release key signed |
| Fleet rollout, `installer/deploy-all.sh` | lists of hosts done and failed | copy, install, clean up, host by host | remote commands share the loop's input | every host of the inventory has a result |

The main loop starts the control channel as a goroutine beside the heartbeat and
gives both the process context; they share nothing else. The heartbeat writes the
file that the updater reads; the updater runs the installer, which restarts the
agent; the agent's journal is what the updater takes as proof of health. The
allow-list takes log sources from the same `services.d` that the heartbeat expands
into metrics.

## Modules

`ControlConfig` and `ControlChannel` model the channel, `Installer` and `SelfUpdate` the update,
`Heartbeat` the main loop with what a beat posts, `Agent` the process with the primitives and
what they keep between beats, `Rollout` the fleet script. `RequestStream` and `GatedUpgrade` are
the abstract specifications that `ControlChannel` and `SelfUpdate` implement. The modules named
`MC...` are the TLC instances, those named `...Proofs` hold the theorems, and `Induction` the
two lemmas on which proofs about loops rest. An operator called a mutant in its comment is a
plausible slip in the definition after it, kept to show that the properties notice it; no action
uses one.

**`ControlConfig`** has no state: the operators of the allow-list. `Ceiling`,
`Contributes`, `MergeSource`, `Merge` (the loop over the services, a recursive function of the
round), `MergedSources` and `LoadControlConfig` are `loadControlConfig`;
`Advertised` is `verbs`, `JobAllowed` the check each job begins with, and `Answer`,
`LogsAnswer`, `TailLines`, `HasDeadline` and `LineLimited` say how a permitted
request is answered. A `control.yaml` is a record of its switches, numbers and
sources; a source keeps its type and whether the field it needs is filled in.

**`ControlConfigLoad`** runs one load as two steps, because the code reads
`control.yaml` and then `services.d` and the operator may edit either in between.
Each step meets any content of its file.

**`ControlChannel`** is the channel. `reader` is where the goroutine of
`RunControlChannel`/`connectOnce` stands; `gen` numbers the sessions, and `conn`,
`cfg`, `streams` and `writeMu` are functions of the session because goroutines of an
old session keep using its own. `pc`, `sess`, `id`, `req`, `cancelled`, `expired`,
`proc`, `seq`, `term` and `got` are functions of the job: where its goroutine is,
what it was asked, its two ways of being over, its command, its next sequence
number, the terminal frame it has decided on and the frames ICLIC has received.

| Code | Action |
|---|---|
| `RunControlChannel`, `connectOnce` | `Connect`, `DialFails`, `BackoffElapses`, `Stop`, `HelloSent`, `HelloFails`, `ReadFails` |
| `dispatch`, `handleReq`, `spawn`, `cancelStream` | `ReceiveRequest`, `ReceiveCancel`, `ReceiveInline` |
| `ping` and unknown verbs, written by the read loop | `ReplyLock`, `ReplyWritten` |
| early returns of the jobs | `Refuse`, `StartFails` |
| `streamCommand` | `Spawn`, `ScanLine`, `ScanEof`, `ScanTooLong`, `SendOk`, `SendFails` |
| `metricsLiveJob` | `StartMetrics`, `Tick`, `MetricsDone`, `SendOk`, `SendFails` |
| `write`, `bestEffort` | `Lock`, `TerminalWritten` |
| deferred `cancel` and `removeStream` | `Return` |
| `exec.CommandContext`, `context.WithTimeout` | `Kill`, `Expire` |
| the world | `Shutdown`, `ConnDrop`, `EditAllowList`, `Exit` |

The WebSocket library is external. A `Write` is delivered (`Delivers`), refused
without effect because its context was done (`Refuses`), or closes the connection,
with the frame received or not (`Breaks`); that is what the code relies on, and
what the library does when a context ends during a write. Deferred `cancel` and
`removeStream` are one step: in between, only a cancel of a job that is already
cancelled or a new request under the same id can happen, and both have the same
effect before the step. A bad frame changes nothing and is left out.

**`RequestStream`** is the abstract promise for one request: data frames numbered
from 0, then at most one terminal frame, then nothing. `ControlChannel` instantiates
it with `frames <- got` and implements it.

**`Installer`** is `install.sh` on one host, one run after another. `step` is where the
run is, `run` how it was started, `tag` and `work` are its variables; the rest is the
host: versioned binaries, symlink, `config.json`, collectors by profile, units, timer,
process. A download is abstracted to which assets came and which of them are not the
published bytes. A failing command ends the run where it stands (`set -e`), half way for
the commands that can, and so does a power loss.

The script never syncs. A binary or a `config.json` that was written to its end is `fresh` until
the kernel has written it back (`WriteBack`), then `whole` or `ready`; a power loss leaves an
empty file in the place of what was fresh, or not, for each file on its own. Names, modes and
the symlink are taken as surviving: they are in the journal of the file system. So is the
content of collectors, units and the copy of `install.sh`, about whose bytes no property speaks.

| Code (`install.sh`) | Action |
|---|---|
| mode detection, argument checks | `Start` |
| tag, downloads | `Resolve`, `Download` |
| `verify_signature` and the branch around it | `Authenticate`, `RefuseRelease` (with `Verdict`) |
| `verify_one` for every asset | `Checksum`, `ChecksumMismatch` |
| `install` of the binary, `ln -sfn` | `CopyBegins`, `CopyEnds`, `Link` |
| token exchange, `config.json` | `Enrol`, `WriteConfig` |
| profiles, units, `systemctl` | `ActivateProfiles`, `InstallUnits`, `Activate` |
| `set -e` | `Fail`, `FailInProfiles`, `FailInUnits`, `FailInActivate` |
| the world | `WriteBack`, `PowerLoss`, `Publish` |

**`SelfUpdate`** extends it with what shares the host every night. The agent writes the
directive and the journal (`Reply`, `Rejected`, `OpenTmp`, `FillTmp`, `Rename`, `RecordFails`,
`LogAccepted`: `SendOnce` from the reply on, with `recordDesiredVersion`), dies and is started
by systemd (`Crash`, `Respawn`). The updater's script is `TimerFires`, `ResolveLatest`,
`CannotResolve`, `NothingToDo`, `Apply`, then `RunScript`, which is a step of `Installer`'s
script, `Installed` or `InstallerFailed`, then the gate (`GatePasses`, `GateTimesOut`) and the
rollback (`RollbackLink`, `RollbackRestart`). `HostDown` is a power loss: it ends all of it,
takes what was fresh, and may bring `desired-version` back empty. `Flush` is the kernel's
writing back. `desired-version` and the file beside it have a content: `Torn` from the moment
`os.WriteFile` has opened the file until it has filled it, and after a crash in between; a
`Torn` directive would reach the updater if the order of write and rename were another or an
error were dropped. No clock is kept: `journal` holds the versions logged since `upgrade_start`,
which is what the gate greps.

**`GatedUpgrade`** is an update seen from outside: a version is put on trial (`Try`) and
then kept (`Keep`) or replaced by the one before (`Revert`). The mapping takes the
symlink for the installed version and `prev_bin` for the fallback, from the swap to the
end of the updater's run.

**`Heartbeat`** is the main loop with the beat inside it: `loop` is where it stands,
`running`, `found` and `out` are the goroutines of the bindings: in their primitive,
waiting for the mutex, and what they have written to the map. `answered`, `expanded` and
`sentCards` remember what the beat has seen, for the properties.

| Code | Action |
|---|---|
| `main` (ticker, context) | `Tick`, `Stop`, `SignalsDone` (with `Adopt`, `applyInterval`) |
| `buildPayload`, `Load`, `LoadServiceDir` | `LoadCollectors`, `LoadServices` |
| `collectors.Run`, `mergeBindingValue` | `ProbeAnswers`, `ProbeFails`, `Store` (with `Merge`), `Collected` |
| `LoadServiceSummaries` | `Collected` (with `Summaries`) |
| `SendOnce` | `MarshalFails`, `PostFails`, `Accepted`, `PostSignal` |
| operator, ICLIC, systemd | `EditCollectors`, `EditServices`, `AskInterval`, `Signal` |

The primitives are external to `Heartbeat`: one answers with a value of one of the kinds it
can yield, or fails; a timeout is a failure. A binding whose primitive waits for a command
(`command`) may also never come back. What primitives do is the subject of `Agent`.

**`Agent`** composes seven modules into one process on one host. Every module states what a
call of its primitives does; `Agent` runs them side by side in the same beats, under the same
deadline, and forgets their state when the process dies (`Forget`). A host is a record chosen
at the start: which bindings it has, what its lock file, configuration, logs and services are.

* `AgentProcess` starts and ends processes: the unit's, as the service user, and others by
  hand, as root. `at` is where each is in `main`, `holder` who has the flock, `kept` whose lock
  file a global refers to; a file that nothing refers to may be closed by `CollectGarbage`.
* `Beat` has the clock: `beat`, when it `began`, `offset` since then, `stage` of each binding's
  call. Time is counted in deadlines (`Cap`). The next beat begins at any time up to `Period`
  after the last one began: the interval is ICLIC's, a tick comes late after a long beat, and
  posting takes time of its own.
* `SecuritySnapshot` is the cache of `security.snapshot` and the five scans, `SecurityLog` how
  the lines of a log file are read under a cap and counted.
* `CpuSample` is the shared CPU sample of the primitive and those of the live streams, over
  counters of `Word` values.
* `DockerProbes` is the clients per socket and the goroutines of `runtime.services`,
  `docker.stats` and `docker.containers`, with the requests of each.
* `TimedProbes` is what waits for one command, connection or document, and what reads `/proc`
  twice; how the wait ended is data (`is`, `cut`), and one operator per primitive says what it
  makes of that.

| Code | Action or operator |
|---|---|
| `handleCLIArgs`, `runVerifyRelease`, `release.Verify` | `HandleCLIArgs`, `VerifyExit`, `Verify` |
| `acquireSingleInstanceLock` | `OpenLock` (with `CanOpen`), `Flock` |
| `config.Load`, `validate` | `LoadConfig`, `Loads` |
| the unit file, signals | `StartUnit`, `Tell`, `Obey` |
| main loop, `collectors.Run` | `BeginBeat`, `PassTime`, `EndBeat` |
| `securitySnapshot` | `CallSnapshot`, `CheckCache`, `ScanSection`, `Store` |
| `dockerLogLines`, `collect*File`, `collectFail2ban`, `collectFirewallDrops`, `firewallActive` | `Yields` and the operators it chooses from |
| `readFileCapped`, `readFileTailCapped`, `filterLinesSince`, `count*` | `ReadHead`, `ReadTail`, `FilterLinesSince`, `CountLines`, `CountFile`, `Bans` |
| `procfsCPUUsedPct`, `readProcStatCPU` | `ReadCpu`, `CommitCpu`, `BusyPct` |
| `metricsLiveJob`, `cpuPct` | `StartLive`, `SampleLive`, `CpuPct` |
| `dockerClientFor` | `FindClient`, `MakeClient` |
| `runtimeServices`, `probeRuntimeService` | `CallDocker`, `FirstRequest`, `NextRequest`, `TakeReply`, `SignalOf`, `Return` |
| `dockerStats`, `dockerContainers`, `dockerRestartCount` | `ListContainers`, `NextContainer`, `TakeReply`, `RowOf`, `Return` |
| `execPrimitive`, `dfRows`, `httpGet`, ... | `CallProbe`, `Ended`, `Cut`, with `AnswerOf` |
| `sampleProc`, `diskRates`, `netRates` | `CallProbe`, `SecondSample`, `DiskRates`, `NetRates`, with `Growth` as the number of `Units` of I/O in the later sample and not in the earlier |
| the world | `StartManual`, `Kill`, `EditConfig`, `Work`, `TakeBack`, `Answer`, `CutOff`, `DoIO`, `Plug` |

`Heartbeat` and `Agent` look at the same beat from two sides: the first at the map of values,
with the primitives as black boxes that answer, fail or, if they run a command, stay; the second
at those boxes, with the map left out. `AtCommand` says of each of these whether it waits for a
command just now: exec, systemctl, df, apt-get, iptables, `docker exec`. The users of
`dockerClientFor` are the Docker primitives and the container logs of `security.snapshot`
(`primitives_security.go:413`); the scan of the latter is modelled by what it yields, without
the client, of which it is one more user: `ClientsAreShared` holds for any number of them. The
check of the cache and the store in it are separate steps because the code unlocks between them;
a look at a map under its mutex is one step. A source of security events is down, quiet or busy,
and a request answers, refuses, or says nothing until its context ends.

**`Rollout`** is the loop of `deploy-all.sh`: `rest` is what is left of the inventory on the
standard input that the loop shares with the commands in it. An `ssh` whose session is up may
read any part of it (`Reads`), one that does not come up and `scp` read none.

## Properties and runs

| Run | Asks | Bounds |
|---|---|---|
| `config_load` | `CeilingsHold`, `AdvertisedIsServed`, `OperatorSourcesWin`, `OptInGoverns` | 290 files, 34 directories of up to two services, numbers on both sides of every limit |
| `channel_session` | `StreamShape`, `CutIsClean`, `Registered`, `SessionsApart`, `ServedWithinOptIn`, `ImplementsRequestStream` | two jobs of three kinds, under one id or two, in one session or on both sides of a reconnection; two allow-lists edited at any time; two lines; `Narrow` |
| `channel_live` | `OneWriter`, `DeadlineStops`, `CancelStops` | `logs.tail` without follow and `metrics.live` at once, both under one id, and inline replies on the same mutex; one line or sample each; one session |
| `installer_verify` | `OnlyAuthentic`, `SwapsToWhole`, `EnrolmentKept` | two releases, the first without `verify-release`; enrolment and upgrades, strict or not, by file or pipe; four ways to alter a download; any number of power losses, before and after what is written is on disk |
| `update` | `StrictIsAuthentic`, `AlwaysBootable`, `OutcomeHonest`, `DirectiveIsWhole`, `ImplementsGatedUpgrade`, `RunsEnd`, `FollowsItsRing` | two releases, a pin or latest, a download unaltered or altered with its checksums, one power loss, before or after the new binary is on disk |
| `heartbeat` | `NothingLost`, `CardsHaveProbes`, `BeatsGoOn`, `ShutdownStops`, `CadenceFollows` | three collector directories, three service directories, bindings with a command and without, two intervals |
| `agent` | `SingleInstance`, `QuestionsEnd`, `UnitComesBack`, `BeatsEnd`, `NeverOutOfDate`, `WindowsTile`, `WindowIsCounted`, `ShowsItsOwnInterval`, `OneClientPerSocket`, `HealthyIsEarned`, `NoPartialFacts`, `RatesAreReal` | the unit and one process by hand; up to four beats, up to two units apart; two windows, three and five units; counters of eight values; two services, two containers; four block devices; logs of three lines |
| `channel_socket_close`, `update_gate`, `update_failed_install`, `heartbeat_silenced`, `rollout` | what comments and documents promise and the code does not do (below) | the smallest instance that shows it |

Not in a run, because a proof says more: the type invariants (`TypeOK`, `UpdateTypeOK`), and
`PayloadIsSettled`, `FilesAreNeverSkipped`, `NothingDropped` and `SharesAreShares`, which a wait
group, a missing check of the context or a clamp gives by itself.

What the bounds leave in. Jobs interact pairwise: through one mutex (a holder and a waiter), one
registry entry (an old owner and a new one) and one connection; a session only with the one
before it. Two lines with a limit of one reach the cut and the frame after it. `channel_session`
treats ids as interchangeable (the specification never compares them with a fixed one) and is
narrowed by a constraint: once the channel has reconnected or the allow-list has been edited,
jobs are snapshots of at most one line and the process is not shut down. So both jobs, in one or
two sessions, under one id or two, are in it, and the full set of jobs in one session. In
`channel_live` the stream that holds the mutex is one of two jobs or the read loop, and the one
that waits is any other. A run of the installer meets what one earlier run left behind, and two
releases are one to leave and one to reach; the only difference between releases that the script
looks at is whether they can verify. Two `runtime.services` bindings with a script under the
same key are the merge in both orders and of mixed types.

The hosts of `agent` are scenarios, not a product: each has what one question needs, and
everything that can happen around it. Four beats are a scan, the beats its cache serves, and the
next scan; two bindings of the snapshot or of the CPU sample are the check, the scan and the
store of one in any order with those of the other; a total that starts at seven of eight wraps
in the first interval. Two containers are two goroutines that need the same client. Three log
lines under caps of one to three, whole and half, are a cap inside a line, at its end and beyond
the file. `sda`, `sda1`, `sdaa` and a mapping are every relation of names that the code looks
at.

`LineCap`, `MaxSessions`, `NVersions`, `MaxPowerLosses`, `MaxTotal`, `MaxIO` and a host's
`beats` cap counters that the world does not cap; every other constant is a set of inputs.
Deadlock is checked in every run but `agent`, whose unit may stay stopped and whose hosts have a
last beat, and `rollout`, which ends. Elsewhere nothing stops unnoticed: the only states of the
channel without a step are those of a stopped read loop with every goroutine gone and every
command exited, which `Terminated` names; in the others the environment can always act.

What the violations show:

* `channel_socket_close`: no context hangs on the connection, so losing the socket kills
  no command; a quiet one without a deadline stays.
* `update_gate`: the old agent runs, and logs, after `upgrade_start`; its heartbeat
  passes the gate of the new one.
* `update_failed_install`: the installer may fail after the swap; the updater leaves it
  there, ungated.
* `heartbeat_silenced`: `parse: float` accepts NaN, JSON does not, and the beat is lost.
* `rollout`: the `ssh` commands in the loop read the inventory from the loop's own standard
  input (`deploy-all.sh:87,95`); the hosts they swallow are neither upgraded nor in one of the
  lists, so neither the summary nor the exit code, which is the length of the list of failed
  hosts, counts them.

Read in the code while modelling, without a run of their own:

* `metricsLiveJob` returns without an eof when a cancel or the deadline lands between its
  tick and its write (`control.go:418`), although `control.go:469-470` says that the
  requester always sees one.
* Replies to ping and to unknown verbs wait in the read loop for the mutex of a job that
  may be blocked on a peer that does not read (`control.go:183`), although
  `control.go:164-165` says the loop stays free to receive cancels.
* An id that ICLIC reuses as soon as it has the eof of its last request is registered before the
  old job's deferred `removeStream` runs, which then deletes the new entry (`control.go:220`): a
  cancel does not find the new job. Likewise for an id that ICLIC uses for two requests at once.
  `channel_session` has both, and `Registered` says that the damage ends there: a job loses its
  entry to no job with another id.
* A cut snapshot leaves its pipe unread: `cmd.Wait` and the copier of that command stay
  (`control.go:440`). The backoff is not reset after a long session (`control.go:108`).
* An interval above 292 years overflows `time.Duration` and panics in `Ticker.Reset`
  (`main.go:152`).
* Two bindings of `security.snapshot` share one cache without a word on their arguments: the
  second is shown what the first one's window, containers and paths gave.
* A scan that the deadline cuts is cached like any other: sections of a source that is up are
  absent for a window, which the reader takes for "not applicable" (`primitives_security.go:82`).
  So is a container whose log is empty (`:422`): quiet is reported as absent, not as zero.
* The ban log is read from its head under the cap (`:322`, `:458`), although the comment on
  the tail reader says why the end of a log is what matters (`:467`): in a longer log new bans
  are not seen. The list of recent bans is made of the oldest of the window.
* Lines are compared in whole seconds with a window that begins within one: those of its first
  second before the fraction are dropped (`:279`). Local times are ambiguous when the clock
  is set back (`:275`).
* A service whose container and health answer within their own four seconds each may be
  shown `STALE`: the runner gives the call five (`primitives_runtime_services.go:15`).
* One definition without a required field costs the binding the rows of all its services
  (`:289`).
* `isPartitionOf` takes `sdaa` for a partition of `sda` (`primitives_procfs_io.go:68`), so its
  I/O is left out; a VLAN's traffic is counted beside its carrier's. `RatesAreReal` says the
  first never reports too much, and the second only where no interface carries another.
* `systemctl.is_active` that was cut off says inactive, `systemd.resources` not found,
  `apt.security_count` -1 (with a timeout of fifteen seconds inside five), a failed
  `docker.stats` request zeros: a failure to ask is not told from the answer.
* `http.get_json` gives null for a path that is not there; `primitives_http_json.go:38-39` says
  the key is omitted.
* A first start by root leaves a lock file that the service user cannot open; the service then
  warns and goes on without a lock (`main.go:216-219`), and two agents run. `SingleInstance` has
  that, and a missing directory, as its exceptions.
* An upgrade without `PROFILES` activates the default profiles (`install.sh:41`);
  `install.sh:11`, `README.md:153` and `docs/en/deployment.md:149` say current profiles.
* Re-running `install.sh` for the version in use rewrites the binary the symlink points
  at (`install.sh:268`), which a failure half way leaves broken; `install.sh:29` calls
  re-running safe. `SwapsToWhole` is about the moment of the swap; `AlwaysBootable` holds
  for the updater because it never installs the version in use.
* `install.sh` never syncs. A power loss within the half minute after the swap may leave an
  empty file under the symlink: no agent starts, and the next night the updater finds the
  version asked for installed (`updater.sh:59`). A rollback looks at the mode of the old binary
  and not at its content (`updater.sh:103`), so it may go back to one that such a loss has
  emptied. `AlwaysBootable` has these two as its exceptions.
* A failed `install` of `install.sh` onto the copy kept for the updater (`install.sh:388`), in a
  run by hand, leaves a file that is not executable, and no later night updates until an
  operator runs the installer.
* A 403 is logged and retried (`main.go:134-139`); `docs/en/protocol.md:200` says stop.
* A primitive that runs a command need not return when its context ends: `Output()` is used
  without a `WaitDelay` (`primitives_exec.go:48`), so it waits for a grandchild that keeps the
  pipe open, or for a `df` that a dead mount holds beyond the reach of any signal; and the
  `file.*` primitives (`os.Stat`, not modelled) have no context at all. `wg.Wait` has no
  deadline of its own (`runner.go:58`), and the budgets of five and thirty seconds
  (`heartbeat.go:36-43`) only end contexts. One such probe stops the beats, and the process does
  not obey SIGTERM, for as long as it hangs, although `docs/en/collectors.md:504-505` says that
  a pathological probe never blocks the heartbeat. `BeatsGoOn`, `ShutdownStops` and `BeatsEnd`
  have as a premise that commands return (`CommandsReturn`), and without it TLC finds each of
  them violated.
* `timeout_sec` of exec is capped at 30 (`primitives_exec.go:22`), and before that at the
  runner's five seconds.
* Values of different types under one key: the last writer wins, in any order;
  `NothingLost` is stated for typed signals.

## Fairness

Channel. `Fairness` assumes what the Go runtime, the kernel and the code give: a runnable
goroutine runs, `sync.Mutex` does not starve a waiter (hence strong fairness on `Lock` and
`ReplyLock`), timers fire, a kill arrives and a command that has exited is waited for. The last
is not assumed of `sh -c` verbs, whose children keep the pipe open; the streams of
`channel_live` run none. A `Write` is only assumed to end when its connection is closed or its
context done, and `bestEffort` writes because of their own five seconds. Nothing is assumed of
ICLIC or of what a command prints. `CancelStops` therefore has the premise `IclicReads`: a peer
that never reads can hold the mutex for ever. `DeadlineStops` needs no reading peer, but its
premise is that the job is not held up for good behind a `Write` without a deadline (`HeldUp`).
`metricsLiveJob`'s select may prefer its ticker to a context that is done; the cap on ticks
stands for its not doing so for ever.

Update. The scripts, the agent and systemd move on (weak fairness); strong fairness on
`GateTimesOut` says that the wall clock ends the window even if the agent dies again and again.
Nothing is assumed of the operator, of releases or of power. `FollowsItsRing` has as premises
that ICLIC settles on a release that exists, that nothing fails any more, and that there is a
copy of `install.sh` for the updater to call (a piped enrolment leaves none, a failed copy one
that cannot be executed), and that the version in use is not one that a power loss has emptied.
The kernel writes back in the end (weak fairness on `Flush`), and long before the next night,
which is why `TimerFires` waits for it. Every command of the scripts returns: `curl` is given no
`--max-time` (`updater.sh:47`, `install.sh:151-183`), so for a server that stalls a transfer
this is the operating system's promise and not theirs. It is checked where ICLIC accepts every
release: an agent whose heartbeats are rejected learns of no directive.

Agent. systemd restarts the unit ten seconds after a failure, which never reaches its start
limit of five in ten seconds; `main` goes on, time passes, goroutines run. Nothing makes
anything answer. `UnitComesBack` has
as premises that no process by hand keeps the lock and that `config.json` settles on a valid
one; a stop that systemd was asked for ends its duty. The context ends requests, connections and
sleeps (`SnapshotGoesOn`, `ProbeEnds`, `RequestEnds`) but no command: that commands let go of
their output is a premise of `BeatsEnd` (`CommandsReturn`), which then says that everything else
in a beat ends with the deadline.

Heartbeat. The loop runs, and a primitive that waits for a request or a connection returns, by
itself or with its context (`RequestReturns`). Nothing is assumed of those that wait for a
command; `BeatsGoOn` and `ShutdownStops` have as premise that none of them waits without end
(`CommandsReturn`). Strong fairness on `Stop` is `select` not passing over a ready case for
ever. `CadenceFollows` has as premise that replies with the interval come through now and then.

## Proofs

The theorems hold for any sets of jobs, ids, requests, allow-lists, profiles, releases,
alterations, directories and intervals and for any bounds, from the named assumptions on
the constants, which TLC evaluates in the runs. Every invariant and every action property
that a run checks is the statement of a theorem; the inductive invariants were given to TLC, as
invariants of the same instances, before they were proved.

`ControlConfigProofs`, from `CeilingAssumption` (the defaults and ceilings are positive) and
`ParsedAssumption` (what the parser can yield: numbers are integers, services come in a
sequence). `LoadAlways` says that the configuration in use is `LoadControlConfig` of the files
that were read; the rest is about that operator:

* `HelloIsHonest` goes through the eleven verbs; `NumbersAreBounded` through the defaults and
  the two clamps (`CeilingBounds`, `ClampBounds`).
* `OperatorHasTheLastWord` is about the merge loop. `MergeExists` and `MergeRounds` say that
  the recursive function is well defined and what a round does to the last; `MergedSoFar`, the
  invariant of the loop, that after k rounds the operator's sources are untouched, every other is
  that of the first service among the k that offers its name, and none of those is missing.
  `MergeSourceKeeps` is its step.
* `OptInIsNeeded` follows from the same.

The induction is over a set: the library's induction theorems take the predicate as a
parameter, which the provers cannot instantiate, so `Induction` derives from the
well-foundedness of `<` (`WFMin`) that a set of numbers with 0, and with i + 1 for every i of it
below n, has all of `0 .. n` (`UpTo`), and a proof collects in a set the numbers of which the
claim is true.

`ControlChannelProofs`, from `ChannelAssumption` (the names of non-jobs are no jobs,
requests carry known verbs, bounds are numbers):

* `TypeCorrect`: `TypeOK` is not inductive. `Places` adds what the types rest on: a
  spawned job has a session and an id, a job about to send has room for the frame, a
  job that ends has decided how, a read loop that reads is in a session.
* `MutualExclusion`: `OneWriter` with the types.
* `StreamsAreShaped`: `StreamInv` says that a stream has only data frames until its
  job unwinds, and that while the connection is up the next number is the number of
  frames received. A frame delivered by a `Write` that failed breaks that count, but
  its connection is closed and nothing follows.
* `CancelFindsItsJob`: `RegistryInv` says that a job alone with its id in its session has its entry
  until it has returned; the spawn, cancel and return of the others concern other entries.
* `OptInIsAuthority`: a job past its check still passes it; `AnswerIsAdvertised`
  relates the check to the advertised list.
* `SessionsStayApart`: `OneConnection` (an open connection is the newest session's, and its
  read loop serves it) and `EntriesAlive` (an entry leads to a live job of that session and
  id). `JobMoves` says once what any step of a job leaves alone.
* `OutputIsCut`: `CutInv` bounds the places of the data frames in a stream, not their number,
  and says that there is room for the frame about to be sent; `BelowCounts` goes from places
  to the number.
* `ChannelImplementsStream`: every step is a step of one stream or a stutter.

`InstallerProofs`, from `VersionsExist` and the assumptions that the sets of constants
are of versions, profiles, runs and assets:

* `InstallerTypeCorrect`, one step per action.
* `InstallsOnlyAuthentic`: `AuthInv` says how far the run in progress has come in
  trusting its download: past the verdict the sums are the published ones, past the
  checksums every asset is.
* `AlwaysSwapsToWhole`: `CopiedInv`, the binary of a run that has reached the swap is
  copied to its end, whatever stood there before.
* `EnrolmentIsKept`: `EnrolInv`, once `config.json` is complete no run is on its way to
  writing it: the one that wrote it is past that, and every later one has found it.

`SelfUpdateProofs`, from these and `AcceptedAreVersions`, `RingIsKnown` and
`PowerLossesAreCounted`. One inductive invariant, `UpdateInv`, is the conjunction of `TypeInv`
(types, and `RunInv`: a run of the script belongs to the updater's and is pinned to its version;
the directives are whole, and what is about to be renamed is the directive ICLIC gave),
`BootInv` (only the version being installed is not on disk, and it is neither the one in use
before the swap nor the fallback), `OutcomeInv` (what each outcome says) and `AuthInv`.
`HostStaysBootable` is about steps: `ScriptStaysBootable` goes through those of the installer,
`StepStaysBootable` through the rest, power losses included. From it follow `UpdateTypeCorrect`,
`StrictRunsAreAuthentic`, `HostStaysBootable`, `OutcomesAreHonest`, `DirectivesAreWhole` and the
refinement `UpdatesAreGated`.

`HeartbeatProofs`, from `IntervalAssumption` and `KindsAssumption`. `HeartInv` is the types,
`Fresh` (a beat begins with nothing of the last), `PayloadIsSettled`, `OutInv` (every answer is
either waiting for the mutex or in the one value of its key) and `CardsInv` (what was expanded
is among the bindings). From it follow `HeartbeatTypeCorrect`, `PayloadsAreSettled`,
`PayloadsAreComplete` and `CardsReferToProbes`. `CardsReferToProbes` is about one directory that
expands: an edit between the two readings of a beat, or a definition that does not expand, gives
cards without probes.

`AgentProofs`, from `ProcessAssumption`. `ProcessInv` says that whoever is past the lock with a
file open holds it and keeps it, and that a process with an argument never passes
`handleCLIArgs`. `OneAgent` and `QuestionsAlwaysEnd` follow, for any number of processes started
by hand. Every step of the primitives leaves the variables of the process alone, and one lemma
says so.

`PrimitiveProofs`, from `BeatAssumption`, `SnapshotAssumption`, `CpuAssumption`,
`DockerAssumption`, `ProbeAssumption`, `GroupsAssumption` and `HostsAssumption`. Each group of
primitives has invariants of its own. Lemmas named `...Rests` say that another group's step
leaves a binding where it is (`Stays`), and that the beat may also begin and end its call
(`Rests`); so only one group's steps need work:

* `SnapshotAlways`: what is cached carries the time of the scan that the cache remembers, and a
  binding that is past a source read from a file has its section. `SnapshotsAreFresh` and
  `FilesAreAlwaysScanned` follow.
* `ScansFollowOneAnother`: `TileInv` relates the last scan to the clock. What a call takes for
  now lies in its beat; a binding that is alone on the cache made its last call in this beat or the
  one before, and left a cache younger than its window. So a scan begins, at most, a period and a
  deadline after the window is over.
* `WindowsAreCounted`: `TailIsEnd` says which line of the log stands where in the end of it
  that is read, and `TailHoldsWindow` that moving by the difference is a bijection between the
  events of the window here and there.
* `DockerAlways`: the clients ever made are those in the map; a call's items are all its
  services while it waits, and its rows are those of its items once it is done. `ClientsAreShared`
  and `EveryServiceHasARow` follow.
* `HealthIsEarned`: `HealthInv` keeps the replies beside the requests. A goroutine inspects
  before it asks for the health and asks for the health only of what may be healthy (`Earned`);
  when the call is done nobody answers any more and every row is the verdict on the replies
  (`Probed`).
* `ProbesAlways`: `ValuesAreWhole` goes through the operators of all the primitives, and says
  that none calls a value what was refused or broke off. `ValuesAreFacts` follows.
* `RatesAreOfTheInterval`: which devices will be counted is not known before the second
  sample, since taking a disk out turns others into disks. `Bounded` therefore speaks of every
  set of devices that has none beside the one it is a part of (`Separate`): its I/O since the
  first sample is I/O that was done since. A step of I/O adds one unit to such a set or none
  (`IOKeepsBound`), a device that comes begins at zero (`PlugKeepsBound`), and the devices that
  `diskRates` counts are such a set because a partition's name begins with its disk's.
* `CpuIsAShare`: whatever the two samples are, the answer is between 0 and 100.
* `SharesAreOfOwnIntervals`: `IntervalInv` says that a sampler on its own shows the reading
  that is its previous sample, that readings stay within one round of the counter, and that busy
  time does not go back from one to the next, also when idle time does. Then the unsigned
  differences are the true ones and no clamp cuts the share (`BusyPctIsExact`).

Proving changed the models where they said too little: `RatesAreReal` asks of the interfaces
in the first sample, not of those the host began with, that none carries another; `Shared` is
no stream; what is part of a virtual device is virtual; the sum of a rate is the cardinality of a
set of units, and a filtered log the set of the places kept.

Only model-checked: the liveness properties, `DeadlineStops`, `CancelStops`, `RunsEnd`,
`FollowsItsRing`, `BeatsGoOn`, `ShutdownStops`, `CadenceFollows`, `UnitComesBack` and
`BeatsEnd`, because liveness under fairness is beyond the prover, as is the absence of deadlock,
which is about ENABLED. The runs that expect a violation need no proof.

## Not modelled, and the plan

1. `StreamCommand`: the goroutines behind one command (pipe, copier, waiter, scanner),
   what is lost and what leaks when the output is cut; abstract specification: the
   lines sent are a prefix of the lines printed.
2. `Rollout` with the installer of each host as a run of `Installer`.

Left out for good: parsing and formatting (YAML, JSON, /proc), the primitives that read one file
once and keep nothing (`os.*`, `file.*`, memory, swap, load, uptime), the frames of Docker's log
stream and its CPU figures, the `iface` argument of `procfs.netdev`, the length of the backoff,
redaction, logging, pprof, the memory limit, Ed25519 itself, users and directories made by the
installer, two installers at the same time (there is no lock, and nothing promises it).
