------------------------------- MODULE Installer -------------------------------
(***************************************************************************)
(* One run of install.sh after another on one host: the first enrols the   *)
(* host, the later ones upgrade it.  The script runs under set -e, so a    *)
(* failing command ends the run where it stands and nothing is undone; a   *)
(* power loss does the same.  Each step below is a stretch of the script   *)
(* between two points where such an end can be told apart.                 *)
(*                                                                         *)
(* Release assets are abstracted to whether the bytes that were downloaded *)
(* are the published ones: altered is the set of assets that are not.  A   *)
(* changed SHA256SUMS may agree with any asset (it is what the signature   *)
(* is for), so it makes every checksum comparison succeed; an altered      *)
(* signature is a mismatch just as an altered SHA256SUMS is.               *)
(*                                                                         *)
(* The script never syncs.  A binary or a config.json is fresh from its    *)
(* last byte until the kernel has written it back, and a power loss may    *)
(* leave an empty file of that name in its place.  Names, modes and the    *)
(* symlink are in the journal of the file system and survive.              *)
(*                                                                         *)
(* Operators called a mutant are plausible slips in the definition after   *)
(* them; no action uses them.                                              *)
(***************************************************************************)
EXTENDS Naturals, FiniteSets

CONSTANTS
  NVersions,      \* releases are numbered 1 .. NVersions, in order of publication
  Understands,    \* the releases whose binary has the verify-release subcommand
  Profiles,       \* the collector profiles
  DefaultProfiles,\* what PROFILES means when the environment does not set it
  Runs,           \* the ways the script may be started
  Alterations     \* the sets of assets a download may find altered

Versions == 1..NVersions
None == 0                  \* no version
Latest == NVersions + 1    \* AGENT_VERSION=latest
Assets == {"SHA256SUMS", "binary", "configs", "unit", "updater"}

\* A run: STRICT_VERIFY, AGENT_VERSION, PROFILES ({} when unset or empty), whether a
\* TOKEN is given, and what $0 is: no file (curl | bash), a file, or the copy that an
\* earlier run has left for the updater.
RunType == [strict : BOOLEAN, version : Versions \cup {Latest}, profiles : SUBSET Profiles,
            token : BOOLEAN, from : {"pipe", "file", "copy"}]

WorkType == [sig : BOOLEAN, updater : BOOLEAN, altered : SUBSET Assets]
UnitsType == [agent : Versions \cup {None}, updater : Versions \cup {None}]

ASSUME VersionsExist == NVersions \in Nat \ {0}
ASSUME KnownVerifiers == Understands \subseteq Versions
ASSUME KnownProfiles == DefaultProfiles \subseteq Profiles
ASSUME KnownRuns == Runs \subseteq RunType
ASSUME KnownAlterations == Alterations \subseteq SUBSET Assets

VARIABLES
  step,           \* where the run is, "idle" when none is in progress
  run,            \* how the current or last run was started
  enrolled,       \* ALREADY_ENROLLED of that run
  tag,            \* RESOLVED_VERSION
  work,           \* WORK_DIR: which optional assets came, which are altered
  rc,             \* how the last run ended: "ok", "failed", "running"
  bin,            \* the versioned binaries: "absent", "partial", "fresh" or "whole"
  link,           \* the version CURRENT_LINK points at
  config,         \* config.json: "absent", "partial", "fresh" or "ready"
  collectors,     \* collectors.d: the release each profile's file comes from
  units,          \* the releases the systemd unit and the updater come from
  installSh,      \* there is a copy of install.sh for the updater to call
  timer,          \* the updater's timer is enabled
  enabled,        \* the agent's unit is enabled
  running,        \* the version the agent process was started from
  newest,         \* the latest release on GitHub
  openssl,        \* "works", or "unusable" for Ed25519 or not there
  foreign,        \* kinds of asset of which altered bytes were installed
  blind           \* some run went on although it could not verify the release

session == <<run, enrolled, tag, work>>
units_ == <<units, installSh, timer, enabled>>
world == <<newest, openssl>>
installerVars == <<step, session, rc, bin, link, config, collectors, units_, running,
                   world, foreign, blind>>

NoWork == [sig |-> FALSE, updater |-> FALSE, altered |-> {}]
NoRun == [strict |-> TRUE, version |-> Latest, profiles |-> {}, token |-> FALSE,
          from |-> "file"]

Steps == {"idle", "resolve", "download", "authenticate", "checksum", "copy", "copying",
          "link", "enrol", "config", "configuring", "profiles", "units", "activate"}

InitWorld ==
  /\ newest \in Versions
  /\ openssl \in {"works", "unusable"}
  /\ foreign = {}
  /\ blind = FALSE
  /\ step = "idle"
  /\ run = NoRun
  /\ enrolled = FALSE
  /\ tag = None
  /\ work = NoWork
  /\ rc = "ok"

\* A host that has never been enrolled.
Init ==
  /\ InitWorld
  /\ bin = [v \in Versions |-> "absent"]
  /\ link = None
  /\ config = "absent"
  /\ collectors = [p \in Profiles |-> None]
  /\ units = [agent |-> None, updater |-> None]
  /\ installSh = FALSE
  /\ timer = FALSE
  /\ enabled = FALSE
  /\ running = None

-----------------------------------------------------------------------------
(* Helpers *)

Executable(v) == v \in Versions /\ bin[v] \in {"fresh", "whole"}

Proceed(next) == step' = next /\ UNCHANGED rc

\* The script exits: its variables are gone, and the trap removes WORK_DIR.
Exit(code) ==
  /\ step' = "idle"
  /\ rc' = code
  /\ run' = NoRun
  /\ enrolled' = FALSE
  /\ tag' = None
  /\ work' = NoWork

Requested == IF run.profiles = {} THEN DefaultProfiles ELSE run.profiles

\* Mutant of ToVerify: the updater's files are installed but never verified.
ToVerifyNoUpdater == {"binary", "configs", "unit"}

\* What verify_one is called for.
ToVerify == {"binary", "configs", "unit"} \cup (IF work.updater THEN {"updater"} ELSE {})

ChecksumMatches(a) == a \notin work.altered \/ "SHA256SUMS" \in work.altered

\* Someone can check an Ed25519 signature on this host: the installed binary, if
\* it knows how, else OpenSSL.
Verifier == (Executable(link) /\ link \in Understands) \/ openssl = "works"

\* Mutant of Verdict: a release without a signature needs no verdict.
VerdictUnsigned ==
  IF ~work.sig THEN "genuine"
  ELSE IF ~Verifier THEN "unverified"
  ELSE IF "SHA256SUMS" \in work.altered THEN "mismatch" ELSE "genuine"

\* verify_signature and the branch around it, for a release with or without .sig.
Verdict ==
  IF ~work.sig \/ ~Verifier THEN "unverified"
  ELSE IF "SHA256SUMS" \in work.altered THEN "mismatch" ELSE "genuine"

\* Starting or restarting the agent's unit: the process of another version is
\* gone, and the new one stays up only with a binary and a readable config.json.
Launched == IF Executable(link) /\ config \in {"fresh", "ready"} THEN link ELSE None

-----------------------------------------------------------------------------
(* The script *)

\* Mode detection: without config.json the script wants a token.
Start(r) ==
  /\ step = "idle"
  /\ config = "absent" => r.token
  /\ run' = r
  /\ enrolled' = (config # "absent")
  /\ step' = "resolve"
  /\ rc' = "running"
  /\ UNCHANGED <<tag, work, bin, link, config, collectors, units_, running, world,
                 foreign, blind>>

Resolve ==
  /\ step = "resolve"
  /\ tag' = IF run.version = Latest THEN newest ELSE run.version
  /\ Proceed("download")
  /\ UNCHANGED <<run, enrolled, work, bin, link, config, collectors, units_, running,
                 world, foreign, blind>>

\* The four required assets arrived; the signature and the updater's files are
\* optional, and one missing file of the updater leaves all three out.
Download ==
  /\ step = "download"
  /\ tag <= newest
  /\ \E sig, upd \in BOOLEAN, altered \in Alterations :
       work' = [sig |-> sig, updater |-> upd, altered |-> altered]
  /\ Proceed("authenticate")
  /\ UNCHANGED <<run, enrolled, tag, bin, link, config, collectors, units_, running,
                 world, foreign, blind>>

\* Authenticity first: a mismatch always aborts, and a release that cannot be
\* verified aborts under STRICT_VERIFY=1 only.
Authenticate ==
  /\ step = "authenticate"
  /\ \/ Verdict = "genuine" /\ UNCHANGED blind
     \/ Verdict = "unverified" /\ ~run.strict /\ blind' = TRUE
  /\ Proceed("checksum")
  /\ UNCHANGED <<session, bin, link, config, collectors, units_, running, world, foreign>>

RefuseRelease ==
  /\ step = "authenticate"
  /\ Verdict = "mismatch" \/ (Verdict = "unverified" /\ run.strict)
  /\ Exit("failed")
  /\ UNCHANGED <<bin, link, config, collectors, units_, running, world, foreign, blind>>

Checksum ==
  /\ step = "checksum"
  /\ \A a \in ToVerify : ChecksumMatches(a)
  /\ Proceed("copy")
  /\ UNCHANGED <<session, bin, link, config, collectors, units_, running, world,
                 foreign, blind>>

ChecksumMismatch ==
  /\ step = "checksum"
  /\ \E a \in ToVerify : ~ChecksumMatches(a)
  /\ Exit("failed")
  /\ UNCHANGED <<bin, link, config, collectors, units_, running, world, foreign, blind>>

\* Mutant of CopyBegins: the binary is not copied when a file of that name exists.
CopySkipsExisting ==
  /\ step = "copy"
  /\ \/ bin[tag] = "absent" /\ bin' = [bin EXCEPT ![tag] = "partial"] /\ Proceed("copying")
     \/ bin[tag] # "absent" /\ UNCHANGED bin /\ Proceed("link")
  /\ UNCHANGED <<session, link, config, collectors, units_, running, world, foreign, blind>>

\* install(1) removes the destination and writes it anew, whoever points at it.
CopyBegins ==
  /\ step = "copy"
  /\ bin' = [bin EXCEPT ![tag] = "partial"]
  /\ Proceed("copying")
  /\ UNCHANGED <<session, link, config, collectors, units_, running, world, foreign, blind>>

CopyEnds ==
  /\ step = "copying"
  /\ bin' = [bin EXCEPT ![tag] = "fresh"]
  /\ foreign' = foreign \cup (work.altered \cap {"binary"})
  /\ Proceed("link")
  /\ UNCHANGED <<session, link, config, collectors, units_, running, world, blind>>

\* Mutant of Link: the enrolment is run on every host.
LinkAlwaysEnrols ==
  /\ step = "link"
  /\ link' = tag
  /\ Proceed("enrol")
  /\ UNCHANGED <<session, bin, config, collectors, units_, running, world, foreign, blind>>

Link ==
  /\ step = "link"
  /\ link' = tag
  /\ Proceed(IF enrolled THEN "profiles" ELSE "enrol")
  /\ UNCHANGED <<session, bin, config, collectors, units_, running, world, foreign, blind>>

\* The token is exchanged; the credentials exist only in the script's variables.
Enrol ==
  /\ step = "enrol"
  /\ Proceed("config")
  /\ UNCHANGED <<session, bin, link, config, collectors, units_, running, world,
                 foreign, blind>>

\* cat > config.json, then chown and chmod: the agent can use it after the last.
WriteConfig ==
  /\ step \in {"config", "configuring"}
  /\ config' = IF step = "config" THEN "partial" ELSE "fresh"
  /\ Proceed(IF step = "config" THEN "configuring" ELSE "profiles")
  /\ UNCHANGED <<session, bin, link, collectors, units_, running, world, foreign, blind>>

\* The files of the profiles in ps are replaced by the release's; no file goes.
InstallProfiles(ps) ==
  /\ collectors' = [p \in Profiles |-> IF p \in ps THEN tag ELSE collectors[p]]
  /\ foreign' = foreign \cup (IF ps = {} THEN {} ELSE work.altered \cap {"configs"})

ActivateProfiles ==
  /\ step = "profiles"
  /\ InstallProfiles(Requested)
  /\ Proceed("units")
  /\ UNCHANGED <<session, bin, link, config, units_, running, world, blind>>

InstallUnits ==
  /\ step = "units"
  /\ units' = [agent |-> tag, updater |-> IF work.updater THEN tag ELSE units.updater]
  /\ installSh' = (installSh \/ (work.updater /\ run.from = "file"))
  /\ foreign' = foreign \cup (work.altered \cap
                               (IF work.updater THEN {"unit", "updater"} ELSE {"unit"}))
  /\ Proceed("activate")
  /\ UNCHANGED <<session, bin, link, config, collectors, timer, enabled, running, world,
                 blind>>

\* daemon-reload, restart or enable --now, then the timer.
Activate ==
  /\ step = "activate"
  /\ running' = Launched
  /\ enabled' = (enabled \/ ~enrolled)
  /\ timer' = (timer \/ work.updater)
  /\ Exit("ok")
  /\ UNCHANGED <<bin, link, config, collectors, units, installSh, world, foreign, blind>>

\* set -e: the command of this step fails before it has changed anything, or, for
\* the copy and the writing of config.json, half way.
Fail ==
  /\ step \in {"resolve", "download", "copy", "copying", "link", "enrol", "config",
               "configuring"}
  /\ Exit("failed")
  /\ UNCHANGED <<bin, link, config, collectors, units_, running, world, foreign, blind>>

\* The bundle does not unpack, or the copying stops after some of the files.
FailInProfiles ==
  /\ step = "profiles"
  /\ \E ps \in SUBSET Requested : InstallProfiles(ps)
  /\ Exit("failed")
  /\ UNCHANGED <<bin, link, config, units_, running, world, blind>>

\* The agent's unit, then the updater's three files, then the copy of install.sh: the
\* run ends before the first, after it, after one of the three or more, or within the copy,
\* which is not executable then.
FailInUnits ==
  /\ step = "units"
  /\ \/ UNCHANGED <<units, installSh, foreign>>
     \/ /\ units' = [units EXCEPT !.agent = tag]
        /\ foreign' = foreign \cup (work.altered \cap {"unit"})
        /\ UNCHANGED installSh
     \/ /\ work.updater
        /\ units' = [agent |-> tag, updater |-> tag]
        /\ foreign' = foreign \cup (work.altered \cap {"unit", "updater"})
        /\ installSh' \in {installSh} \cup (IF run.from = "file" THEN {FALSE} ELSE {})
  /\ Exit("failed")
  /\ UNCHANGED <<bin, link, config, collectors, timer, enabled, running, world, blind>>

\* systemctl fails: at the daemon-reload, or for the timer after the restart.
FailInActivate ==
  /\ step = "activate"
  /\ \/ UNCHANGED <<running, enabled>>
     \/ running' = Launched /\ enabled' = (enabled \/ ~enrolled)
  /\ Exit("failed")
  /\ UNCHANGED <<bin, link, config, collectors, units, installSh, timer, world, foreign,
                 blind>>

Dirty == {v \in Versions : bin[v] = "fresh"}

\* The kernel writes back what is fresh, half a minute after it was written.
WriteBack ==
  /\ Dirty # {} \/ config = "fresh"
  /\ bin' = [v \in Versions |-> IF v \in Dirty THEN "whole" ELSE bin[v]]
  /\ config' = IF config = "fresh" THEN "ready" ELSE config
  /\ UNCHANGED <<step, session, rc, link, collectors, units_, running, world, foreign, blind>>

\* The host goes down and comes up again; a run in progress is lost, and so is what
\* was fresh, or some of it.
PowerLoss ==
  /\ Exit(IF step = "idle" THEN rc ELSE "failed")
  /\ \E lost \in SUBSET Dirty :
       bin' = [v \in Versions |-> IF v \in lost THEN "partial"
                                  ELSE IF v \in Dirty THEN "whole" ELSE bin[v]]
  /\ config' \in IF config = "fresh" THEN {"partial", "ready"} ELSE {config}
  /\ UNCHANGED <<link, collectors, units_, world, foreign, blind>>
  /\ running' = IF enabled THEN Launched' ELSE None

Publish ==
  /\ newest < NVersions
  /\ newest' = newest + 1
  /\ UNCHANGED <<step, session, rc, bin, link, config, collectors, units_, running,
                 openssl, foreign, blind>>

\* A step of the run in progress.
Script ==
  \/ Resolve \/ Download \/ Authenticate \/ RefuseRelease \/ Checksum \/ ChecksumMismatch
  \/ CopyBegins \/ CopyEnds \/ Link \/ Enrol \/ WriteConfig \/ ActivateProfiles
  \/ InstallUnits \/ Activate \/ Fail \/ FailInProfiles \/ FailInUnits \/ FailInActivate

Next == (\E r \in Runs : Start(r)) \/ Script \/ WriteBack \/ PowerLoss \/ Publish

Spec == Init /\ [][Next]_installerVars

-----------------------------------------------------------------------------
(* Properties *)

SessionTypeOK ==
  /\ step \in Steps
  /\ run \in RunType
  /\ enrolled \in BOOLEAN
  /\ tag \in Versions \cup {None}
  /\ work \in WorkType
  /\ rc \in {"ok", "failed", "running"}

HostTypeOK ==
  /\ bin \in [Versions -> {"absent", "partial", "fresh", "whole"}]
  /\ link \in Versions \cup {None}
  /\ config \in {"absent", "partial", "fresh", "ready"}
  /\ collectors \in [Profiles -> Versions \cup {None}]
  /\ units \in UnitsType
  /\ installSh \in BOOLEAN
  /\ timer \in BOOLEAN
  /\ enabled \in BOOLEAN
  /\ running \in Versions \cup {None}
  /\ newest \in Versions
  /\ openssl \in {"works", "unusable"}
  /\ foreign \subseteq Assets
  /\ blind \in BOOLEAN

\* A tag stays unresolved only until the step that resolves it, so every binary,
\* collector file and unit on the host comes from a release that exists.
TypeOK ==
  /\ SessionTypeOK
  /\ HostTypeOK
  /\ step \notin {"idle", "resolve"} => tag \in Versions

\* Nothing altered is ever installed (binary, collectors, units, updater), over
\* any number of runs, failures and power losses, unless some run without
\* STRICT_VERIFY went on where neither a verifier nor a signature was at hand: a
\* mismatch always aborts (verify_signature, verify_one).
OnlyAuthentic == foreign = {} \/ blind

\* The symlink is only ever pointed at a binary that was copied to its last byte,
\* also when an earlier run died while writing that very version (install.sh 264-269).
SwapsToWhole == [][link' # link => Executable(link')]_installerVars

\* The credentials of an enrolled host survive every later run, however it ends
\* ("config.json is preserved"): they came from a token that works only once.  Once
\* they are on disk they survive a power loss too; before that a power loss is the
\* one thing that takes them.
EnrolmentKept ==
  [][/\ config = "ready" => config' = "ready"
     /\ config = "fresh" => config' \in {"fresh", "ready"} \/ PowerLoss]_installerVars
=============================================================================
