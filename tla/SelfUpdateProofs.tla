---------------------------- MODULE SelfUpdateProofs ----------------------------
(***************************************************************************)
(* Theorems about the nightly self-update, for any number of releases,     *)
(* profiles and power losses and any set of altered downloads.             *)
(*                                                                         *)
(* The invariant is built up in layers, each proved with the help of those *)
(* before it: types (UpdateTypeOK) with the variables that the updater and *)
(* the script share (RunInv), what the symlink points at (BootInv), what   *)
(* an outcome says about the host (OutcomeInv).  What has been verified    *)
(* (AuthInv) is taken over from InstallerProofs.                           *)
(***************************************************************************)
EXTENDS SelfUpdate, InstallerProofs

BeforeSwap == {"resolve", "download", "authenticate", "checksum", "copy", "copying", "link"}
Activating == {"profiles", "units", "activate"}

\* The script runs only while the updater waits for it, strict and on an enrolled
\* host, with the tag the updater has pinned.
RunInv ==
  /\ config = "ready"
  /\ run.strict /\ ~blind
  /\ step # "idle" => pc = "apply" /\ enrolled /\ run.version = desired
  /\ step \in {"idle"} \cup BeforeSwap \cup Activating
  /\ step \notin {"idle", "resolve"} => tag = desired
  /\ pc \in {"compare", "apply", "gate"} => desired \in Versions
  /\ pc = "resolve" => desired = Latest
  /\ pc \in {"apply", "gate", "rollback", "restart"} => prev \in Versions
  /\ phase \in {"writing", "filling", "renaming"} => got \in Versions \cup {Latest}
  /\ phase = "renaming" => tmp = got
  /\ DirectiveIsWhole
  /\ link \in Versions
  /\ phase # "down" => running \in Versions

TypeInv == UpdateTypeOK /\ RunInv

\* The symlink moves from prev to a binary that has been copied, the binary that is being
\* written is never the one it points at, and what a run may go back to has been on disk,
\* whole or emptied by a power loss, since before the run.
BootInv ==
  /\ bin[link] # "absent"
  /\ pc \in {"resolve", "compare"} => Dirty = {}
  /\ pc \in {"apply", "gate", "rollback", "restart"} => bin[prev] \in {"partial", "whole"}
  /\ step \in BeforeSwap => link = prev
  /\ pc \in {"apply", "gate", "rollback"} => desired # prev
  /\ step = "link" => Executable(desired)
  /\ step \in Activating => link = desired

\* The host once the script has succeeded.
Upgraded == link = desired /\ units.agent = desired /\ running \in {None, link}

OutcomeInv ==
  /\ outcome # "none" => pc = "idle"
  /\ step = "activate" => units.agent = desired
  /\ pc = "apply" /\ step = "idle" /\ rc = "ok" => Upgraded
  /\ pc = "gate" => Upgraded
  /\ pc = "rollback" => link = desired
  /\ pc = "restart" => link = prev
  /\ OutcomeHonest

-----------------------------------------------------------------------------
(* Types, and what the updater and the script share *)

\* The marks of an absent and of a torn file are no versions.
LEMMA ValuesApart ==
  /\ Absent \notin Versions \cup {None, Latest}
  /\ Torn \notin Versions \cup {None, Latest, Absent}
  BY VersionsExist DEF Absent, Torn, None, Latest, Versions

\* What a step of the agent leaves alone.
LEMMA AroundAgent ==
  ASSUME Agent
  PROVE  /\ UNCHANGED <<step, run, enrolled, tag, work, rc, blind>>
         /\ UNCHANGED <<bin, link, config, collectors, units, installSh, timer, enabled>>
         /\ UNCHANGED <<foreign, newest, openssl, asked, pc, desired, prev, outcome, losses>>
<1>1. UNCHANGED <<script, disk, world, asked, updater, losses>>
  BY DEF Agent, AgentStep, Reply, Rejected, OpenTmp, FillTmp, Rename, RecordFails,
       LogAccepted, Crash, Respawn
<1> QED
  BY <1>1 DEF script, session, disk, units_, world, updater

\* The variables of the agent itself.
AgentOK ==
  /\ running \in Versions \cup {None}
  /\ phase # "down" => running \in Versions
  /\ phase \in {"down", "starting", "waiting", "writing", "filling", "renaming",
               "posting"}
  /\ got \in Directives
  /\ phase \in {"writing", "filling", "renaming"} => got \in Versions \cup {Latest}
  /\ tmp \in Versions \cup {Latest, Absent, Torn}
  /\ phase = "renaming" => tmp = got
  /\ desiredFile \in Versions \cup {Latest, Absent}
  /\ journal \subseteq Versions

\* A fresh process runs a version, and has no directive at hand.
LEMMA FreshAgent ==
  ASSUME AgentOK, Fresh, running' \in Versions \cup {None},
         UNCHANGED <<desiredFile, journal>>
  PROVE  AgentOK'
<1>1. got' = None /\ tmp' = Absent /\ phase' \in {"down", "starting"}
      /\ (phase' # "down" => running' # None)
  BY DEF Fresh
<1> QED
  BY <1>1 DEF AgentOK, Directives

\* The steps of the agent keep its own variables in order.
LEMMA AgentKeeps ==
  ASSUME AgentOK, asked \in Directives, link \in Versions, Agent
  PROVE  AgentOK'
<1>1. CASE Reply
  <2>1. UNCHANGED <<running, tmp, desiredFile, journal>> /\ got' = asked
        /\ phase # "down" /\ phase' \in {"posting", "writing"}
        /\ (phase' = "writing" => asked # None)
    BY <1>1 DEF Reply, files
  <2> QED
    BY <2>1 DEF AgentOK, Directives
<1>2. CASE Rejected
  <2>1. UNCHANGED <<running, got, tmp, desiredFile, journal>>
        /\ phase = "starting" /\ phase' = "waiting"
    BY <1>2 DEF Rejected, files
  <2> QED
    BY <2>1 DEF AgentOK
<1>3. CASE OpenTmp \/ FillTmp
  <2>1. UNCHANGED <<running, got, desiredFile, journal>>
        /\ \/ phase = "writing" /\ phase' = "filling" /\ tmp' = Torn
           \/ phase = "filling" /\ phase' = "renaming" /\ tmp' = got
    BY <1>3 DEF OpenTmp, FillTmp
  <2> QED
    BY <2>1 DEF AgentOK
<1>4. CASE Rename
  <2>1. UNCHANGED <<running, got, journal>> /\ desiredFile' = tmp /\ tmp' = Absent
        /\ phase = "renaming" /\ phase' = "posting"
    BY <1>4 DEF Rename
  <2> QED
    BY <2>1 DEF AgentOK
<1>5. CASE RecordFails
  <2>1. UNCHANGED <<running, got, desiredFile, journal>> /\ tmp' = Absent
        /\ phase # "down" /\ phase' = "posting"
    BY <1>5 DEF RecordFails
  <2> QED
    BY <2>1 DEF AgentOK
<1>6. CASE LogAccepted
  <2>1. UNCHANGED <<running, tmp, desiredFile>> /\ got' = None
        /\ phase = "posting" /\ phase' = "waiting"
        /\ journal' \in {journal, journal \cup {running}}
    BY <1>6 DEF LogAccepted, Logged, files
  <2>2. journal' \subseteq Versions
    BY <2>1 DEF AgentOK
  <2> QED
    BY <2>1, <2>2 DEF AgentOK, Directives
<1>7. CASE Crash
  BY <1>7, FreshAgent DEF Crash
<1>8. CASE Respawn
  <2>1. running' \in Versions \cup {None}
    BY <1>8 DEF Respawn, Launched
  <2> QED
    BY <1>8, <2>1, FreshAgent DEF Respawn
<1> QED
  BY <1>1, <1>2, <1>3, <1>4, <1>5, <1>6, <1>7, <1>8 DEF Agent

\* The agent's variables are in order whenever the types are.
LEMMA AgentIsOK ==
  ASSUME TypeInv
  PROVE  AgentOK /\ asked \in Directives /\ link \in Versions
<1>1. desiredFile \in Versions \cup {Latest, Absent}
  BY DEF TypeInv, RunInv, UpdateTypeOK, AgentAndUpdaterTypeOK, DirectiveIsWhole
<1> QED
  BY <1>1 DEF TypeInv, RunInv, UpdateTypeOK, TypeOK, HostTypeOK, AgentAndUpdaterTypeOK,
       AgentOK

\* What a step of the agent leaves alone, and its own variables, make up the types.
LEMMA AgentTypes ==
  ASSUME TypeInv, Agent
  PROVE  TypeInv'
<1>1. AgentOK'
  BY AgentIsOK, AgentKeeps
<1>2. TypeOK'
  BY <1>1, AroundAgent DEF AgentOK, TypeInv, UpdateTypeOK, TypeOK, SessionTypeOK,
       HostTypeOK
<1>3. AgentAndUpdaterTypeOK'
  BY <1>1, AroundAgent DEF AgentOK, TypeInv, UpdateTypeOK, AgentAndUpdaterTypeOK
<1>4. RunInv'
  <2>1. DirectiveIsWhole'
    BY <1>1, AroundAgent, ValuesApart DEF AgentOK, TypeInv, RunInv, DirectiveIsWhole
  <2> QED
    BY <1>1, <2>1, AroundAgent DEF AgentOK, TypeInv, RunInv
<1> QED
  BY <1>2, <1>3, <1>4 DEF TypeInv, UpdateTypeOK

\* What the updater leaves alone while it does not call the script.
LEMMA AroundUpdater ==
  ASSUME RunInv, Updater, ~RunScript, ~Apply
  PROVE  /\ UNCHANGED <<step, run, enrolled, tag, work, rc, blind>>
         /\ UNCHANGED <<bin, config, collectors, units, installSh, timer, enabled>>
         /\ UNCHANGED <<foreign, newest, openssl, asked, desiredFile, losses>>
         /\ step = "idle"
<1>1. UNCHANGED <<script, bin, config, collectors, units_, foreign>>
  BY DEF Updater, TimerFires, ResolveLatest, CannotResolve, NothingToDo, Installed,
       InstallerFailed, GatePasses, GateTimesOut, RollbackLink, RollbackRestart, disk
<1>2. UpdaterStep
  BY DEF Updater, TimerFires, ResolveLatest, CannotResolve, NothingToDo, Installed,
       InstallerFailed, GatePasses, GateTimesOut, RollbackLink, RollbackRestart
<1>3. step = "idle"
  BY DEF RunInv, Updater, TimerFires, ResolveLatest, CannotResolve, NothingToDo,
       Installed, InstallerFailed, GatePasses, GateTimesOut, RollbackLink,
       RollbackRestart
<1> QED
  BY <1>1, <1>2, <1>3 DEF UpdaterStep, script, session, units_, world

\* The variables of the updater itself, and the symlink it may put back.
UpdaterOK ==
  /\ link \in Versions
  /\ pc \in {"idle", "resolve", "compare", "apply", "gate", "rollback", "restart"}
  /\ desired \in Directives
  /\ prev \in Versions \cup {None}
  /\ pc \in {"compare", "apply", "gate"} => desired \in Versions
  /\ pc = "resolve" => desired = Latest
  /\ pc \in {"apply", "gate", "rollback", "restart"} => prev \in Versions
  /\ outcome \in {"none", "skipped", "same", "no installer", "left in place", "healthy",
                 "rolled back", "cut short"}

\* The steps of the updater keep its own variables in order.
LEMMA UpdaterKeeps ==
  ASSUME UpdaterOK, RunInv, Updater, ~RunScript, ~Apply,
         desiredFile \in Versions \cup {Latest, Absent}, newest \in Versions
  PROVE  UpdaterOK'
<1>1. CASE TimerFires
  <2>1. /\ link' = link /\ prev' = None /\ outcome' = "none"
        /\ desired' \in Versions \cup {Latest}
        /\ pc' = IF desired' = Latest THEN "resolve" ELSE "compare"
    BY <1>1, AroundUpdater DEF TimerFires, disk
  <2> QED
    BY <2>1, VersionsApart DEF UpdaterOK, Directives
<1>2. CASE ResolveLatest
  <2>1. /\ UNCHANGED <<link, prev, outcome>> /\ desired' \in Versions /\ pc' = "compare"
    BY <1>2 DEF ResolveLatest, disk
  <2> QED
    BY <2>1 DEF UpdaterOK, Directives
<1>3. CASE CannotResolve
  <2>1. /\ UNCHANGED <<link, desired, prev>> /\ pc' = "idle" /\ outcome' = "skipped"
    BY <1>3 DEF CannotResolve, Finish, disk
  <2> QED
    BY <2>1 DEF UpdaterOK
<1>4. CASE NothingToDo
  <2>1. /\ UNCHANGED <<link, desired>> /\ prev' = link /\ pc' = "idle"
        /\ outcome' \in {"same", "no installer"}
    BY <1>4 DEF NothingToDo, Finish, disk
  <2> QED
    BY <2>1 DEF UpdaterOK
<1>5. CASE Installed \/ GateTimesOut
  <2>1. /\ UNCHANGED <<link, desired, prev, outcome>> /\ pc \in {"apply", "gate"}
        /\ \/ pc' = "rollback"
           \/ pc' = "gate"
    BY <1>5 DEF Installed, GateTimesOut, disk
  <2> QED
    BY <2>1 DEF UpdaterOK
<1>6. CASE InstallerFailed \/ GatePasses
  <2>1. /\ UNCHANGED <<link, desired, prev>> /\ pc' = "idle"
        /\ outcome' \in {"left in place", "healthy"}
    BY <1>6 DEF InstallerFailed, GatePasses, Finish, disk
  <2> QED
    BY <2>1 DEF UpdaterOK
<1>7. CASE RollbackLink
  <2>1. /\ UNCHANGED <<desired, prev, outcome>> /\ pc = "rollback" /\ pc' = "restart"
        /\ link' = prev
    BY <1>7 DEF RollbackLink
  <2> QED
    BY <2>1 DEF UpdaterOK
<1>8. CASE RollbackRestart
  <2>1. /\ UNCHANGED <<link, desired, prev>> /\ pc' = "idle" /\ outcome' = "rolled back"
    BY <1>8 DEF RollbackRestart, Finish, disk
  <2> QED
    BY <2>1 DEF UpdaterOK
<1> QED
  BY <1>1, <1>2, <1>3, <1>4, <1>5, <1>6, <1>7, <1>8 DEF Updater

\* The steps of the updater keep the agent's variables in order: at most they clear
\* the journal or start the process afresh.
LEMMA AgentUnderUpdater ==
  ASSUME AgentOK, RunInv, Updater, ~RunScript, ~Apply
  PROVE  AgentOK'
<1>1. CASE RollbackRestart
  <2>1. running' \in Versions \cup {None} /\ Fresh /\ UNCHANGED <<desiredFile, journal>>
    BY <1>1, AroundUpdater DEF RollbackRestart, Launched, RunInv
  <2> QED
    BY <2>1, FreshAgent
<1>2. CASE ~RollbackRestart
  <2>1. UNCHANGED <<running, phase, got, tmp>> /\ journal' \in {{}, journal}
    BY <1>2 DEF Updater, TimerFires, ResolveLatest, CannotResolve, NothingToDo,
         Installed, InstallerFailed, GatePasses, GateTimesOut, RollbackLink, agent, files
  <2>2. desiredFile' = desiredFile /\ journal' \subseteq Versions
    BY <2>1, AroundUpdater DEF AgentOK
  <2> QED
    BY <2>1, <2>2 DEF AgentOK
<1> QED
  BY <1>1, <1>2

\* The updater's variables are in order whenever the types are.
LEMMA UpdaterIsOK ==
  ASSUME TypeInv
  PROVE  UpdaterOK /\ newest \in Versions /\ desiredFile \in Versions \cup {Latest, Absent}
<1>1. desired \in Directives
  BY DEF TypeInv, RunInv, UpdateTypeOK, AgentAndUpdaterTypeOK, DirectiveIsWhole, Directives
<1> QED
  BY <1>1, AgentIsOK DEF TypeInv, RunInv, UpdateTypeOK, TypeOK, HostTypeOK,
       AgentAndUpdaterTypeOK, AgentOK, UpdaterOK

\* The steps of the updater, but for the script, keep the types.
LEMMA UpdaterTypes ==
  ASSUME TypeInv, Updater, ~RunScript, ~Apply
  PROVE  TypeInv'
<1>1. UpdaterOK'
  BY UpdaterIsOK, UpdaterKeeps DEF TypeInv
<1>2. AgentOK'
  BY AgentIsOK, AgentUnderUpdater DEF TypeInv
<1>3. /\ UNCHANGED <<step, run, enrolled, tag, work, rc, blind>>
      /\ UNCHANGED <<bin, config, collectors, units, installSh, timer, enabled>>
      /\ UNCHANGED <<foreign, newest, openssl, asked, desiredFile, losses>>
      /\ step = "idle"
  BY AroundUpdater DEF TypeInv
<1>4. TypeOK'
  <2>1. link' \in Versions \cup {None} /\ running' \in Versions \cup {None}
    BY <1>1, <1>2 DEF AgentOK, UpdaterOK
  <2>2. SessionTypeOK /\ HostTypeOK
    BY DEF TypeInv, UpdateTypeOK, TypeOK
  <2>3. SessionTypeOK'
    BY <1>3, <2>2 DEF SessionTypeOK
  <2>4. HostTypeOK'
    BY <1>3, <2>1, <2>2 DEF HostTypeOK
  <2> QED
    BY <1>3, <2>3, <2>4 DEF TypeOK
<1>5. AgentAndUpdaterTypeOK'
  <2>1. asked' \in Directives /\ losses' \in Nat
    BY <1>3 DEF TypeInv, UpdateTypeOK, AgentAndUpdaterTypeOK
  <2> QED
    BY <1>1, <1>2, <2>1 DEF AgentOK, UpdaterOK, AgentAndUpdaterTypeOK, Directives
<1>6. RunInv'
  <2>1. /\ pc' \in {"compare", "apply", "gate"} => desired' \in Versions
        /\ pc' = "resolve" => desired' = Latest
        /\ pc' \in {"apply", "gate", "rollback", "restart"} => prev' \in Versions
        /\ link' \in Versions
    BY <1>1 DEF UpdaterOK
  <2>2. /\ phase' \in {"writing", "filling", "renaming"} => got' \in Versions \cup {Latest}
        /\ phase' = "renaming" => tmp' = got'
        /\ phase' # "down" => running' \in Versions
    BY <1>2 DEF AgentOK
  <2>4. DirectiveIsWhole'
    BY <1>1, <1>2, ValuesApart DEF AgentOK, UpdaterOK, Directives, DirectiveIsWhole
  <2>3. config = "ready" /\ run.strict /\ ~blind
    BY DEF TypeInv, RunInv
  <2> QED
    BY <1>3, <2>1, <2>2, <2>3, <2>4 DEF RunInv
<1> QED
  BY <1>4, <1>5, <1>6 DEF TypeInv, UpdateTypeOK

\* Starting the installer keeps the types.
LEMMA ApplyTypes ==
  ASSUME TypeInv, Apply
  PROVE  TypeInv'
<1>1. desired \in Versions
  BY DEF TypeInv, RunInv, Apply
<1>2. UpdaterRun(desired) \in RunType
  BY <1>1 DEF UpdaterRun, RunType
<1>3. TypeOK'
  BY <1>2, StartTypes DEF Apply, TypeInv, UpdateTypeOK
<1>4. AgentAndUpdaterTypeOK'
  BY DEF Apply, TypeInv, RunInv, UpdateTypeOK, AgentAndUpdaterTypeOK, files
<1>5. RunInv'
  BY DEF Apply, Start, UpdaterRun, TypeInv, RunInv, BeforeSwap, units_, world, files,
       DirectiveIsWhole
<1> QED
  BY <1>3, <1>4, <1>5 DEF TypeInv, UpdateTypeOK

\* What the surroundings of the script do while it takes a step.
LEMMA AroundScript ==
  ASSUME TypeInv, RunScript
  PROVE  /\ Script /\ pc = "apply"
         /\ UNCHANGED <<asked, desiredFile, pc, desired, prev, outcome, losses>>
         /\ \/ phase' = phase /\ got' = got /\ tmp' = tmp
            \/ phase' \in {"down", "starting"} /\ got' = None /\ tmp' = Absent
         /\ phase' # "down" => running' \in Versions
         /\ journal' \subseteq Versions
<1>1. Script /\ pc = "apply"
         /\ UNCHANGED <<asked, desiredFile, pc, desired, prev, outcome, losses>>
  BY DEF RunScript, updater
<1>2. CASE step = "activate" /\ running' = Launched /\ Fresh
  <2>1. running' \in Versions \cup {None}
    BY <1>2 DEF Launched, TypeInv, RunInv
  <2>2. journal' \subseteq Versions
    BY <1>2 DEF RunScript, Logged, TypeInv, RunInv, UpdateTypeOK, AgentAndUpdaterTypeOK
  <2> QED
    BY <1>1, <1>2, <2>1, <2>2 DEF Fresh
<1>3. CASE (step = "activate" => rc' = "failed" /\ UNCHANGED running)
           /\ UNCHANGED <<phase, got, tmp, journal>>
  <2>1. running' = running
    BY <1>1, <1>3 DEF Script, Resolve, Download, Authenticate, RefuseRelease, Checksum,
         ChecksumMismatch, CopyBegins, CopyEnds, Link, Enrol, WriteConfig,
         ActivateProfiles, InstallUnits, Activate, Fail, FailInProfiles, FailInUnits,
         FailInActivate
  <2>2. (phase # "down" => running \in Versions) /\ journal \subseteq Versions
    BY DEF TypeInv, RunInv, UpdateTypeOK, AgentAndUpdaterTypeOK
  <2> QED
    BY <1>1, <1>3, <2>1, <2>2
<1> QED
  BY <1>2, <1>3 DEF RunScript

\* A step of the script keeps what relates the run to the updater.
LEMMA ScriptRuns ==
  ASSUME TypeInv, Script, pc = "apply", UNCHANGED <<pc, desired, prev, desiredFile>>,
         (phase' = phase /\ got' = got /\ tmp' = tmp) \/ phase' \in {"down", "starting"},
         phase' # "down" => running' \in Versions
  PROVE  RunInv'
<1> USE DEF TypeInv, RunInv, UpdateTypeOK, TypeOK, SessionTypeOK, DirectiveIsWhole
<1>1. CASE Resolve
  BY <1>1, VersionsApart DEF Resolve, Proceed, world, BeforeSwap, Activating
<1>2. CASE Download
  BY <1>2, VersionsApart DEF Download, Proceed, world, BeforeSwap, Activating
<1>3. CASE Authenticate
  BY <1>3, VersionsApart DEF Authenticate, Proceed, session, world, BeforeSwap,
       Activating, Verdict
<1>4. CASE RefuseRelease
  BY <1>4, VersionsApart DEF RefuseRelease, Exit, NoRun, NoWork, world, BeforeSwap,
       Activating
<1>5. CASE Checksum
  BY <1>5, VersionsApart DEF Checksum, Proceed, session, world, BeforeSwap, Activating
<1>6. CASE ChecksumMismatch
  BY <1>6, VersionsApart DEF ChecksumMismatch, Exit, NoRun, NoWork, world, BeforeSwap,
       Activating
<1>7. CASE CopyBegins
  BY <1>7, VersionsApart DEF CopyBegins, Proceed, session, world, BeforeSwap, Activating
<1>8. CASE CopyEnds
  BY <1>8, VersionsApart DEF CopyEnds, Proceed, session, world, BeforeSwap, Activating
<1>9. CASE Link
  BY <1>9, VersionsApart DEF Link, Proceed, session, world, BeforeSwap, Activating
<1>10. CASE Enrol
  BY <1>10, VersionsApart DEF Enrol, Proceed, session, world, BeforeSwap, Activating
<1>11. CASE WriteConfig
  BY <1>11, VersionsApart DEF WriteConfig, Proceed, session, world, BeforeSwap, Activating
<1>12. CASE ActivateProfiles
  BY <1>12, VersionsApart DEF ActivateProfiles, Proceed, session, InstallProfiles,
       Requested, world, BeforeSwap, Activating
<1>13. CASE InstallUnits
  BY <1>13, VersionsApart DEF InstallUnits, Proceed, session, world, BeforeSwap,
       Activating
<1>14. CASE Activate
  BY <1>14, VersionsApart DEF Activate, Exit, NoRun, NoWork, Launched, Executable,
       world, BeforeSwap, Activating
<1>15. CASE Fail
  BY <1>15, VersionsApart DEF Fail, Exit, NoRun, NoWork, world, BeforeSwap, Activating
<1>16. CASE FailInProfiles
  BY <1>16, VersionsApart DEF FailInProfiles, Exit, NoRun, NoWork, InstallProfiles,
       Requested, world, BeforeSwap, Activating
<1>17. CASE FailInUnits
  BY <1>17, VersionsApart DEF FailInUnits, Exit, NoRun, NoWork, world, BeforeSwap,
       Activating
<1>18. CASE FailInActivate
  BY <1>18, VersionsApart DEF FailInActivate, Exit, NoRun, NoWork, Launched, Executable,
       world, BeforeSwap, Activating
<1> QED
  BY <1>1, <1>2, <1>3, <1>4, <1>5, <1>6, <1>7, <1>8, <1>9, <1>10, <1>11, <1>12, <1>13,
       <1>14, <1>15, <1>16, <1>17, <1>18 DEF Script

\* The script run by the updater keeps the types.
LEMMA RunScriptTypes ==
  ASSUME TypeInv, RunScript
  PROVE  TypeInv'
<1>1. TypeOK'
  BY AroundScript, ScriptTypes DEF TypeInv, UpdateTypeOK
<1>2. AgentAndUpdaterTypeOK'
  <2>1. AgentAndUpdaterTypeOK
    BY DEF TypeInv, UpdateTypeOK
  <2>2. /\ phase' \in {"down", "starting", "waiting", "writing", "filling", "renaming",
                       "posting"}
        /\ got' \in Directives /\ tmp' \in Versions \cup {Latest, Absent, Torn}
    BY <2>1, AroundScript DEF AgentAndUpdaterTypeOK, Directives
  <2> QED
    BY <2>1, <2>2, AroundScript DEF AgentAndUpdaterTypeOK
<1>3. RunInv'
  BY AroundScript, ScriptRuns
<1> QED
  BY <1>1, <1>2, <1>3 DEF TypeInv, UpdateTypeOK

\* The loss of the host keeps the types.
LEMMA HostDownTypes ==
  ASSUME TypeInv, HostDown
  PROVE  TypeInv'
<1>1. TypeOK'
  BY PowerLossTypes DEF HostDown, TypeInv, UpdateTypeOK
<1>2. AgentAndUpdaterTypeOK'
  <2>1. desiredFile' \in {desiredFile, Absent} /\ losses' = losses + 1
    BY DEF HostDown
  <2>2. phase' \in {"down", "starting"} /\ got' \in Directives /\ tmp' = Absent
    BY DEF HostDown, Fresh, Directives
  <2>3. /\ UNCHANGED <<asked, desired, prev, journal>> /\ pc' = "idle"
        /\ outcome' \in {outcome, "cut short"}
    BY DEF HostDown
  <2>4. AgentAndUpdaterTypeOK
    BY DEF TypeInv, UpdateTypeOK
  <2>5. desiredFile' \in Versions \cup {Latest, Absent}
    <3>1. desiredFile \in Versions \cup {Latest, Absent}
      BY UpdaterIsOK
    <3> QED
      BY <2>1, <3>1
  <2>6. losses' \in Nat
    <3>1. losses \in Nat /\ losses' = losses + 1
      BY <2>4 DEF AgentAndUpdaterTypeOK, HostDown
    <3> QED
      BY <3>1
  <2>7. outcome' \in {"none", "skipped", "same", "no installer", "left in place", "healthy",
                      "rolled back", "cut short"}
    BY <2>3, <2>4 DEF AgentAndUpdaterTypeOK
  <2> QED
    BY <2>2, <2>3, <2>4, <2>5, <2>6, <2>7 DEF AgentAndUpdaterTypeOK
<1>3. RunInv'
  BY ValuesApart DEF HostDown, PowerLoss, Launched, Exit, NoRun, Fresh, TypeInv, RunInv,
       world, DirectiveIsWhole
<1> QED
  BY <1>1, <1>2, <1>3 DEF TypeInv, UpdateTypeOK

\* So does writing back.
LEMMA FlushTypes ==
  ASSUME TypeInv, Flush
  PROVE  TypeInv'
<1>1. TypeOK'
  BY WriteBackTypes DEF Flush, TypeInv, UpdateTypeOK
<1>2. /\ UNCHANGED <<step, run, enrolled, tag, blind, link, running>>
      /\ UNCHANGED <<asked, phase, got, tmp, desiredFile, pc, desired, prev, outcome>>
      /\ UNCHANGED <<journal, losses>>
      /\ config = "ready" => config' = "ready"
  BY DEF Flush, WriteBack, session, updater, files
<1>3. AgentAndUpdaterTypeOK'
  <2>1. AgentAndUpdaterTypeOK
    BY DEF TypeInv, UpdateTypeOK
  <2>2. AgentOK' /\ UpdaterOK'
    <3>1. AgentOK'
      BY <1>2, AgentIsOK DEF AgentOK
    <3>2. UpdaterOK'
      BY <1>2, UpdaterIsOK DEF UpdaterOK
    <3> QED
      BY <3>1, <3>2
  <2>3. asked' \in Directives /\ losses' \in Nat
    BY <1>2, <2>1 DEF AgentAndUpdaterTypeOK
  <2> QED
    BY <2>2, <2>3 DEF AgentOK, UpdaterOK, AgentAndUpdaterTypeOK, Directives
<1>4. RunInv'
  BY <1>2 DEF TypeInv, RunInv, DirectiveIsWhole
<1> QED
  BY <1>1, <1>3, <1>4 DEF TypeInv, UpdateTypeOK

\* A new wish, a new release and a stutter keep the types.
LEMMA WorldTypes ==
  ASSUME TypeInv, (\E d \in Ring : Ask(d)) \/ NewRelease \/ UNCHANGED vars
  PROVE  TypeInv'
<1>1. /\ UNCHANGED <<step, run, enrolled, tag, work, rc, blind, bin, link, config,
                     collectors, units, installSh, timer, enabled, foreign>>
      /\ UNCHANGED <<running, phase, got, tmp, desiredFile, journal>>
      /\ UNCHANGED <<pc, desired, prev, outcome, losses>>
  BY DEF Ask, NewRelease, Publish, vars, installerVars, script, session, disk, units_,
       agent, files, updater
<1>2. asked' \in Directives
  BY RingIsKnown DEF Ask, NewRelease, vars, TypeInv, UpdateTypeOK, AgentAndUpdaterTypeOK,
       Directives
<1>3. TypeOK'
  <2>1. CASE UNCHANGED <<newest, openssl>>
    BY <1>1, <2>1 DEF TypeInv, UpdateTypeOK, TypeOK, SessionTypeOK, HostTypeOK
  <2>2. CASE NewRelease
    BY <2>2, PublishTypes DEF NewRelease, TypeInv, UpdateTypeOK
  <2> QED
    BY <2>1, <2>2 DEF Ask, vars, installerVars, world
<1>4. AgentOK' /\ UpdaterOK'
  <2>1. AgentOK'
    BY <1>1, AgentIsOK DEF AgentOK
  <2>2. UpdaterOK'
    BY <1>1, UpdaterIsOK DEF UpdaterOK
  <2> QED
    BY <2>1, <2>2
<1>5. AgentAndUpdaterTypeOK'
  <2>1. losses' \in Nat
    BY <1>1 DEF TypeInv, UpdateTypeOK, AgentAndUpdaterTypeOK
  <2> QED
    BY <1>2, <1>4, <2>1 DEF AgentOK, UpdaterOK, AgentAndUpdaterTypeOK, Directives
<1>6. RunInv'
  BY <1>1 DEF TypeInv, RunInv, DirectiveIsWhole
<1> QED
  BY <1>3, <1>5, <1>6 DEF TypeInv, UpdateTypeOK

\* Every step keeps the types.
LEMMA UpdateTypes ==
  ASSUME TypeInv, [UpdateNext]_vars
  PROVE  TypeInv'
  BY AgentTypes, UpdaterTypes, ApplyTypes, RunScriptTypes, HostDownTypes, FlushTypes,
     WorldTypes DEF UpdateNext

-----------------------------------------------------------------------------
(* What does not move the updater or the script *)

Outside == Agent \/ (\E d \in Ring : Ask(d)) \/ NewRelease \/ UNCHANGED vars

\* The agent, ICLIC and GitHub leave the run of the updater alone.
LEMMA Surroundings ==
  ASSUME Outside
  PROVE  /\ UNCHANGED <<step, run, enrolled, tag, work, rc, blind, foreign>>
         /\ UNCHANGED <<bin, link, config, units, pc, desired, prev, outcome>>
         /\ running' \in {running, None} \cup {link}
         /\ journal # {} => journal' # {}
<1>1. CASE Agent
  <2>1. UNCHANGED <<script, bin, link, config, collectors, units_, foreign, updater>>
    BY <1>1 DEF Agent, AgentStep, Reply, Rejected, OpenTmp, FillTmp, Rename,
         RecordFails, LogAccepted, Crash, Respawn, disk
  <2>2. running' \in {running, None, link}
    BY <1>1 DEF Agent, Reply, Rejected, OpenTmp, FillTmp, Rename, RecordFails,
         LogAccepted, Crash, Respawn, Launched
  <2>3. journal # {} => journal' # {}
    BY <1>1 DEF Agent, Reply, Rejected, OpenTmp, FillTmp, Rename, RecordFails,
         LogAccepted, Crash, Respawn, Logged
  <2> QED
    BY <2>1, <2>2, <2>3 DEF script, session, units_, updater
<1>2. CASE \E d \in Ring : Ask(d)
  BY <1>2 DEF Ask, script, session, disk, units_, agent, updater
<1>3. CASE NewRelease
  BY <1>3 DEF NewRelease, Publish, session, units_, updater
<1>4. CASE UNCHANGED vars
  BY <1>4 DEF vars, installerVars, session, units_, updater
<1> QED
  BY <1>1, <1>2, <1>3, <1>4 DEF Outside

\* A step of the script, as the updater sees it.
LEMMA ScriptOfUpdater ==
  ASSUME TypeInv, RunScript
  PROVE  /\ Script /\ pc = "apply" /\ prev \in Versions /\ desired \in Versions
         /\ run.strict /\ UNCHANGED <<pc, desired, prev, outcome>>
         /\ step \notin {"idle", "resolve"} => tag = desired
         /\ step # "idle" => enrolled
         /\ step \in {"idle"} \cup BeforeSwap \cup Activating
         /\ bin \in [Versions -> {"absent", "partial", "fresh", "whole"}]
  BY AroundScript DEF TypeInv, RunInv, UpdateTypeOK, TypeOK, HostTypeOK

\* Every step is one outside the updater, one of the updater, or one of the disk.
LEMMA UpdateSteps ==
  ASSUME [UpdateNext]_vars
  PROVE  Outside \/ Updater \/ Flush \/ HostDown
  BY DEF UpdateNext, Outside

-----------------------------------------------------------------------------
(* What the symlink points at *)

\* The script keeps in order what the symlink leads to.
LEMMA ScriptBoots ==
  ASSUME TypeInv, BootInv, RunScript
  PROVE  BootInv'
<1> USE ScriptOfUpdater DEF TypeInv, RunInv, BootInv, Executable, BeforeSwap, Activating
<1>1. CASE Resolve
  BY <1>1 DEF Resolve, Proceed
<1>2. CASE Download
  BY <1>2 DEF Download, Proceed
<1>3. CASE Authenticate
  BY <1>3 DEF Authenticate, Proceed, session
<1>4. CASE RefuseRelease
  BY <1>4 DEF RefuseRelease, Exit, NoRun, NoWork
<1>5. CASE Checksum
  BY <1>5 DEF Checksum, Proceed, session
<1>6. CASE ChecksumMismatch
  BY <1>6 DEF ChecksumMismatch, Exit, NoRun, NoWork
<1>7. CASE CopyBegins
  BY <1>7 DEF CopyBegins, Proceed, session
<1>8. CASE CopyEnds
  BY <1>8 DEF CopyEnds, Proceed, session
<1>9. CASE Link
  BY <1>9 DEF Link, Proceed, session
<1>10. CASE Enrol
  BY <1>10 DEF Enrol, Proceed, session
<1>11. CASE WriteConfig
  BY <1>11 DEF WriteConfig, Proceed, session
<1>12. CASE ActivateProfiles
  BY <1>12 DEF ActivateProfiles, Proceed, session, InstallProfiles, Requested
<1>13. CASE InstallUnits
  BY <1>13 DEF InstallUnits, Proceed, session
<1>14. CASE Activate
  BY <1>14 DEF Activate, Exit, NoRun, NoWork
<1>15. CASE Fail
  BY <1>15 DEF Fail, Exit, NoRun, NoWork
<1>16. CASE FailInProfiles
  BY <1>16 DEF FailInProfiles, Exit, NoRun, NoWork, InstallProfiles, Requested
<1>17. CASE FailInUnits
  BY <1>17 DEF FailInUnits, Exit, NoRun, NoWork
<1>18. CASE FailInActivate
  BY <1>18 DEF FailInActivate, Exit, NoRun, NoWork
<1> QED
  BY <1>1, <1>2, <1>3, <1>4, <1>5, <1>6, <1>7, <1>8, <1>9, <1>10, <1>11, <1>12, <1>13,
       <1>14, <1>15, <1>16, <1>17, <1>18 DEF Script

\* Every step keeps in order what the symlink leads to.
LEMMA UpdateBoots ==
  ASSUME TypeInv, BootInv, [UpdateNext]_vars
  PROVE  BootInv'
<1>1. CASE Outside
  BY <1>1, Surroundings DEF BootInv, Executable, Dirty
<1>2. CASE HostDown
  <2>1. pc' = "idle" /\ step' = "idle" /\ link' = link
    BY <1>2 DEF HostDown, PowerLoss, Exit
  <2>2. bin'[link] # "absent"
    BY <1>2 DEF HostDown, PowerLoss, BootInv, Dirty, TypeInv, RunInv
  <2> QED
    BY <2>1, <2>2 DEF BootInv, BeforeSwap, Activating
<1>4. CASE Flush
  <2>1. UNCHANGED <<pc, step, link, desired, prev>>
    BY <1>4 DEF Flush, WriteBack, updater
  <2>2. \A v \in Versions : /\ bin[v] # "absent" => bin'[v] # "absent"
                            /\ bin[v] \in {"partial", "whole"} => bin'[v] = bin[v]
                            /\ bin[v] = "fresh" => bin'[v] = "whole"
    BY <1>4 DEF Flush, WriteBack, Dirty
  <2>3. /\ link \in Versions
        /\ pc \in {"apply", "gate", "rollback", "restart"} => prev \in Versions
    BY DEF TypeInv, RunInv
  <2>4. Dirty = {} => Dirty' = {}
    BY <1>4 DEF Flush, WriteBack, Dirty
  <2> QED
    BY <2>1, <2>2, <2>3, <2>4 DEF BootInv, Executable
<1>3. CASE Updater
  <2> USE DEF TypeInv, RunInv, BootInv, Executable, Dirty, BeforeSwap, Activating
  <2>1. CASE TimerFires
    BY <2>1 DEF TimerFires, UpdaterStep, script, session, disk
  <2>2. CASE ResolveLatest
    BY <2>2 DEF ResolveLatest, UpdaterStep, script, session, disk
  <2>3. CASE CannotResolve
    BY <2>3 DEF CannotResolve, UpdaterStep, Finish, script, session, disk
  <2>4. CASE NothingToDo
    BY <2>4 DEF NothingToDo, UpdaterStep, Finish, AlreadyThere, script, session, disk
  <2>5. CASE Apply
    <3>1. /\ UNCHANGED <<bin, link, desired>> /\ pc = "compare" /\ pc' = "apply"
          /\ prev' = link /\ desired # link /\ step' = "resolve"
      BY <2>5 DEF Apply, Start, AlreadyThere
    <3>2. bin[link] \in {"partial", "whole"}
      BY <3>1 DEF UpdateTypeOK, TypeOK, HostTypeOK
    <3> QED
      BY <3>1, <3>2
  <2>6. CASE Installed
    BY <2>6 DEF Installed, UpdaterStep, script, session, disk
  <2>7. CASE InstallerFailed
    BY <2>7 DEF InstallerFailed, UpdaterStep, Finish, script, session, disk
  <2>8. CASE GatePasses
    BY <2>8 DEF GatePasses, UpdaterStep, Finish, Healthy, script, session, disk
  <2>9. CASE GateTimesOut
    BY <2>9 DEF GateTimesOut, UpdaterStep, script, session, disk
  <2>10. CASE RollbackLink
    BY <2>10 DEF RollbackLink, UpdaterStep, script, session, disk
  <2>11. CASE RollbackRestart
    BY <2>11 DEF RollbackRestart, UpdaterStep, Finish, Fresh, Launched, script, session,
         disk
  <2>12. CASE RunScript
    BY <2>12, ScriptBoots
  <2> QED
    BY <1>3, <2>1, <2>2, <2>3, <2>4, <2>5, <2>6, <2>7, <2>8, <2>9, <2>10, <2>11, <2>12
         DEF Updater
<1> QED
  BY <1>1, <1>2, <1>3, <1>4, UpdateSteps

-----------------------------------------------------------------------------
(* What an outcome says *)

\* The script says nothing of the outcome.
LEMMA ScriptOutcome ==
  ASSUME TypeInv, BootInv, OutcomeInv, RunScript
  PROVE  OutcomeInv'
<1>1. /\ units \in UnitsType /\ outcome = "none" /\ outcome' = "none" /\ pc' = "apply"
      /\ step \in Activating => link = desired
  BY AroundScript DEF TypeInv, UpdateTypeOK, TypeOK, HostTypeOK, BootInv, OutcomeInv,
       AgentAndUpdaterTypeOK
<1>2. /\ step' = "activate" => units'.agent = desired'
      /\ step' = "idle" /\ rc' = "ok" => Upgraded'
  <2> USE <1>1, ScriptOfUpdater DEF OutcomeInv, Upgraded, Activating, BeforeSwap, UnitsType
  <2>1. CASE Resolve
    BY <2>1 DEF Resolve, Proceed
  <2>2. CASE Download
    BY <2>2 DEF Download, Proceed
  <2>3. CASE Authenticate
    BY <2>3 DEF Authenticate, Proceed, session
  <2>4. CASE RefuseRelease
    BY <2>4 DEF RefuseRelease, Exit, NoRun, NoWork
  <2>5. CASE Checksum
    BY <2>5 DEF Checksum, Proceed, session
  <2>6. CASE ChecksumMismatch
    BY <2>6 DEF ChecksumMismatch, Exit, NoRun, NoWork
  <2>7. CASE CopyBegins
    BY <2>7 DEF CopyBegins, Proceed, session
  <2>8. CASE CopyEnds
    BY <2>8 DEF CopyEnds, Proceed, session
  <2>9. CASE Link
    BY <2>9 DEF Link, Proceed, session
  <2>10. CASE Enrol
    BY <2>10 DEF Enrol, Proceed, session
  <2>11. CASE WriteConfig
    BY <2>11 DEF WriteConfig, Proceed, session
  <2>12. CASE ActivateProfiles
    BY <2>12 DEF ActivateProfiles, Proceed, session, InstallProfiles, Requested
  <2>13. CASE InstallUnits
    BY <2>13 DEF InstallUnits, Proceed, session
  <2>14. CASE Activate
    BY <2>14 DEF Activate, Exit, NoRun, NoWork, Launched
  <2>15. CASE Fail
    BY <2>15 DEF Fail, Exit, NoRun, NoWork
  <2>16. CASE FailInProfiles
    BY <2>16 DEF FailInProfiles, Exit, NoRun, NoWork, InstallProfiles, Requested
  <2>17. CASE FailInUnits
    BY <2>17 DEF FailInUnits, Exit, NoRun, NoWork
  <2>18. CASE FailInActivate
    BY <2>18 DEF FailInActivate, Exit, NoRun, NoWork, Launched
  <2> QED
    BY <2>1, <2>2, <2>3, <2>4, <2>5, <2>6, <2>7, <2>8, <2>9, <2>10, <2>11, <2>12, <2>13,
         <2>14, <2>15, <2>16, <2>17, <2>18 DEF Script
<1> QED
  BY <1>1, <1>2 DEF OutcomeInv, OutcomeHonest

\* Every step keeps the outcomes honest.
LEMMA UpdateOutcome ==
  ASSUME TypeInv, BootInv, OutcomeInv, [UpdateNext]_vars
  PROVE  OutcomeInv'
<1>1. CASE Outside
  BY <1>1, Surroundings DEF OutcomeInv, OutcomeHonest, Upgraded
<1>2. CASE HostDown
  BY <1>2 DEF HostDown, PowerLoss, Exit, Launched, units_, OutcomeInv, OutcomeHonest
<1>4. CASE Flush
  BY <1>4 DEF Flush, WriteBack, updater, units_, OutcomeInv, OutcomeHonest, Upgraded
<1>3. CASE Updater
  <2> USE DEF OutcomeInv, OutcomeHonest, Upgraded
  <2>1. CASE TimerFires
    BY <2>1 DEF TimerFires, UpdaterStep, script, session, disk, agent, units_, TypeInv,
         RunInv, UpdateTypeOK, AgentAndUpdaterTypeOK, BootInv
  <2>2. CASE ResolveLatest
    BY <2>2 DEF ResolveLatest, UpdaterStep, script, session, disk, agent, units_,
         TypeInv, RunInv, UpdateTypeOK, AgentAndUpdaterTypeOK, BootInv
  <2>3. CASE CannotResolve
    BY <2>3 DEF CannotResolve, UpdaterStep, Finish, script, session, disk, agent,
         units_, TypeInv, RunInv, UpdateTypeOK, AgentAndUpdaterTypeOK, BootInv
  <2>4. CASE NothingToDo
    BY <2>4 DEF NothingToDo, UpdaterStep, Finish, AlreadyThere, script, session, disk,
         agent, units_, TypeInv, RunInv, UpdateTypeOK, AgentAndUpdaterTypeOK, BootInv
  <2>5. CASE Apply
    BY <2>5 DEF Apply, UpdaterStep, Start, UpdaterRun, AlreadyThere, script, session,
         disk, agent, units_, TypeInv, RunInv, UpdateTypeOK, AgentAndUpdaterTypeOK,
         BootInv
  <2>6. CASE Installed
    BY <2>6 DEF Installed, UpdaterStep, script, session, disk, agent, units_, TypeInv,
         RunInv, UpdateTypeOK, AgentAndUpdaterTypeOK, BootInv
  <2>7. CASE InstallerFailed
    BY <2>7 DEF InstallerFailed, UpdaterStep, Finish, script, session, disk, agent,
         units_, TypeInv, RunInv, UpdateTypeOK, AgentAndUpdaterTypeOK, BootInv
  <2>8. CASE GatePasses
    BY <2>8 DEF GatePasses, UpdaterStep, Finish, Healthy, script, session, disk, agent,
         units_, TypeInv, RunInv, UpdateTypeOK, AgentAndUpdaterTypeOK, BootInv
  <2>9. CASE GateTimesOut
    BY <2>9 DEF GateTimesOut, UpdaterStep, script, session, disk, agent, units_,
         TypeInv, RunInv, UpdateTypeOK, AgentAndUpdaterTypeOK, BootInv
  <2>10. CASE RollbackLink
    BY <2>10 DEF RollbackLink, UpdaterStep, script, session, disk, agent, units_,
         TypeInv, RunInv, UpdateTypeOK, AgentAndUpdaterTypeOK, BootInv
  <2>11. CASE RollbackRestart
    BY <2>11 DEF RollbackRestart, UpdaterStep, Finish, Fresh, Launched, script, session,
         disk, agent, units_, TypeInv, RunInv, UpdateTypeOK, AgentAndUpdaterTypeOK,
         BootInv
  <2>12. CASE RunScript
    BY <2>12, ScriptOutcome
  <2> QED
    BY <1>3, <2>1, <2>2, <2>3, <2>4, <2>5, <2>6, <2>7, <2>8, <2>9, <2>10, <2>11, <2>12
         DEF Updater
<1> QED
  BY <1>1, <1>2, <1>3, <1>4, UpdateSteps

-----------------------------------------------------------------------------
(* The inductive invariant *)

UpdateInv == TypeInv /\ BootInv /\ OutcomeInv /\ AuthInv

\* Every step keeps what is installed authentic.
LEMMA UpdateTrust ==
  ASSUME TypeInv, AuthInv, [UpdateNext]_vars
  PROVE  AuthInv'
<1>1. CASE Outside
  BY <1>1, Surroundings DEF AuthInv, Trusted, ToVerify
<1>2. CASE HostDown
  BY <1>2, OtherTrust DEF HostDown
<1>4. CASE Flush
  BY <1>4, OtherTrust DEF Flush
<1>3. CASE Updater
  <2>1. CASE RunScript
    BY <2>1, ScriptTrust DEF RunScript, TypeInv, UpdateTypeOK
  <2>2. CASE Apply
    <3>1. UpdaterRun(desired) \in RunType /\ Start(UpdaterRun(desired))
      BY <2>2 DEF Apply, UpdaterRun, RunType, TypeInv, RunInv
    <3> QED
      BY <3>1, OtherTrust
  <2>3. CASE ~RunScript /\ ~Apply
    <3>1. UNCHANGED <<script, foreign>>
      BY <1>3, <2>3 DEF Updater, TimerFires, ResolveLatest, CannotResolve, NothingToDo,
           Installed, InstallerFailed, GatePasses, GateTimesOut, RollbackLink,
           RollbackRestart, disk
    <3> QED
      BY <3>1 DEF script, session, AuthInv, Trusted, ToVerify
  <2> QED
    BY <2>1, <2>2, <2>3
<1> QED
  BY <1>1, <1>2, <1>3, <1>4, UpdateSteps

\* The inductive invariant holds at first.
LEMMA UpdateInitInv ==
  ASSUME UpdateInit
  PROVE  UpdateInv
<1> USE VersionsApart, ValuesApart DEF UpdateInit, InitWorld
<1>1. TypeOK
  <2>1. NoRun \in RunType /\ NoWork \in WorkType
    BY DEF NoRun, RunType, NoWork, WorkType
  <2>2. SessionTypeOK /\ step = "idle"
    BY <2>1 DEF SessionTypeOK, Steps
  <2>3. units \in UnitsType /\ collectors \in [Profiles -> Versions \cup {None}]
    BY DEF UnitsType
  <2>4. HostTypeOK
    BY <2>3 DEF HostTypeOK
  <2> QED
    BY <2>2, <2>4 DEF TypeOK
<1>2. AgentAndUpdaterTypeOK
  BY DEF AgentAndUpdaterTypeOK, Directives
<1>3. RunInv
  BY DEF RunInv, NoRun, DirectiveIsWhole
<1>4. BootInv
  BY DEF BootInv, BeforeSwap, Activating
<1>5. OutcomeInv
  BY DEF OutcomeInv, OutcomeHonest, Upgraded
<1>6. AuthInv
  BY DEF AuthInv, Trusted, AfterVerdict, AfterChecksum, AfterSwap
<1> QED
  BY <1>1, <1>2, <1>3, <1>4, <1>5, <1>6 DEF UpdateInv, TypeInv, UpdateTypeOK

\* The inductive invariant holds.
LEMMA UpdateInvHolds == UpdateSpec => []UpdateInv
<1>1. UpdateInit => UpdateInv
  BY UpdateInitInv
<1>2. UpdateInv /\ [UpdateNext]_vars => UpdateInv'
  BY UpdateTypes, UpdateBoots, UpdateOutcome, UpdateTrust DEF UpdateInv
<1> QED
  BY <1>1, <1>2, PTL DEF UpdateSpec

\* Every variable of the host, the agent and the updater keeps its type.
THEOREM UpdateTypeCorrect == UpdateSpec => []UpdateTypeOK
<1>1. UpdateInv => UpdateTypeOK
  BY DEF UpdateInv, TypeInv
<1> QED
  BY <1>1, UpdateInvHolds, PTL

\* The nightly updater never installs anything but what the release key signed, and
\* never goes on without having checked it (updater.sh 73-75).
THEOREM StrictRunsAreAuthentic == UpdateSpec => []StrictIsAuthentic
<1>1. UpdateInv => StrictIsAuthentic
  BY DEF UpdateInv, TypeInv, RunInv, AuthInv, Trusted, StrictIsAuthentic
<1> QED
  BY <1>1, UpdateInvHolds, PTL

\* A step of the script leaves the binary behind the symlink executable, and the one the
\* updater may go back to as it is.
LEMMA ScriptStaysBootable ==
  ASSUME TypeInv, BootInv, RunScript
  PROVE  /\ Executable(link) => Executable(link)'
         /\ bin'[prev] = bin[prev]
<1> USE ScriptOfUpdater DEF TypeInv, RunInv, BootInv, Executable, BeforeSwap, Activating
<1>1. CASE CopyBegins
  BY <1>1 DEF CopyBegins
<1>2. CASE CopyEnds
  BY <1>2 DEF CopyEnds
<1>3. CASE Link
  BY <1>3 DEF Link
<1>4. CASE ~CopyBegins /\ ~CopyEnds /\ ~Link
  <2>1. UNCHANGED <<bin, link>>
    BY <1>4 DEF Script, Resolve, Download, Authenticate, RefuseRelease, Checksum,
         ChecksumMismatch, CopyBegins, CopyEnds, Link, Enrol, WriteConfig,
         ActivateProfiles, InstallUnits, Activate, Fail, FailInProfiles, FailInUnits,
         FailInActivate
  <2> QED
    BY <2>1
<1> QED
  BY <1>1, <1>2, <1>3, <1>4

\* Every step keeps the host bootable, but for a power loss before the binary is on disk
\* and a rollback to one that such a loss has emptied.
LEMMA StepStaysBootable ==
  ASSUME TypeInv, BootInv, [UpdateNext]_vars
  PROVE  /\ Executable(link) => \/ Executable(link)'
                                \/ HostDown /\ bin[link] = "fresh"
                                \/ RollbackLink /\ ~Executable(prev)
         /\ OnTrial /\ Executable(prev) => bin[prev] = "whole" /\ bin'[prev] = "whole"
<1>1. OnTrial => prev \in Versions /\ bin[prev] \in {"partial", "whole"}
  BY DEF OnTrial, TypeInv, RunInv, BootInv
<1>2. OnTrial /\ Executable(prev) => bin[prev] = "whole"
  BY <1>1 DEF Executable
<1>3. link \in Versions
  BY DEF TypeInv, RunInv
<1>4. CASE Outside
  BY <1>2, <1>4, Surroundings DEF Executable
<1>5. CASE Flush
  <2>1. link' = link
    BY <1>5 DEF Flush, WriteBack
  <2>2. \A v \in Versions : /\ bin[v] = "whole" => bin'[v] = "whole"
                            /\ bin[v] = "fresh" => bin'[v] = "whole"
    BY <1>5 DEF Flush, WriteBack, Dirty
  <2> QED
    BY <1>1, <1>2, <2>1, <2>2 DEF Executable
<1>6. CASE HostDown
  <2>1. link' = link
    BY <1>6 DEF HostDown, PowerLoss
  <2>2. \A v \in Versions : bin[v] = "whole" => bin'[v] = "whole"
    BY <1>6 DEF HostDown, PowerLoss, Dirty
  <2> QED
    BY <1>1, <1>2, <1>6, <2>1, <2>2 DEF Executable
<1>7. CASE Updater
  <2>1. CASE RunScript
    BY <1>2, <2>1, ScriptStaysBootable
  <2>2. CASE Apply
    BY <1>2, <2>2 DEF Apply, Start, Executable
  <2>3. CASE RollbackLink
    <3>1. bin' = bin /\ link' = prev
      BY <2>3 DEF RollbackLink
    <3> QED
      BY <1>2, <2>3, <3>1 DEF Executable
  <2>4. CASE ~RunScript /\ ~Apply /\ ~RollbackLink
    <3>1. UNCHANGED <<bin, link>>
      BY <1>7, <2>4 DEF Updater, TimerFires, ResolveLatest, CannotResolve, NothingToDo,
           Installed, InstallerFailed, GatePasses, GateTimesOut, RollbackRestart, disk
    <3> QED
      BY <1>2, <3>1 DEF Executable
  <2> QED
    BY <2>1, <2>2, <2>3, <2>4
<1> QED
  BY <1>4, <1>5, <1>6, <1>7, UpdateSteps

\* In every update, failed, rolled back or cut short, the symlink leads to a complete binary,
\* until a power loss takes one that is not on disk yet or a rollback goes back to one that
\* such a loss has emptied; the binary to go back to is on disk for as long as another is on
\* trial (install.sh 264-269, updater.sh 59).
THEOREM HostStaysBootable == UpdateSpec => AlwaysBootable
<1>1. UpdateInv /\ [UpdateNext]_vars =>
        [/\ Executable(link) => \/ Executable(link)'
                                \/ HostDown /\ bin[link] = "fresh"
                                \/ RollbackLink /\ ~Executable(prev)
         /\ OnTrial /\ Executable(prev) => bin[prev] = "whole" /\ bin'[prev] = "whole"]_vars
  BY StepStaysBootable DEF UpdateInv
<1> QED
  BY <1>1, UpdateInvHolds, PTL DEF UpdateSpec, AlwaysBootable

\* What the updater logs about a run is how the host stands (updater.sh 90-110).
THEOREM OutcomesAreHonest == UpdateSpec => []OutcomeHonest
<1>1. UpdateInv => OutcomeHonest
  BY DEF UpdateInv, OutcomeInv
<1> QED
  BY <1>1, UpdateInvHolds, PTL

\* The updater reads whole directives only: what is renamed was filled to the end with the
\* directive at hand, whatever a failed or killed write has left (recordDesiredVersion).
THEOREM DirectivesAreWhole == UpdateSpec => []DirectiveIsWhole
<1>1. UpdateInv => DirectiveIsWhole
  BY DEF UpdateInv, TypeInv, RunInv
<1> QED
  BY <1>1, UpdateInvHolds, PTL

-----------------------------------------------------------------------------
(* Refinement *)

\* A trial begins with the swap of the symlink, which finds no trial in progress.
LEMMA SwapIsTry ==
  ASSUME TypeInv, BootInv, RunScript, Link
  PROVE  \E v \in Versions : Gated!Try(v)
<1>1. /\ desired \in Versions /\ desired # prev /\ tag = desired /\ link = prev
      /\ pc = "apply" /\ pc' = "apply" /\ prev' = prev /\ prev # None
  BY ScriptOfUpdater, VersionsApart DEF Link, BootInv, BeforeSwap
<1>2. link' = desired
  BY <1>1 DEF Link
<1>3. Gated!Try(desired)
  BY <1>1, <1>2 DEF Gated!Try, OnTrial
<1> QED
  BY <1>1, <1>3

\* Only one step of the script moves the link.
LEMMA ScriptOtherwise ==
  ASSUME Script, ~Link
  PROVE  UNCHANGED link
  BY DEF Script, Resolve, Download, Authenticate, RefuseRelease, Checksum,
       ChecksumMismatch, CopyBegins, CopyEnds, Link, Enrol, WriteConfig,
       ActivateProfiles, InstallUnits, Activate, Fail, FailInProfiles, FailInUnits,
       FailInActivate

\* What ends without touching the symlink leaves the version on trial in place.
LEMMA EndKeeps ==
  ASSUME TypeInv, link' = link, prev' = prev, pc' = "idle"
  PROVE  Gated!Keep \/ UNCHANGED Gated!vars
<1>1. OnTrial => prev # None
  BY VersionsApart DEF TypeInv, RunInv, OnTrial
<1> QED
  BY <1>1 DEF OnTrial, Gated!Keep, Gated!vars

\* Every step is one of GatedUpgrade or a stutter.
LEMMA UpdateRefines ==
  ASSUME TypeInv, BootInv, OutcomeInv, [UpdateNext]_vars
  PROVE  [Gated!Next]_Gated!vars
<1>1. CASE Outside
  BY <1>1, Surroundings DEF OnTrial, Gated!vars
<1>2. CASE HostDown
  BY <1>2, EndKeeps DEF HostDown, PowerLoss, Gated!Next
<1>9. CASE Flush
  <2>1. UNCHANGED <<link, pc, prev>>
    BY <1>9 DEF Flush, WriteBack, updater
  <2> QED
    BY <2>1 DEF OnTrial, Gated!vars
<1>3. CASE RunScript
  <2>1. CASE Link
    BY <1>3, <2>1, SwapIsTry DEF Gated!Next
  <2>2. CASE ~Link
    <3>1. UNCHANGED <<link, pc, prev>>
      BY <1>3, <2>2, ScriptOtherwise DEF RunScript, updater
    <3> QED
      BY <3>1 DEF OnTrial, Gated!vars
  <2> QED
    BY <2>1, <2>2
<1>4. CASE RollbackLink
  <2>1. link = desired /\ desired # prev /\ prev \in Versions
    BY <1>4 DEF RollbackLink, OutcomeInv, BootInv, TypeInv, RunInv
  <2>2. pc = "rollback" /\ pc' = "restart" /\ link' = prev
    BY <1>4 DEF RollbackLink
  <2>3. Gated!Revert
    BY <2>1, <2>2, VersionsApart DEF Gated!Revert, OnTrial
  <2> QED
    BY <2>3 DEF Gated!Next
<1>5. CASE InstallerFailed \/ GatePasses
  <2>1. link' = link /\ prev' = prev /\ pc' = "idle"
    BY <1>5 DEF InstallerFailed, GatePasses, Finish, disk
  <2> QED
    BY <2>1, EndKeeps DEF Gated!Next
<1>6. CASE TimerFires \/ ResolveLatest \/ CannotResolve \/ NothingToDo \/ RollbackRestart
  <2>1. link' = link /\ ~OnTrial /\ ~OnTrial'
    BY <1>6 DEF TimerFires, ResolveLatest, CannotResolve, NothingToDo, RollbackRestart,
         Finish, disk, OnTrial
  <2> QED
    BY <2>1 DEF Gated!vars
<1>7. CASE Apply
  <2>1. link' = link /\ ~OnTrial /\ ~OnTrial'
    BY <1>7 DEF Apply, Start, OnTrial
  <2> QED
    BY <2>1 DEF Gated!vars
<1>8. CASE Installed \/ GateTimesOut
  <2>1. UNCHANGED <<link, prev>> /\ pc \in {"apply", "gate"} /\ pc' \in {"gate", "rollback"}
    BY <1>8 DEF Installed, GateTimesOut, disk
  <2> QED
    BY <2>1 DEF OnTrial, Gated!vars
<1> QED
  BY <1>1, <1>2, <1>3, <1>4, <1>5, <1>6, <1>7, <1>8, <1>9, UpdateSteps DEF Updater

\* The installed version moves only by putting another version on trial and, from a
\* trial, back to the one it replaced (updater.sh 60-110).
THEOREM UpdatesAreGated == UpdateSpec => ImplementsGatedUpgrade
<1>1. UpdateInit => Gated!Init
  BY VersionsApart DEF UpdateInit, OnTrial, Gated!Init
<1>2. UpdateInv /\ [UpdateNext]_vars => [Gated!Next]_Gated!vars
  BY UpdateRefines DEF UpdateInv
<1> QED
  BY <1>1, <1>2, UpdateInvHolds, PTL DEF UpdateSpec, ImplementsGatedUpgrade, Gated!Spec
=============================================================================
