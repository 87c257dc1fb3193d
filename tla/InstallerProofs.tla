---------------------------- MODULE InstallerProofs ----------------------------
(***************************************************************************)
(* Theorems about install.sh, for any releases, profiles, altered          *)
(* downloads and ways to start the script, and any number of runs.         *)
(***************************************************************************)
EXTENDS Installer, TLAPS

AfterSwap == {"enrol", "config", "configuring", "profiles", "units", "activate"}
AfterVerdict == {"checksum", "copy", "copying", "link"} \cup AfterSwap
AfterChecksum == AfterVerdict \ {"checksum"}

\* What has been verified before anything is installed: the signature covers
\* SHA256SUMS, and SHA256SUMS covers what the run will install.
Trusted ==
  /\ foreign = {}
  /\ step \in AfterVerdict => "SHA256SUMS" \notin work.altered
  /\ step \in AfterChecksum => work.altered \cap ToVerify = {}

-----------------------------------------------------------------------------
(* Types *)

\* The numbers that stand for no version and for the latest are no versions.
LEMMA VersionsApart == None \notin Versions /\ Latest \notin Versions /\ 1 \in Versions
  BY VersionsExist DEF None, Latest, Versions

\* Leaving the script keeps the types.
LEMMA ExitTypes ==
  ASSUME NEW code \in {"ok", "failed", "running"}, Exit(code)
  PROVE  SessionTypeOK' /\ step' = "idle"
<1>1. NoRun \in RunType
  BY DEF NoRun, RunType
<1>2. NoWork \in WorkType
  BY DEF NoWork, WorkType
<1> QED
  BY <1>1, <1>2 DEF Exit, SessionTypeOK, Steps

\* Starting the script keeps the types.
LEMMA StartTypes ==
  ASSUME TypeOK, NEW r \in RunType, Start(r)
  PROVE  TypeOK'
<1>1. SessionTypeOK' /\ step' = "resolve"
  BY DEF TypeOK, SessionTypeOK, Start, Steps
<1>2. HostTypeOK'
  BY DEF TypeOK, HostTypeOK, Start, units_, world
<1> QED
  BY <1>1, <1>2 DEF TypeOK

\* Losing power keeps the types.
LEMMA PowerLossTypes ==
  ASSUME TypeOK, PowerLoss
  PROVE  TypeOK'
<1>1. SessionTypeOK' /\ step' = "idle"
  BY ExitTypes DEF TypeOK, SessionTypeOK, PowerLoss
<1>2. bin' \in [Versions -> {"absent", "partial", "fresh", "whole"}]
      /\ config' \in {"absent", "partial", "fresh", "ready"}
  BY DEF TypeOK, HostTypeOK, PowerLoss
<1>3. HostTypeOK'
  BY <1>2 DEF TypeOK, HostTypeOK, PowerLoss, Launched, Executable, units_, world
<1> QED
  BY <1>1, <1>3 DEF TypeOK

\* So does the kernel writing back what is fresh.
LEMMA WriteBackTypes ==
  ASSUME TypeOK, WriteBack
  PROVE  TypeOK'
<1>1. SessionTypeOK' /\ UNCHANGED <<step, tag>>
  BY DEF TypeOK, SessionTypeOK, WriteBack, session
<1>2. bin' \in [Versions -> {"absent", "partial", "fresh", "whole"}]
      /\ config' \in {"absent", "partial", "fresh", "ready"}
  BY DEF TypeOK, HostTypeOK, WriteBack
<1>3. HostTypeOK'
  BY <1>2 DEF TypeOK, HostTypeOK, WriteBack, units_, world
<1> QED
  BY <1>1, <1>3 DEF TypeOK

\* A new release keeps the types.
LEMMA PublishTypes ==
  ASSUME TypeOK, Publish
  PROVE  TypeOK'
<1>1. newest' \in Versions
  BY VersionsExist DEF TypeOK, HostTypeOK, Publish, Versions
<1>2. SessionTypeOK' /\ UNCHANGED <<step, tag>>
  BY DEF TypeOK, SessionTypeOK, Publish, session
<1>3. HostTypeOK'
  BY <1>1 DEF TypeOK, HostTypeOK, Publish, units_
<1> QED
  BY <1>1, <1>2, <1>3 DEF TypeOK

\* Each step of the script keeps the types.
LEMMA ScriptTypes ==
  ASSUME TypeOK, Script
  PROVE  TypeOK'
<1> USE DEF TypeOK
<1>1. CASE Resolve
  <2>1. step \in Steps /\ step' \in Steps /\ tag' \in Versions
    BY <1>1, VersionsApart DEF Resolve, Proceed, SessionTypeOK, Steps, HostTypeOK, RunType
  <2>2. SessionTypeOK'
    BY <2>1, <1>1, KnownAlterations DEF Resolve, Proceed, SessionTypeOK, WorkType
  <2>3. HostTypeOK'
    BY <1>1 DEF Resolve, HostTypeOK, units_, world
  <2> QED
    BY <2>1, <2>2, <2>3
<1>2. CASE Download
  <2>1. step \in Steps /\ step' \in Steps /\ tag' \in Versions
    BY <1>2, VersionsApart DEF Download, Proceed, SessionTypeOK, Steps, HostTypeOK,
         RunType
  <2>2. SessionTypeOK'
    BY <2>1, <1>2, KnownAlterations DEF Download, Proceed, SessionTypeOK, WorkType
  <2>3. HostTypeOK'
    BY <1>2 DEF Download, HostTypeOK, units_, world
  <2> QED
    BY <2>1, <2>2, <2>3
<1>3. CASE Authenticate
  <2>1. step \in Steps /\ step' \in Steps /\ tag' \in Versions
    BY <1>3, VersionsApart DEF Authenticate, Proceed, session, SessionTypeOK, Steps,
         HostTypeOK, RunType
  <2>2. SessionTypeOK'
    BY <2>1, <1>3 DEF Authenticate, Proceed, session, SessionTypeOK,
         WorkType
  <2>3. HostTypeOK'
    BY <1>3 DEF Authenticate, HostTypeOK, units_, world
  <2> QED
    BY <2>1, <2>2, <2>3
<1>4. CASE RefuseRelease
  <2>1. Exit("failed")
    BY <1>4 DEF RefuseRelease
  <2>2. SessionTypeOK' /\ step' = "idle"
    BY <2>1, ExitTypes
  <2>3. HostTypeOK'
    BY <1>4 DEF RefuseRelease, HostTypeOK, units_, world
  <2> QED
    BY <2>1, <2>2, <2>3
<1>5. CASE Checksum
  <2>1. step \in Steps /\ step' \in Steps /\ tag' \in Versions
    BY <1>5, VersionsApart DEF Checksum, Proceed, session, SessionTypeOK, Steps,
         HostTypeOK, RunType
  <2>2. SessionTypeOK'
    BY <2>1, <1>5, KnownAlterations DEF Checksum, Proceed, session, SessionTypeOK,
         WorkType
  <2>3. HostTypeOK'
    BY <1>5 DEF Checksum, HostTypeOK, units_, world
  <2> QED
    BY <2>1, <2>2, <2>3
<1>6. CASE ChecksumMismatch
  <2>1. Exit("failed")
    BY <1>6 DEF ChecksumMismatch
  <2>2. SessionTypeOK' /\ step' = "idle"
    BY <2>1, ExitTypes
  <2>3. HostTypeOK'
    BY <1>6 DEF ChecksumMismatch, HostTypeOK, units_, world
  <2> QED
    BY <2>1, <2>2, <2>3
<1>7. CASE CopyBegins
  <2>1. step \in Steps /\ step' \in Steps /\ tag' \in Versions
    BY <1>7, VersionsApart DEF CopyBegins, Proceed, session, SessionTypeOK, Steps,
         HostTypeOK, RunType
  <2>2. SessionTypeOK'
    BY <2>1, <1>7, KnownAlterations DEF CopyBegins, Proceed, session, SessionTypeOK,
         WorkType
  <2>3. HostTypeOK'
    <3>1. tag \in Versions
      BY <1>7, <2>1 DEF CopyBegins, session
    <3>2. bin' \in [Versions -> {"absent", "partial", "fresh", "whole"}]
      BY <3>1, <1>7 DEF CopyBegins, HostTypeOK
    <3>3. foreign' \subseteq Assets
      BY <1>7 DEF CopyBegins, HostTypeOK
    <3> QED
      BY <1>7, <3>2, <3>3 DEF CopyBegins, HostTypeOK, units_, world
  <2> QED
    BY <2>1, <2>2, <2>3
<1>8. CASE CopyEnds
  <2>1. step \in Steps /\ step' \in Steps /\ tag' \in Versions
    BY <1>8, VersionsApart DEF CopyEnds, Proceed, session, SessionTypeOK, Steps,
         HostTypeOK, RunType
  <2>2. SessionTypeOK'
    BY <2>1, <1>8, KnownAlterations DEF CopyEnds, Proceed, session, SessionTypeOK,
         WorkType
  <2>3. HostTypeOK'
    <3>1. tag \in Versions
      BY <1>8, <2>1 DEF CopyEnds, session
    <3>2. bin' \in [Versions -> {"absent", "partial", "fresh", "whole"}]
      BY <3>1, <1>8 DEF CopyEnds, HostTypeOK
    <3>3. foreign' \subseteq Assets
      BY <1>8 DEF CopyEnds, HostTypeOK, Assets
    <3> QED
      BY <1>8, <3>2, <3>3 DEF CopyEnds, HostTypeOK, units_, world
  <2> QED
    BY <2>1, <2>2, <2>3
<1>9. CASE Link
  <2>1. step \in Steps /\ step' \in Steps /\ tag' \in Versions
    BY <1>9, VersionsApart DEF Link, Proceed, session, SessionTypeOK, Steps, HostTypeOK,
         RunType
  <2>2. SessionTypeOK'
    BY <2>1, <1>9, KnownAlterations DEF Link, Proceed, session, SessionTypeOK, WorkType
  <2>3. HostTypeOK'
    BY <1>9, <2>1 DEF Link, session, HostTypeOK, units_, world
  <2> QED
    BY <2>1, <2>2, <2>3
<1>10. CASE Enrol
  <2>1. step \in Steps /\ step' \in Steps /\ tag' \in Versions
    BY <1>10, VersionsApart DEF Enrol, Proceed, session, SessionTypeOK, Steps,
         HostTypeOK, RunType
  <2>2. SessionTypeOK'
    BY <2>1, <1>10, KnownAlterations DEF Enrol, Proceed, session, SessionTypeOK, WorkType
  <2>3. HostTypeOK'
    BY <1>10 DEF Enrol, HostTypeOK, units_, world
  <2> QED
    BY <2>1, <2>2, <2>3
<1>11. CASE WriteConfig
  <2>1. step \in Steps /\ step' \in Steps /\ tag' \in Versions
    BY <1>11, VersionsApart DEF WriteConfig, Proceed, session, SessionTypeOK, Steps,
         HostTypeOK, RunType
  <2>2. SessionTypeOK'
    BY <2>1, <1>11, KnownAlterations DEF WriteConfig, Proceed, session, SessionTypeOK,
         WorkType
  <2>3. HostTypeOK'
    BY <1>11 DEF WriteConfig, HostTypeOK, units_, world
  <2> QED
    BY <2>1, <2>2, <2>3
<1>12. CASE ActivateProfiles
  <2>1. step \in Steps /\ step' \in Steps /\ tag' \in Versions
    BY <1>12, VersionsApart DEF ActivateProfiles, Proceed, session, InstallProfiles,
         Requested, SessionTypeOK, Steps, HostTypeOK, RunType
  <2>2. SessionTypeOK'
    BY <2>1, <1>12, KnownAlterations DEF ActivateProfiles, Proceed, session,
         InstallProfiles, Requested, SessionTypeOK, WorkType
  <2>3. HostTypeOK'
    <3>1. tag \in Versions
      BY <1>12, <2>1 DEF ActivateProfiles, session
    <3>2. collectors' \in [Profiles -> Versions \cup {None}]
      BY <3>1, <1>12 DEF ActivateProfiles, InstallProfiles, HostTypeOK
    <3>3. foreign' \subseteq Assets
      BY <1>12 DEF ActivateProfiles, InstallProfiles, HostTypeOK, Assets
    <3> QED
      BY <1>12, <3>2, <3>3 DEF ActivateProfiles, HostTypeOK, units_, world
  <2> QED
    BY <2>1, <2>2, <2>3
<1>13. CASE InstallUnits
  <2>1. step \in Steps /\ step' \in Steps /\ tag' \in Versions
    BY <1>13, VersionsApart DEF InstallUnits, Proceed, session, SessionTypeOK, Steps,
         HostTypeOK, RunType
  <2>2. SessionTypeOK'
    BY <2>1, <1>13, KnownAlterations DEF InstallUnits, Proceed, session, SessionTypeOK,
         WorkType
  <2>3. HostTypeOK'
    <3>1. tag \in Versions /\ work.updater \in BOOLEAN /\ run.from \in {"pipe", "file", "copy"}
      BY <1>13, <2>1 DEF InstallUnits, session, SessionTypeOK, WorkType, RunType
    <3>2. units' \in UnitsType /\ installSh' \in BOOLEAN
      BY <3>1, <1>13 DEF InstallUnits, HostTypeOK, UnitsType
    <3>3. foreign' \subseteq Assets
      BY <1>13 DEF InstallUnits, HostTypeOK, Assets
    <3> QED
      BY <1>13, <3>2, <3>3 DEF InstallUnits, HostTypeOK, world
  <2> QED
    BY <2>1, <2>2, <2>3
<1>14. CASE Activate
  <2>1. Exit("ok")
    BY <1>14 DEF Activate
  <2>2. SessionTypeOK' /\ step' = "idle"
    BY <2>1, ExitTypes
  <2>3. HostTypeOK'
    <3>1. running' \in Versions \cup {None}
      BY <1>14 DEF Activate, Launched, Executable
    <3>2. enabled' \in BOOLEAN /\ timer' \in BOOLEAN
      BY <1>14 DEF Activate
    <3> QED
      BY <1>14, <3>1, <3>2 DEF Activate, HostTypeOK, units_, world
  <2> QED
    BY <2>1, <2>2, <2>3
<1>15. CASE Fail
  <2>1. Exit("failed")
    BY <1>15 DEF Fail
  <2>2. SessionTypeOK' /\ step' = "idle"
    BY <2>1, ExitTypes
  <2>3. HostTypeOK'
    BY <1>15 DEF Fail, HostTypeOK, units_, world
  <2> QED
    BY <2>1, <2>2, <2>3
<1>16. CASE FailInProfiles
  <2>1. Exit("failed")
    BY <1>16 DEF FailInProfiles
  <2>2. SessionTypeOK' /\ step' = "idle"
    BY <2>1, ExitTypes
  <2>3. HostTypeOK'
    <3>1. PICK ps \in SUBSET Requested : InstallProfiles(ps)
      BY <1>16 DEF FailInProfiles
    <3>2. collectors' \in [Profiles -> Versions \cup {None}] /\ foreign' \subseteq Assets
      BY <3>1, <1>16 DEF InstallProfiles, FailInProfiles, HostTypeOK, SessionTypeOK,
           Assets
    <3> QED
      BY <1>16, <3>2 DEF FailInProfiles, HostTypeOK, units_, world
  <2> QED
    BY <2>1, <2>2, <2>3
<1>17. CASE FailInUnits
  <2>1. Exit("failed")
    BY <1>17 DEF FailInUnits
  <2>2. SessionTypeOK' /\ step' = "idle"
    BY <2>1, ExitTypes
  <2>3. HostTypeOK'
    <3>1. tag \in Versions
      BY <1>17 DEF FailInUnits
    <3>2. units' \in UnitsType
      <4>1. units \in UnitsType
        BY DEF HostTypeOK
      <4>2. \/ units' = units \/ units' = [units EXCEPT !.agent = tag]
            \/ units' = [agent |-> tag, updater |-> tag]
        BY <1>17 DEF FailInUnits
      <4> QED
        BY <3>1, <4>1, <4>2 DEF UnitsType
    <3>4. installSh' \in BOOLEAN
      <4>1. installSh' = installSh \/ installSh' = FALSE
        BY <1>17 DEF FailInUnits
      <4> QED
        BY <4>1 DEF HostTypeOK
    <3>3. foreign' \subseteq Assets
      BY <1>17 DEF FailInUnits, HostTypeOK, Assets
    <3> QED
      BY <1>17, <3>2, <3>3, <3>4 DEF FailInUnits, HostTypeOK, world
  <2> QED
    BY <2>1, <2>2, <2>3
<1>18. CASE FailInActivate
  <2>1. Exit("failed")
    BY <1>18 DEF FailInActivate
  <2>2. SessionTypeOK' /\ step' = "idle"
    BY <2>1, ExitTypes
  <2>3. HostTypeOK'
    <3>1. running' \in Versions \cup {None} /\ enabled' \in BOOLEAN
      BY <1>18 DEF FailInActivate, Launched, Executable, HostTypeOK
    <3> QED
      BY <1>18, <3>1 DEF FailInActivate, HostTypeOK, units_, world
  <2> QED
    BY <2>1, <2>2, <2>3
<1> QED
  BY <1>1, <1>2, <1>3, <1>4, <1>5, <1>6, <1>7, <1>8, <1>9, <1>10, <1>11, <1>12, <1>13,
       <1>14, <1>15, <1>16, <1>17, <1>18 DEF Script

-----------------------------------------------------------------------------
(* Authenticity *)

AuthInv == blind \/ Trusted

\* No step of the script puts an unauthenticated binary in place in a strict run.
LEMMA ScriptTrust ==
  ASSUME TypeOK, AuthInv, Script
  PROVE  AuthInv'
<1>a. blind => blind'
  BY DEF Script, Resolve, Download, Authenticate, RefuseRelease, Checksum,
       ChecksumMismatch, CopyBegins, CopyEnds, Link, Enrol, WriteConfig,
       ActivateProfiles, InstallUnits, Activate, Fail, FailInProfiles, FailInUnits,
       FailInActivate
<1> SUFFICES ASSUME ~blind' PROVE Trusted'
  BY DEF AuthInv
<1>0. Trusted
  BY <1>a DEF AuthInv
<1> USE <1>0 DEF Trusted
<1>1. CASE Resolve
  BY <1>1 DEF Resolve, Proceed, world, AfterVerdict, AfterChecksum, AfterSwap, ToVerify
<1>2. CASE Download
  BY <1>2 DEF Download, Proceed, world, AfterVerdict, AfterChecksum, AfterSwap, ToVerify
<1>3. CASE Authenticate
  BY <1>3 DEF Authenticate, Proceed, session, world, AfterVerdict, AfterChecksum,
       AfterSwap, Verdict, Verifier, ToVerify
<1>4. CASE RefuseRelease
  BY <1>4 DEF RefuseRelease, Exit, NoRun, NoWork, world, AfterVerdict, AfterChecksum,
       AfterSwap, ToVerify
<1>5. CASE Checksum
  BY <1>5 DEF Checksum, Proceed, session, world, AfterVerdict, AfterChecksum, AfterSwap,
       ChecksumMatches, ToVerify
<1>6. CASE ChecksumMismatch
  BY <1>6 DEF ChecksumMismatch, Exit, NoRun, NoWork, world, AfterVerdict, AfterChecksum,
       AfterSwap, ToVerify
<1>7. CASE CopyBegins
  BY <1>7 DEF CopyBegins, Proceed, session, world, AfterVerdict, AfterChecksum,
       AfterSwap, ToVerify
<1>8. CASE CopyEnds
  BY <1>8 DEF CopyEnds, Proceed, session, world, AfterVerdict, AfterChecksum, AfterSwap,
       ToVerify
<1>9. CASE Link
  BY <1>9 DEF Link, Proceed, session, world, AfterVerdict, AfterChecksum, AfterSwap,
       ToVerify
<1>10. CASE Enrol
  BY <1>10 DEF Enrol, Proceed, session, world, AfterVerdict, AfterChecksum, AfterSwap,
       ToVerify
<1>11. CASE WriteConfig
  BY <1>11 DEF WriteConfig, Proceed, session, world, AfterVerdict, AfterChecksum,
       AfterSwap, ToVerify
<1>12. CASE ActivateProfiles
  BY <1>12 DEF ActivateProfiles, Proceed, session, InstallProfiles, Requested, world,
       AfterVerdict, AfterChecksum, AfterSwap, ToVerify
<1>13. CASE InstallUnits
  BY <1>13 DEF InstallUnits, Proceed, session, world, AfterVerdict, AfterChecksum,
       AfterSwap, ToVerify
<1>14. CASE Activate
  BY <1>14 DEF Activate, Exit, NoRun, NoWork, Launched, Executable, world, AfterVerdict,
       AfterChecksum, AfterSwap, ToVerify
<1>15. CASE Fail
  BY <1>15 DEF Fail, Exit, NoRun, NoWork, world, AfterVerdict, AfterChecksum, AfterSwap,
       ToVerify
<1>16. CASE FailInProfiles
  BY <1>16 DEF FailInProfiles, Exit, NoRun, NoWork, InstallProfiles, Requested, world,
       AfterVerdict, AfterChecksum, AfterSwap, ToVerify
<1>17. CASE FailInUnits
  BY <1>17 DEF FailInUnits, Exit, NoRun, NoWork, world, AfterVerdict, AfterChecksum,
       AfterSwap, ToVerify
<1>18. CASE FailInActivate
  BY <1>18 DEF FailInActivate, Exit, NoRun, NoWork, Launched, Executable, world,
       AfterVerdict, AfterChecksum, AfterSwap, ToVerify
<1> QED
  BY <1>1, <1>2, <1>3, <1>4, <1>5, <1>6, <1>7, <1>8, <1>9, <1>10, <1>11, <1>12, <1>13,
       <1>14, <1>15, <1>16, <1>17, <1>18 DEF Script

\* Neither do the steps around the script.
LEMMA OtherTrust ==
  ASSUME AuthInv, (\E r \in RunType : Start(r)) \/ WriteBack \/ PowerLoss \/ Publish
  PROVE  AuthInv'
  BY DEF AuthInv, Trusted, Start, WriteBack, PowerLoss, Publish, Exit, NoWork, NoRun, session, world,
         AfterVerdict, AfterChecksum, AfterSwap, ToVerify

\* Every step keeps the types.
LEMMA NextTypes ==
  ASSUME TypeOK, [Next]_installerVars
  PROVE  TypeOK'
<1>1. CASE \E r \in Runs : Start(r)
  BY <1>1, StartTypes, KnownRuns
<1>2. CASE UNCHANGED installerVars
  BY <1>2 DEF TypeOK, SessionTypeOK, HostTypeOK, installerVars, session, units_, world
<1> QED
  BY <1>1, <1>2, ScriptTypes, WriteBackTypes, PowerLossTypes, PublishTypes DEF Next

\* Every step keeps the trust in what is installed.
LEMMA NextTrust ==
  ASSUME TypeOK, AuthInv, [Next]_installerVars
  PROVE  AuthInv'
<1>1. CASE UNCHANGED installerVars
  BY <1>1 DEF AuthInv, Trusted, ToVerify, installerVars, session
<1>2. CASE Next
  BY <1>2, ScriptTrust, OtherTrust, KnownRuns DEF Next
<1> QED
  BY <1>1, <1>2

-----------------------------------------------------------------------------
(* Theorems *)

\* Both hold at first.
LEMMA InstallerInit ==
  ASSUME Init
  PROVE  TypeOK /\ AuthInv
<1>1. SessionTypeOK /\ step = "idle"
  <2>1. NoRun \in RunType /\ NoWork \in WorkType
    BY DEF NoRun, RunType, NoWork, WorkType
  <2> QED
    BY <2>1 DEF Init, InitWorld, SessionTypeOK, Steps
<1>2. HostTypeOK
  BY DEF Init, InitWorld, HostTypeOK, UnitsType
<1>3. AuthInv
  BY <1>1 DEF Init, InitWorld, AuthInv, Trusted, AfterVerdict, AfterChecksum, AfterSwap
<1> QED
  BY <1>1, <1>2, <1>3 DEF TypeOK

\* Type correctness of install.sh, run after run: in particular nothing is installed
\* under a tag that was never resolved.
THEOREM InstallerTypeCorrect == Spec => []TypeOK
<1>1. Init => TypeOK
  BY InstallerInit
<1>2. TypeOK /\ [Next]_installerVars => TypeOK'
  BY NextTypes
<1> QED
  BY <1>1, <1>2, PTL DEF Spec

\* Whatever is downloaded, however the script is started and wherever a run ends,
\* altered bytes are installed only after a run without STRICT_VERIFY has gone on
\* without a signature or a verifier.
THEOREM InstallsOnlyAuthentic == Spec => []OnlyAuthentic
<1>1. Init => TypeOK /\ AuthInv
  BY InstallerInit
<1>2. (TypeOK /\ AuthInv) /\ [Next]_installerVars => (TypeOK /\ AuthInv)'
  BY NextTypes, NextTrust
<1>3. TypeOK /\ AuthInv => OnlyAuthentic
  BY DEF AuthInv, Trusted, OnlyAuthentic
<1> QED
  BY <1>1, <1>2, <1>3, PTL DEF Spec

\* The copy of the tag about to be linked is complete.
CopiedInv == TypeOK /\ (step = "link" => Executable(tag))

\* The script swaps the link only to a binary it has just copied to the end.
LEMMA ScriptCopies ==
  ASSUME CopiedInv, Script
  PROVE  (step' = "link" => Executable(tag)') /\ (link' # link => Executable(link'))
<1> USE DEF CopiedInv, TypeOK, SessionTypeOK, HostTypeOK, Executable
<1>1. CASE Resolve
  BY <1>1 DEF Resolve, Proceed, AfterSwap, Steps
<1>2. CASE Download
  BY <1>2 DEF Download, Proceed, AfterSwap, Steps
<1>3. CASE Authenticate
  BY <1>3 DEF Authenticate, Proceed, session, AfterSwap, Steps
<1>4. CASE RefuseRelease
  BY <1>4 DEF RefuseRelease, Exit, NoRun, NoWork, AfterSwap, Steps
<1>5. CASE Checksum
  BY <1>5 DEF Checksum, Proceed, session, AfterSwap, Steps
<1>6. CASE ChecksumMismatch
  BY <1>6 DEF ChecksumMismatch, Exit, NoRun, NoWork, AfterSwap, Steps
<1>7. CASE CopyBegins
  BY <1>7 DEF CopyBegins, Proceed, session, AfterSwap, Steps
<1>8. CASE CopyEnds
  BY <1>8 DEF CopyEnds, Proceed, session, AfterSwap, Steps
<1>9. CASE Link
  BY <1>9 DEF Link, Proceed, session, AfterSwap, Steps
<1>10. CASE Enrol
  BY <1>10 DEF Enrol, Proceed, session, AfterSwap, Steps
<1>11. CASE WriteConfig
  BY <1>11 DEF WriteConfig, Proceed, session, AfterSwap, Steps
<1>12. CASE ActivateProfiles
  BY <1>12 DEF ActivateProfiles, Proceed, session, InstallProfiles, Requested,
       AfterSwap, Steps
<1>13. CASE InstallUnits
  BY <1>13 DEF InstallUnits, Proceed, session, AfterSwap, Steps
<1>14. CASE Activate
  BY <1>14 DEF Activate, Exit, NoRun, NoWork, Launched, Executable, AfterSwap, Steps
<1>15. CASE Fail
  BY <1>15 DEF Fail, Exit, NoRun, NoWork, AfterSwap, Steps
<1>16. CASE FailInProfiles
  BY <1>16 DEF FailInProfiles, Exit, NoRun, NoWork, InstallProfiles, Requested,
       AfterSwap, Steps
<1>17. CASE FailInUnits
  BY <1>17 DEF FailInUnits, Exit, NoRun, NoWork, AfterSwap, Steps
<1>18. CASE FailInActivate
  BY <1>18 DEF FailInActivate, Exit, NoRun, NoWork, Launched, Executable, AfterSwap, Steps
<1> QED
  BY <1>1, <1>2, <1>3, <1>4, <1>5, <1>6, <1>7, <1>8, <1>9, <1>10, <1>11, <1>12, <1>13,
       <1>14, <1>15, <1>16, <1>17, <1>18 DEF Script

\* So does every step.
LEMMA StepCopies ==
  ASSUME CopiedInv, [Next]_installerVars
  PROVE  CopiedInv' /\ (link' # link => Executable(link'))
<1>1. TypeOK'
  BY NextTypes DEF CopiedInv
<1>2. CASE Script
  BY <1>1, <1>2, ScriptCopies DEF CopiedInv
<1>3. CASE (\E r \in Runs : Start(r)) \/ PowerLoss \/ Publish \/ UNCHANGED installerVars
  <2>1. (step' = "link" => Executable(tag)') /\ link' = link
    BY <1>3 DEF CopiedInv, Start, PowerLoss, Publish, Exit, Executable, session, installerVars
  <2> QED
    BY <1>1, <2>1 DEF CopiedInv
<1>4. CASE WriteBack
  <2>1. (step' = "link" => Executable(tag)') /\ link' = link
    BY <1>4 DEF CopiedInv, WriteBack, Dirty, Executable, session
  <2> QED
    BY <1>1, <2>1 DEF CopiedInv
<1> QED
  BY <1>2, <1>3, <1>4 DEF Next

\* The symlink is only ever pointed at a complete binary of an existing release.
THEOREM AlwaysSwapsToWhole == Spec => SwapsToWhole
<1>1. Init => CopiedInv
  BY InstallerInit DEF CopiedInv, Init, InitWorld
<1>2. CopiedInv /\ [Next]_installerVars => CopiedInv'
  BY StepCopies
<1>3. CopiedInv /\ [Next]_installerVars
        => [link' # link => Executable(link')]_installerVars
  BY StepCopies
<1> QED
  BY <1>1, <1>2, <1>3, PTL DEF Spec, SwapsToWhole

\* Only a run that found no config.json writes one.
EnrolInv ==
  config \in {"fresh", "ready"} =>
    /\ step \notin {"enrol", "config", "configuring"}
    /\ step \notin {"idle", "profiles", "units", "activate"} => enrolled

Keeps ==
  /\ config = "ready" => config' = "ready"
  /\ config = "fresh" => config' \in {"fresh", "ready"} \/ PowerLoss

\* A finished configuration is never written again.
LEMMA StepKeepsEnrolment ==
  ASSUME TypeOK, EnrolInv, [Next]_installerVars
  PROVE  EnrolInv' /\ Keeps
<1> USE DEF EnrolInv, Keeps, TypeOK, SessionTypeOK, HostTypeOK
<1>1. CASE Script
  BY <1>1 DEF Script, Resolve, Download, Authenticate, RefuseRelease, Checksum,
       ChecksumMismatch, CopyBegins, CopyEnds, Link, Enrol, WriteConfig,
       ActivateProfiles, InstallUnits, Activate, Fail, FailInProfiles, FailInUnits,
       FailInActivate, Proceed, Exit, session
<1>2. CASE (\E r \in Runs : Start(r)) \/ Publish \/ UNCHANGED installerVars
  BY <1>2 DEF Start, Publish, session, installerVars
<1>3. CASE WriteBack
  BY <1>3 DEF WriteBack, session
<1>4. CASE PowerLoss
  <2>1. step' = "idle" /\ (config = "ready" => config' = "ready")
    BY <1>4 DEF PowerLoss, Exit
  <2> QED
    BY <1>4, <2>1
<1> QED
  BY <1>1, <1>2, <1>3, <1>4 DEF Next

\* No run takes the credentials of an enrolled host, and no power loss does once they
\* are on disk.
THEOREM EnrolmentIsKept == Spec => EnrolmentKept
<1>1. Init => TypeOK /\ EnrolInv
  BY InstallerInit DEF EnrolInv, Init
<1>2. (TypeOK /\ EnrolInv) /\ [Next]_installerVars => (TypeOK /\ EnrolInv)'
  BY NextTypes, StepKeepsEnrolment
<1>3. (TypeOK /\ EnrolInv) /\ [Next]_installerVars
        => [/\ config = "ready" => config' = "ready"
            /\ config = "fresh" => config' \in {"fresh", "ready"} \/ PowerLoss]_installerVars
  BY StepKeepsEnrolment DEF Keeps
<1> QED
  BY <1>1, <1>2, <1>3, PTL DEF Spec, EnrolmentKept
=============================================================================
