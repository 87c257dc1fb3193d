------------------------------ MODULE AgentProcess ------------------------------
(***************************************************************************)
(* Starting and ending the agent on one host: the process that systemd     *)
(* keeps (Unit) and the ones an operator starts by hand (Manual, as root), *)
(* each going through main(): command line, single-instance lock,          *)
(* config.json, then the beats.  The unit file says Restart=on-failure.    *)
(*                                                                         *)
(* flock and the owner and mode of the lock file belong to the kernel: the *)
(* agent creates the file with mode 0644, so who creates it decides who    *)
(* can open it for writing later.                                          *)
(*                                                                         *)
(* Operators called a mutant are plausible slips in the definition after   *)
(* them; no action uses them.                                              *)
(***************************************************************************)
EXTENDS Integers, FiniteSets

CONSTANTS
  Unit,       \* the process of iclic-host-agent.service, as the service user
  Manual,     \* processes started by hand, as root
  Nobody      \* no process

ASSUME ProcessAssumption == Unit \notin Manual /\ Nobody \notin Manual \cup {Unit}

Processes == Manual \cup {Unit}

\* What may follow the program's name on the command line.
Argv == {"none", "version", "unknown", "verify-release"}

\* What config.json may be: not there, short of some settings, complete, not JSON.
ConfigFiles == {"absent", "part", "whole", "garbled"}

\* The state directory is missing, or the lock file is absent or belongs to a user.
LockFiles == {"no_directory", "absent", "service", "root"}

VARIABLES
  host,       \* the scenario: [argv, release, env, lock, files, ...], chosen at the start
  at,         \* where each process is in main()
  argv,       \* its command line
  code,       \* the exit code of the last process in that place
  lockFile,   \* the lock file, as on disk
  holder,     \* the process whose open file has the flock
  kept,       \* the processes whose lock file is referenced by a global
  file,       \* config.json, as on disk
  told        \* systemd was told to stop the unit, or the process signalled

processVars == <<at, argv, code, lockFile, holder, kept, file, told>>

-----------------------------------------------------------------------------
(* verify-release *)

\* A release on disk: SHA256SUMS and its signature, each missing or as it should be.
Releases == [sums : {"missing", "signed", "other"}, sig : {"missing", "short", "whole"}]

Authentic(r) == r.sums = "signed" /\ r.sig = "whole"

\* Verify, verifyWith: both files can be read, the size is right, the signature fits.
Verify(r) ==
  /\ r.sums # "missing" /\ r.sig # "missing"
  /\ r.sig # "short"
  /\ r.sums = "signed"

\* runVerifyRelease.
VerifyExit(r) == IF Verify(r) THEN 0 ELSE 3

-----------------------------------------------------------------------------
(* The steps of main() *)

\* The process in place p ends; the kernel closes its files.
Exit(p, c) ==
  /\ at' = [at EXCEPT ![p] = "down"]
  /\ code' = [code EXCEPT ![p] = c]
  /\ holder' = IF holder = p THEN Nobody ELSE holder
  /\ kept' = kept \ {p}

\* systemd starts the unit at boot and restarts it unless it ended cleanly or on request.
StartUnit ==
  /\ at[Unit] = "down" /\ code[Unit] # 0 /\ ~told
  /\ at' = [at EXCEPT ![Unit] = "args"]
  /\ UNCHANGED <<argv, code, lockFile, holder, kept, file, told>>

StartManual(p) ==
  /\ at[p] = "down"
  /\ at' = [at EXCEPT ![p] = "args"]
  /\ \E a \in host.argv : argv' = [argv EXCEPT ![p] = a]
  /\ UNCHANGED <<code, lockFile, holder, kept, file, told>>

\* Mutant of HandleCLIArgs: what it does not recognise is ignored, as before #25.
HandleCLIArgsLax(p) ==
  /\ at[p] = "args"
  /\ at' = [at EXCEPT ![p] = "open"] /\ UNCHANGED <<code, holder, kept>>
  /\ UNCHANGED <<argv, lockFile, file, told>>

\* handleCLIArgs: anything on the command line ends the process.
HandleCLIArgs(p) ==
  /\ at[p] = "args"
  /\ CASE argv[p] = "none"    -> at' = [at EXCEPT ![p] = "open"] /\ UNCHANGED <<code, holder, kept>>
       [] argv[p] = "version" -> Exit(p, 0)
       [] argv[p] = "unknown" -> Exit(p, 2)
       [] argv[p] = "verify-release" -> Exit(p, VerifyExit(host.release))
  /\ UNCHANGED <<argv, lockFile, file, told>>

\* open(O_CREATE|O_RDWR, 0644): root may always, the service user not on root's file.
CanOpen(p) ==
  /\ lockFile # "no_directory"
  /\ p = Unit => lockFile # "root"

\* acquireSingleInstanceLock, the open: without the file it warns and goes on.
OpenLock(p) ==
  /\ at[p] = "open"
  /\ at' = [at EXCEPT ![p] = IF CanOpen(p) THEN "flock" ELSE "load"]
  /\ lockFile' = IF lockFile = "absent" THEN (IF p = Unit THEN "service" ELSE "root") ELSE lockFile
  /\ UNCHANGED <<argv, code, holder, kept, file, told>>

\* Mutants of Flock: the file in a local variable only, and a clean exit for a duplicate.
FlockLocal(p) ==
  /\ at[p] = "flock"
  /\ IF holder = Nobody
     THEN at' = [at EXCEPT ![p] = "load"] /\ holder' = p /\ UNCHANGED <<code, kept>>
     ELSE Exit(p, 4)
  /\ UNCHANGED <<argv, lockFile, file, told>>
FlockClean(p) ==
  /\ at[p] = "flock"
  /\ IF holder = Nobody
     THEN at' = [at EXCEPT ![p] = "load"] /\ holder' = p /\ kept' = kept \cup {p} /\ UNCHANGED code
     ELSE Exit(p, 0)
  /\ UNCHANGED <<argv, lockFile, file, told>>

\* The flock: LOCK_EX | LOCK_NB, and the file kept in instanceLockFile.
Flock(p) ==
  /\ at[p] = "flock"
  /\ IF holder = Nobody
     THEN at' = [at EXCEPT ![p] = "load"] /\ holder' = p /\ kept' = kept \cup {p} /\ UNCHANGED code
     ELSE Exit(p, 4)
  /\ UNCHANGED <<argv, lockFile, file, told>>

\* config.Load: the file if there is one, the environment over it, then validation: no
\* setting may be missing.  The unit's environment has none of them.
Loads(p) ==
  LET env == IF p = Unit THEN "none" ELSE host.env
  IN /\ file \in {"absent", "part", "whole"}
     /\ env # "bad"
     /\ file = "whole" \/ env = "all" \/ (file = "part" /\ env = "rest")

\* An error is exit 2.
LoadConfig(p) ==
  /\ at[p] = "load"
  /\ IF Loads(p) THEN at' = [at EXCEPT ![p] = "running"] /\ UNCHANGED <<code, holder, kept>>
              ELSE Exit(p, 2)
  /\ UNCHANGED <<argv, lockFile, file, told>>

\* The runtime finalises the files nobody refers to.
CollectGarbage(p) ==
  /\ at[p] \in {"load", "running"}
  /\ holder' = IF holder = p /\ p \notin kept THEN Nobody ELSE holder
  /\ UNCHANGED <<at, argv, code, lockFile, kept, file, told>>

\* A crash, an OOM kill, an operator's kill -9: systemd sees a failure.
Kill(p) ==
  /\ at[p] = "running"
  /\ Exit(p, 137)
  /\ UNCHANGED <<argv, lockFile, file, told>>

\* SIGTERM to the unit; the context is cancelled and the main loop ends cleanly.
Tell ==
  /\ ~told
  /\ told' = TRUE
  /\ UNCHANGED <<at, argv, code, lockFile, holder, kept, file>>

Obey ==
  /\ told /\ at[Unit] # "down"
  /\ Exit(Unit, 0)
  /\ UNCHANGED <<argv, lockFile, file, told>>

EditConfig ==
  /\ file' \in host.files \ {file}
  /\ UNCHANGED <<at, argv, code, lockFile, holder, kept, told>>

ProcessInit ==
  /\ at = [p \in Processes |-> "down"]
  /\ argv = [p \in Processes |-> "none"]
  /\ code = [p \in Processes |-> 137]
  /\ lockFile = host.lock
  /\ holder = Nobody
  /\ kept = {}
  /\ file \in host.files
  /\ told = FALSE

\* One process starting, or ending before it beats.
Boot(p) == HandleCLIArgs(p) \/ OpenLock(p) \/ Flock(p) \/ LoadConfig(p)

=============================================================================
