-------------------------------- MODULE Rollout --------------------------------
(***************************************************************************)
(* deploy-all.sh: the fleet upgraded host by host, in the order of an      *)
(* inventory file.  The loop reads the inventory on its standard input,    *)
(* and so does every ssh that it runs: a session that is up passes on to   *)
(* the remote command what it can read there, until the command ends.  A   *)
(* session that does not come up reads nothing, and scp never does.        *)
(*                                                                         *)
(* What is read ahead is cut into whole lines here.                        *)
(***************************************************************************)
EXTENDS Integers, SequencesExt

CONSTANTS
  Hosts,       \* the hosts of the fleet
  Ignored,     \* a blank line, a comment, a line without a host
  Inventory,   \* the lines of the file
  ExitCodes    \* the width of an exit code: 256

VARIABLES
  at,          \* "read", "copy", "install", "clean", "done"
  rest,        \* what is left on the standard input
  host,        \* the host of this round
  succeeded,   \* SUCCEEDED_HOSTS
  failed,      \* FAILED_HOSTS
  status       \* the exit code

vars == <<at, rest, host, succeeded, failed, status>>

Init ==
  /\ at = "read" /\ rest = Inventory /\ host = Ignored
  /\ succeeded = <<>> /\ failed = <<>>
  /\ status = 0

\* What ssh leaves of the standard input when its session was up.
Reads(n) == rest' = SubSeq(rest, n + 1, Len(rest))

ReadLine ==
  /\ at = "read" /\ rest # <<>>
  /\ rest' = Tail(rest) /\ host' = Head(rest)
  /\ at' = IF Head(rest) = Ignored THEN "read" ELSE "copy"
  /\ UNCHANGED <<succeeded, failed, status>>

\* scp of install.sh; without it the host has failed.
Copy ==
  /\ at = "copy"
  /\ \/ at' = "install" /\ UNCHANGED failed
     \/ at' = "read" /\ failed' = Append(failed, host)
  /\ UNCHANGED <<rest, host, succeeded, status>>

\* install.sh on the host, by ssh.
Install ==
  /\ at = "install" /\ at' = "clean"
  /\ \/ failed' = Append(failed, host) /\ UNCHANGED <<rest, succeeded>>
     \/ \E n \in 0 .. Len(rest) :
          /\ Reads(n)
          /\ \/ succeeded' = Append(succeeded, host) /\ UNCHANGED failed
             \/ failed' = Append(failed, host) /\ UNCHANGED succeeded
  /\ UNCHANGED <<host, status>>

\* The removal of the copy, by ssh, whatever comes of it.
Clean ==
  /\ at = "clean" /\ at' = "read"
  /\ \E n \in 0 .. Len(rest) : Reads(n)
  /\ UNCHANGED <<host, succeeded, failed, status>>

\* The summary, and the number of failures as far as an exit code goes.
Finish ==
  /\ at = "read" /\ rest = <<>>
  /\ at' = "done" /\ status' = Len(failed) % ExitCodes
  /\ UNCHANGED <<rest, host, succeeded, failed>>

Next == ReadLine \/ Copy \/ Install \/ Clean \/ Finish

Spec == Init /\ [][Next]_vars

-----------------------------------------------------------------------------
(* Properties *)

\* "Failures don't short-circuit the loop": when it is over, every host of the inventory
\* has been tried and is in one of the two lists.
EveryHostHasAResult ==
  at = "done" => ToSet(Inventory) \cap Hosts \subseteq ToSet(succeeded) \cup ToSet(failed)

=============================================================================
