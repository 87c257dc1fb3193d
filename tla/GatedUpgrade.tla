------------------------------ MODULE GatedUpgrade ------------------------------
(***************************************************************************)
(* What an update does to the installed version, seen from outside: a new  *)
(* version is put on trial, and a trial ends by keeping the new version or *)
(* by going back to the very version it replaced.  Nothing else moves the  *)
(* installed version.                                                      *)
(***************************************************************************)
EXTENDS Naturals

CONSTANTS Versions, NoVersion

VARIABLES installed, fallback   \* fallback is the version a trial would go back to

vars == <<installed, fallback>>

Init == installed \in Versions /\ fallback = NoVersion

Try(v) ==
  /\ fallback = NoVersion
  /\ v # installed
  /\ installed' = v
  /\ fallback' = installed

Keep ==
  /\ fallback # NoVersion
  /\ fallback' = NoVersion
  /\ UNCHANGED installed

Revert ==
  /\ fallback # NoVersion
  /\ installed' = fallback
  /\ fallback' = NoVersion

Next == (\E v \in Versions : Try(v)) \/ Keep \/ Revert

Spec == Init /\ [][Next]_vars
=============================================================================
