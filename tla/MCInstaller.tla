------------------------------ MODULE MCInstaller ------------------------------
(***************************************************************************)
(* TLC instance of Installer: two releases, of which the first does not    *)
(* know verify-release yet, an enrolment with the host profile alone, and  *)
(* upgrades by hand (to a tag or to the latest, strict or not) that leave  *)
(* PROFILES unset.                                                         *)
(***************************************************************************)
EXTENDS Installer

FirstInstall == [strict |-> FALSE, version |-> 1, profiles |-> {"host"}, token |-> TRUE,
                 from |-> "file"]

Upgrade == [FirstInstall EXCEPT !.version = Latest, !.profiles = {}, !.token = FALSE]

MCRuns ==
  {FirstInstall, [FirstInstall EXCEPT !.from = "pipe"], Upgrade,
   [Upgrade EXCEPT !.strict = TRUE, !.version = 1]}

MCAlterations == {{}, {"binary"}, {"updater"}, {"SHA256SUMS", "updater"}}
=============================================================================
