----------------------------- MODULE MCSelfUpdate -----------------------------
(***************************************************************************)
(* TLC instance of SelfUpdate: an enrolled host on release 1, releases that *)
(* ICLIC accepts and one that it does not, altered downloads, one power    *)
(* loss.                                                                   *)
(***************************************************************************)
EXTENDS SelfUpdate

NoRuns == {}

AnyDirective == Directives

\* A pin to the first release, and the newest one.
PinOrLatest == {1, Latest}

MCAlterations == {{}, {"SHA256SUMS", "updater"}}

NoAlterations == {{}}
=============================================================================
