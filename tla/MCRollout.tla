------------------------------- MODULE MCRollout -------------------------------
(* An inventory of three hosts with a comment in it. *)
EXTENDS Rollout

CONSTANTS h1, h2, h3

MCInventory == <<Ignored, h1, h2, h3>>

=============================================================================
