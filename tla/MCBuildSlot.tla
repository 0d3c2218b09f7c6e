---------------------------- MODULE MCBuildSlot ----------------------------
(* TLC instance of BuildSlot. *)
EXTENDS BuildSlot
=============================================================================
