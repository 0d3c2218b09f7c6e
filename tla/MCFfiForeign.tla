---------------------------- MODULE MCFfiForeign ----------------------------
(* TLC instance of FfiForeign. *)
EXTENDS FfiForeign
=============================================================================
