----------------------------- MODULE MCPromises -----------------------------
(* TLC instance of Promises. *)
EXTENDS Promises
=============================================================================
