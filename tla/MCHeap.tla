------------------------------- MODULE MCHeap -------------------------------
(* TLC instance of Heap. *)
EXTENDS Heap
=============================================================================
