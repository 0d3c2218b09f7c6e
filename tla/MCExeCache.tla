------------------------------ MODULE MCExeCache ------------------------------
(* Two processes on one program. *)
EXTENDS ExeCache, TLC

Spent(run, edit, tl, upgrade, prune, crash, fail, all) ==
  [kind \in Kinds |->
     CASE kind = "run" -> run [] kind = "edit" -> edit [] kind = "tool" -> tl
       [] kind = "upgrade" -> upgrade [] kind = "prune" -> prune
       [] kind = "crash" -> crash [] kind = "fail" -> fail [] kind = "all" -> all]

MCBudget == Spent(3, 2, 1, 1, 1, 1, 1, 2)
OverlapBudget == Spent(3, 1, 0, 0, 0, 0, 0, 1)

Symmetry == Permutations(Procs) \cup Permutations(Contents)
=============================================================================
