---------------------------- MODULE MCIslandStream ----------------------------
(* Programs over a source, a PassThrough and two sinks. *)
EXTENDS IslandStream

CONSTANTS src, mid, out1, out2

MCStreams == {src, mid, out1, out2}

NoPipes == [s \in MCStreams |-> <<>>]
Line2 == [NoPipes EXCEPT ![src] = <<out1>>]
Line3 == [NoPipes EXCEPT ![src] = <<mid>>, ![mid] = <<out1>>]
Fork  == [NoPipes EXCEPT ![src] = <<out1, out2>>]

(* Objects, which count 1 each; arrays of lengths 0, 2 and 1.              *)
Objects == [n \in 0..Chunks |-> n]
Arrays == [n \in 0..Chunks |-> IF n = 1 THEN 0 ELSE n]

Use(consumer, style, pps, stages, finals, chunks, upto, hwm, quiet) ==
  [consumer |-> consumer, style |-> style, pipes |-> pps, stages |-> stages,
   starts |-> FlattenSeq([i \in 1..Len(stages) |->
                [j \in 1..Len(pps[stages[i]]) |-> stages[i]]]),
   finals |-> finals, chunks |-> chunks, upto |-> upto, hwm |-> hwm, quiet |-> quiet]

(* Sources that push, or answer read() before it returns, piped or         *)
(* iterated; an iterated source may also answer read() later.              *)
MCPrograms ==
  {Use("pipe", style, Line2, <<src, out1>>, {out1}, 3, Objects, hwm, TRUE)
     : style \in {"push", "pull"}, hwm \in {1, 2}}
  \cup {Use("pipeline", style, Line3, <<src, mid, out1>>, {}, 2, upto, 1, FALSE)
           : style \in {"push", "pull"}, upto \in {Objects, Arrays}}
  \cup {Use("iterate", style, NoPipes, <<src>>, {}, 3, Objects, 1, FALSE)
           : style \in {"push", "pull", "later"}}
  \cup {Use("pipe", "push", Fork, <<src, out1, out2>>, {}, 2, Objects, 1, FALSE)}

(* A source that answers read() later, piped.                              *)
LaterPrograms == {Use("pipe", "later", Line2, <<src, out1>>, {}, 3, Objects, 2, FALSE)}
=============================================================================
