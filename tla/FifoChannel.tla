------------------------------ MODULE FifoChannel ------------------------------
(***************************************************************************)
(* What a pipe promises: a FIFO channel.  Every receiver gets the messages *)
(* 1, 2, ... that were sent, in order, each once, and is told that the     *)
(* channel is done only when there is nothing left to receive.             *)
(***************************************************************************)
EXTENDS Naturals, Sequences

CONSTANT Receivers

VARIABLES
  sent,      \* messages sent, in order
  received,  \* received[r]: what r got, in order
  done       \* done[r]: r was told that all is received

Init ==
  /\ sent = <<>>
  /\ received = [r \in Receivers |-> <<>>]
  /\ done = [r \in Receivers |-> FALSE]

Send ==
  /\ \A r \in Receivers : ~done[r]
  /\ sent' = Append(sent, Len(sent) + 1)
  /\ UNCHANGED <<received, done>>

Receive(r) ==
  /\ Len(received[r]) < Len(sent)
  /\ received' = [received EXCEPT ![r] = Append(@, sent[Len(@) + 1])]
  /\ UNCHANGED <<sent, done>>

Finish(r) ==
  /\ ~done[r] /\ received[r] = sent
  /\ done' = [done EXCEPT ![r] = TRUE]
  /\ UNCHANGED <<sent, received>>

Next == Send \/ \E r \in Receivers : Receive(r) \/ Finish(r)

Spec == Init /\ [][Next]_<<sent, received, done>>
=============================================================================
