---------------------------- MODULE OrderedStream ----------------------------
(* What one direction of a tunnel promises: the receiver gets the frames    *)
(* of the sender in the order they were sent, each one once.                *)
EXTENDS Naturals, Sequences

CONSTANT Frame
VARIABLES sent, received

Init == sent = <<>> /\ received = <<>>

Send == (\E f \in Frame : sent' = Append(sent, f)) /\ UNCHANGED received

Receive ==
  /\ Len(received) < Len(sent)
  /\ received' = Append(received, sent[Len(received) + 1])
  /\ UNCHANGED sent

Spec == Init /\ [][Send \/ Receive]_<<sent, received>>
=============================================================================
