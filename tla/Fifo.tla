-------------------------------- MODULE Fifo --------------------------------
(***************************************************************************)
(* What a one-way message channel between two threads promises: elements   *)
(* are received in the order they were sent, each at most once, and every  *)
(* element that was sent is eventually received.  It says nothing about    *)
(* buffers, locks or timers; MessageQueue implements it.                   *)
(***************************************************************************)
EXTENDS Naturals, Sequences

CONSTANT Elements       \* what can be sent

VARIABLES sent,         \* everything sent so far, in order
          received      \* everything received so far, in order

fifoVars == <<sent, received>>

Init == sent = <<>> /\ received = <<>>

Send(e) ==
  /\ sent' = Append(sent, e)
  /\ UNCHANGED received

Receive ==
  /\ Len(received) < Len(sent)
  /\ received' = Append(received, sent[Len(received) + 1])
  /\ UNCHANGED sent

Next == Receive \/ \E e \in Elements : Send(e)

\* The channel without the promise that it makes progress.
SafeSpec == Init /\ [][Next]_fifoVars

Spec == SafeSpec /\ WF_fifoVars(Receive)
=============================================================================
