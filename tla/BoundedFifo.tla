---------------------------- MODULE BoundedFifo -----------------------------
(***************************************************************************)
(* What a queue of the shared memory promises its two users: the messages  *)
(* come out in the order they went in, each once, and at most Bound of     *)
(* them wait.  Nothing of the ring shows.                                  *)
(***************************************************************************)
EXTENDS Naturals, Sequences

CONSTANT Bound    \* how many messages may wait

VARIABLE waiting  \* the messages sent and not yet received, oldest first

Init == waiting = <<>>

\* A message is sent: one more waits, behind the others.
Enqueue ==
  /\ Len(waiting) < Bound
  /\ Len(waiting') = Len(waiting) + 1
  /\ SubSeq(waiting', 1, Len(waiting)) = waiting

\* The oldest message is received.
Dequeue ==
  /\ waiting # <<>>
  /\ waiting' = Tail(waiting)

Spec == Init /\ [][Enqueue \/ Dequeue]_waiting

=============================================================================
