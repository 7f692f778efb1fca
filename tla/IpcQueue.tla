------------------------------ MODULE IpcQueue ------------------------------
(***************************************************************************)
(* An ipc_queue_t and the calls of src/uefi/runtime.c on it, each call one *)
(* step: what the queue is to the code around it when no two calls on the  *)
(* same queue overlap.  (IpcSharedQueue has the calls' statements.)        *)
(*                                                                         *)
(* A queue is a record with the fields of the struct; a call that changes  *)
(* it is an operator that gives the queue after the call.  A caller tests  *)
(* ipc_queue_full / ipc_queue_empty first, as the calls themselves do.     *)
(***************************************************************************)
EXTENDS Naturals, Sequences

CONSTANT IPC_QUEUE_SIZE   \* capacity of both queues: 256 in boot.h

ASSUME QueueSizeAssumption == IPC_QUEUE_SIZE \in Nat \ {0}

Slots == 0 .. IPC_QUEUE_SIZE - 1

\* What initialize_ipc_queues leaves: every slot holds the zeroed message.
EmptyQueue(zero) ==
  [messages |-> [i \in Slots |-> zero],
   producer_index |-> 0, consumer_index |-> 0, count |-> 0]

\* A slip of the check, for a mutant.
OneTooMany(q) == q.count > IPC_QUEUE_SIZE

ipc_queue_full(q)  == q.count >= IPC_QUEUE_SIZE
ipc_queue_empty(q) == q.count = 0

\* A mutant: the producer's index does not wrap.
NeverWraps(q, m) ==
  [q EXCEPT !.messages[q.producer_index] = m,
            !.producer_index = q.producer_index + 1, !.count = q.count + 1]

\* The queue after ipc_send_message(q, m) has found room.
AfterSend(q, m) ==
  [messages |-> [q.messages EXCEPT ![q.producer_index] = m],
   producer_index |-> (q.producer_index + 1) % IPC_QUEUE_SIZE,
   consumer_index |-> q.consumer_index,
   count |-> q.count + 1]

\* The message ipc_receive_message(q, ...) copies out, and the queue after it.
Front(q) == q.messages[q.consumer_index]

\* A mutant: the consumer's index stays where it was.
ForgetsIndex(q) == [q EXCEPT !.count = q.count - 1]

AfterReceive(q) ==
  [messages |-> q.messages,
   producer_index |-> q.producer_index,
   consumer_index |-> (q.consumer_index + 1) % IPC_QUEUE_SIZE,
   count |-> q.count - 1]

\* The waiting messages, oldest first: the abstract value of a queue.
Contents(q) ==
  [k \in 1 .. q.count |-> q.messages[(q.consumer_index + k - 1) % IPC_QUEUE_SIZE]]

\* The type of a queue of messages drawn from the set M.
IsQueue(q, M) ==
  /\ q \in [messages : [Slots -> M], producer_index : Slots, consumer_index : Slots,
            count : 0 .. IPC_QUEUE_SIZE]
  /\ q.producer_index = (q.consumer_index + q.count) % IPC_QUEUE_SIZE

=============================================================================
