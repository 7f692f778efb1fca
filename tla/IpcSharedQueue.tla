--------------------------- MODULE IpcSharedQueue ---------------------------
(***************************************************************************)
(* One ipc_queue_t of the DOS25 shared memory, at the granularity of the   *)
(* machine's loads and stores: the producer runs ipc_send_message and the  *)
(* consumer ipc_receive_message (src/uefi/runtime.c) on it at the same     *)
(* time, as the kernel and the runtime daemon do with kernel_to_daemon.    *)
(*                                                                         *)
(* What is kept: every access to a field both sides touch, in the order of *)
(* the statements.  "queue->count++" and "queue->count--" are a load and a *)
(* store, which is what the compiler makes of them on a volatile u32.      *)
(* producer_index is written by the producer only and consumer_index by    *)
(* the consumer only, so their updates are single steps.  CopyMem is two   *)
(* steps, the message's header and then its data, so that a copy that runs *)
(* while the slot is being rewritten shows.                                *)
(*                                                                         *)
(* What is abstracted: a message is the number of the send that wrote it,  *)
(* 1 for the first; 0 is the cleared memory initialize_ipc_queues leaves.  *)
(***************************************************************************)
EXTENDS Integers

CONSTANTS
  Capacity,  \* IPC_QUEUE_SIZE: the value of queue->capacity
  Modulus,   \* 2^32 in the code: u32 arithmetic is modulo this
  MaxSends   \* bound of the model: how many sends are started

ASSUME CapacityAssumption == Capacity \in Nat \ {0}
ASSUME ModulusAssumption  == Modulus \in Nat /\ Modulus > Capacity
ASSUME MaxSendsAssumption == MaxSends \in Nat

VARIABLES
  messages,        \* queue->messages
  producer_index,  \* queue->producer_index
  consumer_index,  \* queue->consumer_index
  count,           \* queue->count
  sender,          \* the producer's next statement in ipc_send_message
  sendReg,         \* the count its count++ has loaded
  receiver,        \* the consumer's next statement in ipc_receive_message
  recvReg,         \* the count its count-- has loaded
  msg,             \* the consumer's buffer, the out parameter of the call
  sent,            \* history: sends that have returned BOOT_SUCCESS
  received,        \* history: receives that have returned BOOT_SUCCESS
  overlaps         \* history: how often one side has loaded count while
                   \* the other was between the load and the store of its own

queueVars == <<messages, producer_index, consumer_index, count>>
sendVars  == <<sender, sendReg, sent>>
recvVars  == <<receiver, recvReg, msg, received>>
vars      == <<queueVars, sendVars, recvVars, overlaps>>

Index     == 0 .. Capacity - 1
Slot      == [header : 0 .. MaxSends, data : 0 .. MaxSends]
Cleared   == [header |-> 0, data |-> 0]
Whole(n)  == [header |-> n, data |-> n]   \* message n, copied undisturbed

Steps     == {"idle", "copyHeader", "copyData", "index", "load", "store"}

(***************************************************************************)
(* initialize_ipc_queues: SetMem over the region, then the fields.         *)
(***************************************************************************)
Init ==
  /\ messages = [i \in Index |-> Cleared]
  /\ producer_index = 0 /\ consumer_index = 0 /\ count = 0
  /\ sender = "idle"   /\ sendReg = 0 /\ sent = 0
  /\ receiver = "idle" /\ recvReg = 0 /\ msg = Cleared /\ received = 0
  /\ overlaps = 0

-----------------------------------------------------------------------------
(* ipc_send_message.  A call that finds the queue full returns             *)
(* BOOT_ERROR_IO and changes nothing: a stuttering step.                   *)

\* Slips of the two checks and of the ring arithmetic, for the mutants.
AllowsOneTooMany == count > Capacity
NeverEmpty       == FALSE
NoWrap(i)        == i + 1

ipc_queue_full  == count >= Capacity
ipc_queue_empty == count = 0
NextIndex(i)    == (i + 1) % Capacity

SendCheck ==
  /\ sender = "idle" /\ sent < MaxSends
  /\ ~ipc_queue_full
  /\ sender' = "copyHeader"
  /\ UNCHANGED <<queueVars, sendReg, sent, recvVars, overlaps>>

SendCopyHeader ==
  /\ sender = "copyHeader"
  /\ messages' = [messages EXCEPT ![producer_index].header = sent + 1]
  /\ sender' = "copyData"
  /\ UNCHANGED <<producer_index, consumer_index, count, sendReg, sent, recvVars, overlaps>>

SendCopyData ==
  /\ sender = "copyData"
  /\ messages' = [messages EXCEPT ![producer_index].data = sent + 1]
  /\ sender' = "index"
  /\ UNCHANGED <<producer_index, consumer_index, count, sendReg, sent, recvVars, overlaps>>

SendIndex ==
  /\ sender = "index"
  /\ producer_index' = NextIndex(producer_index)
  /\ sender' = "load"
  /\ UNCHANGED <<messages, consumer_index, count, sendReg, sent, recvVars, overlaps>>

SendLoadCount ==
  /\ sender = "load"
  /\ sendReg' = count
  /\ overlaps' = overlaps + (IF receiver = "store" THEN 1 ELSE 0)
  /\ sender' = "store"
  /\ UNCHANGED <<queueVars, sent, recvVars>>

SendStoreCount ==
  /\ sender = "store"
  /\ count' = (sendReg + 1) % Modulus
  /\ sent' = sent + 1
  /\ sender' = "idle"
  /\ UNCHANGED <<messages, producer_index, consumer_index, sendReg, recvVars, overlaps>>

Send == \/ SendCheck \/ SendCopyHeader \/ SendCopyData
        \/ SendIndex \/ SendLoadCount \/ SendStoreCount

-----------------------------------------------------------------------------
(* ipc_receive_message.  A call that finds the queue empty returns         *)
(* BOOT_ERROR_NOT_FOUND and changes nothing: a stuttering step.            *)

ReceiveCheck ==
  /\ receiver = "idle"
  /\ ~ipc_queue_empty
  /\ receiver' = "copyHeader"
  /\ UNCHANGED <<queueVars, sendVars, recvReg, msg, received, overlaps>>

ReceiveCopyHeader ==
  /\ receiver = "copyHeader"
  /\ msg' = [msg EXCEPT !.header = messages[consumer_index].header]
  /\ receiver' = "copyData"
  /\ UNCHANGED <<queueVars, sendVars, recvReg, received, overlaps>>

ReceiveCopyData ==
  /\ receiver = "copyData"
  /\ msg' = [msg EXCEPT !.data = messages[consumer_index].data]
  /\ receiver' = "index"
  /\ UNCHANGED <<queueVars, sendVars, recvReg, received, overlaps>>

ReceiveIndex ==
  /\ receiver = "index"
  /\ consumer_index' = NextIndex(consumer_index)
  /\ receiver' = "load"
  /\ UNCHANGED <<messages, producer_index, count, sendVars, recvReg, msg, received, overlaps>>

ReceiveLoadCount ==
  /\ receiver = "load"
  /\ recvReg' = count
  /\ overlaps' = overlaps + (IF sender = "store" THEN 1 ELSE 0)
  /\ receiver' = "store"
  /\ UNCHANGED <<queueVars, sendVars, msg, received>>

\* A mutant: the receive path forgets to give the slot back.
KeepsTheCount ==
  /\ receiver = "store"
  /\ received' = received + 1
  /\ receiver' = "idle"
  /\ UNCHANGED <<queueVars, sendVars, recvReg, msg, overlaps>>

ReceiveStoreCount ==
  /\ receiver = "store"
  /\ count' = (recvReg - 1) % Modulus
  /\ received' = received + 1
  /\ receiver' = "idle"
  /\ UNCHANGED <<messages, producer_index, consumer_index, sendVars, recvReg, msg, overlaps>>

Receive == \/ ReceiveCheck \/ ReceiveCopyHeader \/ ReceiveCopyData
           \/ ReceiveIndex \/ ReceiveLoadCount \/ ReceiveStoreCount

Next == Send \/ Receive

Spec == Init /\ [][Next]_vars

-----------------------------------------------------------------------------
(***************************************************************************)
(* Properties.                                                             *)
(***************************************************************************)

\* Every variable has its type; in particular both indices stay inside the
\* ring whatever the two sides do.
TypeOK ==
  /\ messages \in [Index -> Slot]
  /\ producer_index \in Index /\ consumer_index \in Index
  /\ count \in 0 .. Modulus - 1
  /\ sender \in Steps   /\ sendReg \in 0 .. Modulus - 1 /\ sent \in 0 .. MaxSends
  /\ receiver \in Steps /\ recvReg \in 0 .. Modulus - 1 /\ received \in Nat
  /\ msg \in Slot
  /\ overlaps \in Nat

\* However count++ and count-- interleave, and however many updates of it are
\* lost, count never leaves 0 .. capacity: the u32 never wraps below zero, so
\* the full check can never be satisfied for good, and never passes capacity.
CountInRange == count \in 0 .. Capacity

\* The messages the queue owes the consumer.
Occupancy == sent - received

Within(x, bound) == -bound <= x /\ x <= bound

\* The damage the unlocked count++ and count-- do is bounded: between calls
\* the counter is off from the true occupancy by at most one for each time
\* the two updates overlapped; with no overlap it is exact.
DriftBounded ==
  (sender = "idle" /\ receiver = "idle") => Within(count - Occupancy, overlaps)

\* As long as the two updates of count have never overlapped, the consumer
\* gets every message once, whole and in the order of the sends: the copy
\* ipc_receive_message makes is never torn by a copy into the same slot, never
\* a stale slot and never one that was overwritten unread.
FifoUnlessOverlapped ==
  (overlaps = 0 /\ receiver \in {"index", "load", "store"}) => msg = Whole(received + 1)

\* Messages put into, and taken out of, the ring as the two indices tell it.
Put     == IF sender \in {"load", "store"} THEN sent + 1 ELSE sent
Taken   == IF receiver \in {"load", "store"} THEN received + 1 ELSE received
Pending == Put - Taken

\* The slots between the indices: what waits on the ring.
Waiting ==
  [k \in 1 .. Pending |-> messages[(consumer_index + (k - 1)) % Capacity]]

Ring == INSTANCE BoundedFifo WITH Bound <- Capacity, waiting <- Waiting

\* As long as the two updates of count have never overlapped, the ring is a
\* first-in-first-out channel of at most capacity messages, at every load and
\* store: a message appears when the producer's index moves and goes when the
\* consumer's does, and no step in between touches one that waits.
FifoStepsUnlessOverlapped ==
  Ring!Init /\ [][overlaps' = 0 => [Ring!Enqueue \/ Ring!Dequeue]_Waiting]_vars

\* What runtime.c:124 and runtime.c:147 say of the updates ("atomic"): between
\* calls count is the number of messages in the queue.  The code's updates are
\* not atomic, and a run shows the counter drift.
CountIsOccupancy ==
  (sender = "idle" /\ receiver = "idle") => count = Occupancy

=============================================================================
