------------------------ MODULE IpcSharedQueueProofs ------------------------
(***************************************************************************)
(* What the statement-level queue guarantees for every capacity, every     *)
(* width of the counter and every number of sends.                         *)
(*                                                                         *)
(* The argument, bottom up: the types; the range of count, with what each  *)
(* side still knows of the count it checked; the drift of count from the   *)
(* true occupancy; and, when the updates of count have not overlapped, the *)
(* contents of the ring.                                                   *)
(***************************************************************************)
EXTENDS IpcSharedQueue, SequenceTheorems, TLAPS

USE CapacityAssumption, ModulusAssumption, MaxSendsAssumption

\* An accepted send is below the bound of the model until it has returned.
SendAllowed == sender # "idle" => sent < MaxSends

TypeInv == TypeOK /\ SendAllowed

\* A side that has passed its check can rely on what it saw: the other side
\* only makes more room (more messages) before it stores its own count.
CountInv ==
  /\ count \in 0 .. Capacity
  /\ sender # "idle" => count < Capacity
  /\ sender = "store" => sendReg \in 0 .. Capacity - 1
  /\ receiver # "idle" => count > 0
  /\ receiver = "store" => recvReg \in 1 .. Capacity

\* Of the overlaps counted so far, those whose lost update has been stored.
Settled == IF sender = "store" /\ receiver = "store" THEN overlaps - 1 ELSE overlaps

DriftInv ==
  /\ Within(count - Occupancy, Settled)
  /\ sender = "store" => Within(sendReg - Occupancy, Settled)
  /\ receiver = "store" => Within(recvReg - Occupancy, Settled)

\* How far slot i lies ahead of the consumer on the ring.
Ahead(i) == IF i >= consumer_index THEN i - consumer_index
                                   ELSE i - consumer_index + Capacity

\* Where the ring says the producer's next slot is.
ProducerPlaced ==
  producer_index = IF consumer_index + Pending < Capacity
                     THEN consumer_index + Pending
                     ELSE consumer_index + Pending - Capacity

\* Every slot between the indices holds its message, whole.
SlotsFilled == \A i \in Index : Ahead(i) < Pending => messages[i] = Whole(Taken + 1 + Ahead(i))

\* How far the two copies in progress have come.
CopyIn ==
  /\ sender = "copyData" => messages[producer_index].header = sent + 1
  /\ sender = "index" => messages[producer_index] = Whole(sent + 1)
CopyOut ==
  /\ receiver = "copyData" => msg.header = received + 1
  /\ receiver \in {"index", "load", "store"} => msg = Whole(received + 1)

RingInv == overlaps = 0 => ProducerPlaced /\ SlotsFilled /\ CopyIn /\ CopyOut

-----------------------------------------------------------------------------
(* Arithmetic of the ring and of the counter.                              *)

\* The ring arithmetic of both calls steps to the next slot, the last one
\* being followed by slot 0.
LEMMA NextIndexWraps ==
  ASSUME NEW i \in Index
  PROVE  NextIndex(i) = IF i + 1 = Capacity THEN 0 ELSE i + 1
BY DEF NextIndex, Index

\* An offset of less than one turn wraps at most once.
LEMMA RingWraps ==
  ASSUME NEW i \in 0 .. Capacity - 1, NEW j \in 0 .. Capacity - 1
  PROVE  (i + j) % Capacity = IF i + j < Capacity THEN i + j ELSE i + j - Capacity
<1>1. CASE i + j < Capacity
  BY <1>1
<1>2. CASE i + j >= Capacity
  <2>1. i + j = 1 * Capacity + (i + j - Capacity) /\ i + j - Capacity \in 0 .. Capacity - 1
    BY <1>2
  <2>2. QED  BY <1>2, <2>1
<1>3. QED  BY <1>1, <1>2

\* Away from its limits the u32 arithmetic is ordinary arithmetic.
LEMMA ModulusTransparent ==
  ASSUME NEW n \in 0 .. Modulus - 1
  PROVE  n % Modulus = n
OBVIOUS

\* Whatever the operands, u32 arithmetic yields a u32.
LEMMA ModulusRange ==
  ASSUME NEW n \in Int
  PROVE  n % Modulus \in 0 .. Modulus - 1
OBVIOUS

-----------------------------------------------------------------------------
(* Types.                                                                  *)

\* Both sides begin outside their calls.
LEMMA TypeInvInit == Init => TypeInv
BY DEF Init, TypeInv, TypeOK, SendAllowed, Index, Slot, Cleared, Steps

\* Every statement keeps the types, and a send within the bound.
LEMMA TypeInvNext == TypeInv /\ [Next]_vars => TypeInv'
<1> SUFFICES ASSUME TypeInv, [Next]_vars PROVE TypeInv'
  OBVIOUS
<1> USE DEF TypeInv, TypeOK, SendAllowed, Steps
<1>1. CASE SendCheck
  BY <1>1 DEF SendCheck, queueVars, recvVars
<1>2. CASE SendCopyHeader
  <2>1. [messages[producer_index] EXCEPT !.header = sent + 1] \in Slot
    BY <1>2 DEF SendCopyHeader, Slot
  <2>2. messages' \in [Index -> Slot]
    BY <1>2, <2>1 DEF SendCopyHeader
  <2> QED
    BY <1>2, <2>2 DEF SendCopyHeader, recvVars
<1>3. CASE SendCopyData
  <2>1. [messages[producer_index] EXCEPT !.data = sent + 1] \in Slot
    BY <1>3 DEF SendCopyData, Slot
  <2>2. messages' \in [Index -> Slot]
    BY <1>3, <2>1 DEF SendCopyData
  <2> QED
    BY <1>3, <2>2 DEF SendCopyData, recvVars
<1>4. CASE SendIndex
  BY <1>4, NextIndexWraps DEF SendIndex, recvVars, Index
<1>5. CASE SendLoadCount
  BY <1>5 DEF SendLoadCount, queueVars, recvVars
<1>6. CASE SendStoreCount
  BY <1>6, ModulusRange DEF SendStoreCount, recvVars
<1>7. CASE ReceiveCheck
  BY <1>7 DEF ReceiveCheck, queueVars, sendVars
<1>8. CASE ReceiveCopyHeader
  BY <1>8 DEF ReceiveCopyHeader, queueVars, sendVars, Slot, Index
<1>9. CASE ReceiveCopyData
  BY <1>9 DEF ReceiveCopyData, queueVars, sendVars, Slot, Index
<1>10. CASE ReceiveIndex
  BY <1>10, NextIndexWraps DEF ReceiveIndex, sendVars, Index
<1>11. CASE ReceiveLoadCount
  BY <1>11 DEF ReceiveLoadCount, queueVars, sendVars
<1>12. CASE ReceiveStoreCount
  BY <1>12, ModulusRange DEF ReceiveStoreCount, sendVars
<1>13. CASE UNCHANGED vars
  BY <1>13 DEF vars, queueVars, sendVars, recvVars
<1> QED
  BY <1>1, <1>2, <1>3, <1>4, <1>5, <1>6, <1>7, <1>8, <1>9, <1>10, <1>11, <1>12, <1>13
     DEF Next, Send, Receive

\* The queue and both calls keep their types: an index never leaves the ring,
\* a register never leaves u32, whatever the interleaving.
THEOREM TypeCorrect == Spec => []TypeOK
<1>1. TypeInv => TypeOK
  BY DEF TypeInv
<1> QED
  BY <1>1, TypeInvInit, TypeInvNext, PTL DEF Spec

\* The types, throughout.
LEMMA TypeInvariant == Spec => []TypeInv
BY TypeInvInit, TypeInvNext, PTL DEF Spec

-----------------------------------------------------------------------------
(* The range of count.                                                     *)

\* The empty queue's counter is settled.
LEMMA CountInvInit == Init => CountInv
BY DEF Init, CountInv

\* Every statement keeps what a side still knows of the counter it checked.
LEMMA CountInvNext == TypeInv /\ CountInv /\ [Next]_vars => CountInv'
<1> SUFFICES ASSUME TypeInv, CountInv, [Next]_vars PROVE CountInv'
  OBVIOUS
<1> USE DEF TypeInv, TypeOK, Steps, CountInv
<1>1. CASE SendCheck
  BY <1>1 DEF SendCheck, queueVars, sendVars, recvVars, ipc_queue_full
<1>2. CASE SendCopyHeader
  BY <1>2 DEF SendCopyHeader, queueVars, sendVars, recvVars
<1>3. CASE SendCopyData
  BY <1>3 DEF SendCopyData, queueVars, sendVars, recvVars
<1>4. CASE SendIndex
  BY <1>4 DEF SendIndex, queueVars, sendVars, recvVars
<1>5. CASE SendLoadCount
  BY <1>5 DEF SendLoadCount, queueVars, sendVars, recvVars
<1>6. CASE SendStoreCount
  BY <1>6, ModulusTransparent DEF SendStoreCount, queueVars, sendVars, recvVars
<1>7. CASE ReceiveCheck
  BY <1>7 DEF ReceiveCheck, queueVars, sendVars, recvVars, ipc_queue_empty
<1>8. CASE ReceiveCopyHeader
  BY <1>8 DEF ReceiveCopyHeader, queueVars, sendVars, recvVars
<1>9. CASE ReceiveCopyData
  BY <1>9 DEF ReceiveCopyData, queueVars, sendVars, recvVars
<1>10. CASE ReceiveIndex
  BY <1>10 DEF ReceiveIndex, queueVars, sendVars, recvVars
<1>11. CASE ReceiveLoadCount
  BY <1>11 DEF ReceiveLoadCount, queueVars, sendVars, recvVars
<1>12. CASE ReceiveStoreCount
  BY <1>12, ModulusTransparent DEF ReceiveStoreCount, queueVars, sendVars, recvVars
<1>13. CASE UNCHANGED vars
  BY <1>13 DEF vars, queueVars, sendVars, recvVars
<1> QED
  BY <1>1, <1>2, <1>3, <1>4, <1>5, <1>6, <1>7, <1>8, <1>9, <1>10, <1>11, <1>12, <1>13
     DEF Next, Send, Receive

\* The message counter of a queue stays between 0 and the capacity for every
\* capacity and every interleaving of the unlocked count++ and count--.
THEOREM CountNeverWraps == Spec => []CountInRange
<1>1. CountInv => CountInRange
  BY DEF CountInv, CountInRange
<1> QED
  BY <1>1, TypeInvariant, CountInvInit, CountInvNext, PTL DEF Spec

\* The counter's bounds, throughout.
LEMMA CountInvariant == Spec => []CountInv
BY TypeInvariant, CountInvInit, CountInvNext, PTL DEF Spec

-----------------------------------------------------------------------------
(* The drift of count from the occupancy.                                  *)

\* At first the counter is the occupancy.
LEMMA DriftInvInit == Init => DriftInv
BY DEF Init, DriftInv, Settled, Occupancy, Within

\* Only a step that overlaps the other side's update lets the distance grow.
LEMMA DriftInvNext == TypeInv /\ CountInv /\ DriftInv /\ [Next]_vars => DriftInv'
<1> SUFFICES ASSUME TypeInv, CountInv, DriftInv, [Next]_vars PROVE DriftInv'
  OBVIOUS
<1> USE DEF TypeInv, TypeOK, Steps, CountInv, DriftInv, Settled, Occupancy, Within
<1>1. CASE SendCheck
  BY <1>1 DEF SendCheck, queueVars, sendVars, recvVars
<1>2. CASE SendCopyHeader
  BY <1>2 DEF SendCopyHeader, queueVars, sendVars, recvVars
<1>3. CASE SendCopyData
  BY <1>3 DEF SendCopyData, queueVars, sendVars, recvVars
<1>4. CASE SendIndex
  BY <1>4 DEF SendIndex, queueVars, sendVars, recvVars
<1>5. CASE SendLoadCount
  BY <1>5 DEF SendLoadCount, queueVars, sendVars, recvVars
<1>6. CASE SendStoreCount
  BY <1>6, ModulusTransparent DEF SendStoreCount, queueVars, sendVars, recvVars
<1>7. CASE ReceiveCheck
  BY <1>7 DEF ReceiveCheck, queueVars, sendVars, recvVars
<1>8. CASE ReceiveCopyHeader
  BY <1>8 DEF ReceiveCopyHeader, queueVars, sendVars, recvVars
<1>9. CASE ReceiveCopyData
  BY <1>9 DEF ReceiveCopyData, queueVars, sendVars, recvVars
<1>10. CASE ReceiveIndex
  BY <1>10 DEF ReceiveIndex, queueVars, sendVars, recvVars
<1>11. CASE ReceiveLoadCount
  BY <1>11 DEF ReceiveLoadCount, queueVars, sendVars, recvVars
<1>12. CASE ReceiveStoreCount
  BY <1>12, ModulusTransparent DEF ReceiveStoreCount, queueVars, sendVars, recvVars
<1>13. CASE UNCHANGED vars
  BY <1>13 DEF vars, queueVars, sendVars, recvVars
<1> QED
  BY <1>1, <1>2, <1>3, <1>4, <1>5, <1>6, <1>7, <1>8, <1>9, <1>10, <1>11, <1>12, <1>13
     DEF Next, Send, Receive

\* The counter's distance from the occupancy, throughout.
LEMMA DriftInvariant == Spec => []DriftInv
BY TypeInvariant, CountInvariant, DriftInvInit, DriftInvNext, PTL DEF Spec

\* Lost updates of count are the only damage the missing atomicity does to it,
\* and each overlap costs at most one: between calls count is within overlaps
\* of the number of messages sent and not yet received.
THEOREM DriftIsBounded == Spec => []DriftBounded
<1>1. DriftInv => DriftBounded
  BY DEF DriftInv, DriftBounded, Settled
<1> QED
  BY <1>1, DriftInvariant, PTL

-----------------------------------------------------------------------------
(* The contents of the ring while the updates of count have not overlapped. *)

Copying(step) == step \in {"copyHeader", "copyData", "index"}

\* Without overlaps the indices enclose between none and capacity messages;
\* there is a free slot for a copy in and a full one for a copy out.
LEMMA PendingRange ==
  ASSUME TypeInv, CountInv, DriftInv, overlaps = 0
  PROVE  /\ Pending \in 0 .. Capacity
         /\ Copying(sender) => Pending < Capacity
         /\ Copying(receiver) => Pending > 0
<1>1. count = Occupancy
  BY DEF TypeInv, TypeOK, CountInv, DriftInv, Settled, Within, Occupancy
<1> QED
  BY <1>1 DEF TypeInv, TypeOK, CountInv, Steps, Copying, Pending, Put, Taken, Occupancy

\* The slot the producer copies into lies just behind the full ones.
LEMMA ProducerSlotFree ==
  ASSUME TypeInv, ProducerPlaced, Pending \in 0 .. Capacity - 1
  PROVE  Ahead(producer_index) = Pending
BY DEF TypeInv, TypeOK, ProducerPlaced, Ahead, Index

\* On the empty ring nothing waits and nothing is being copied.
LEMMA RingInvInit == Init => RingInv
BY DEF Init, RingInv, ProducerPlaced, SlotsFilled, CopyIn, CopyOut, Pending, Put, Taken,
   Ahead, Index

\* Without an overlap every statement keeps each message in its slot, whole.
LEMMA RingInvNext ==
  TypeInv /\ CountInv /\ DriftInv /\ RingInv /\ [Next]_vars => RingInv'
<1> SUFFICES ASSUME TypeInv, CountInv, DriftInv, RingInv, [Next]_vars, overlaps' = 0
             PROVE  RingInv'
  BY DEF RingInv
<1>0. overlaps = 0
  BY DEF TypeInv, TypeOK, Next, Send, Receive, SendCheck, SendCopyHeader, SendCopyData,
         SendIndex, SendLoadCount, SendStoreCount, ReceiveCheck, ReceiveCopyHeader,
         ReceiveCopyData, ReceiveIndex, ReceiveLoadCount, ReceiveStoreCount, vars
<1>r. ProducerPlaced /\ SlotsFilled /\ CopyIn /\ CopyOut
  BY <1>0 DEF RingInv
<1>a. /\ Pending \in 0 .. Capacity
      /\ Copying(sender) => Pending < Capacity
      /\ Copying(receiver) => Pending > 0
  BY <1>0, PendingRange
<1>1. CASE SendCheck
  BY <1>0, <1>1 DEF SendCheck, queueVars, recvVars, RingInv,
     ProducerPlaced, SlotsFilled, CopyIn, CopyOut, Pending, Put, Taken, Ahead
<1>2. CASE SendCopyHeader
  <2>1. /\ Ahead(producer_index) = Pending
        /\ Pending' = Pending /\ Taken' = Taken
        /\ \A i \in Index : Ahead(i)' = Ahead(i)
    BY <1>r, <1>a, <1>2, ProducerSlotFree
       DEF SendCopyHeader, recvVars, Copying, Pending, Put, Taken, Ahead
  <2>2. ProducerPlaced'
    BY <1>r, <1>2, <2>1 DEF SendCopyHeader, ProducerPlaced
  <2>3. SlotsFilled'
    BY <1>r, <1>a, <1>2, <2>1 DEF SendCopyHeader, SlotsFilled, TypeInv, TypeOK, Copying
  <2>4. CopyIn'
    BY <1>r, <1>2 DEF SendCopyHeader, CopyIn, TypeInv, TypeOK, Slot, Whole
  <2>5. CopyOut'
    BY <1>r, <1>2 DEF SendCopyHeader, recvVars, CopyOut
  <2> QED
    BY <2>2, <2>3, <2>4, <2>5 DEF RingInv
<1>3. CASE SendCopyData
  <2>1. /\ Ahead(producer_index) = Pending
        /\ Pending' = Pending /\ Taken' = Taken
        /\ \A i \in Index : Ahead(i)' = Ahead(i)
    BY <1>r, <1>a, <1>3, ProducerSlotFree
       DEF SendCopyData, recvVars, Copying, Pending, Put, Taken, Ahead
  <2>2. ProducerPlaced'
    BY <1>r, <1>3, <2>1 DEF SendCopyData, ProducerPlaced
  <2>3. SlotsFilled'
    BY <1>r, <1>a, <1>3, <2>1 DEF SendCopyData, SlotsFilled, TypeInv, TypeOK, Copying
  <2>4. CopyIn'
    BY <1>r, <1>3 DEF SendCopyData, CopyIn, TypeInv, TypeOK, Slot, Whole
  <2>5. CopyOut'
    BY <1>r, <1>3 DEF SendCopyData, recvVars, CopyOut
  <2> QED
    BY <2>2, <2>3, <2>4, <2>5 DEF RingInv
<1>4. CASE SendIndex
  <2>1. /\ Ahead(producer_index) = Pending
        /\ Pending' = Pending + 1 /\ Taken' = Taken
        /\ \A i \in Index : Ahead(i)' = Ahead(i)
    BY <1>r, <1>a, <1>4, ProducerSlotFree
       DEF SendIndex, recvVars, Copying, Pending, Put, Taken, Ahead, TypeInv, TypeOK
  <2>2. ProducerPlaced'
    BY <1>r, <1>a, <1>4, <2>1, NextIndexWraps
       DEF SendIndex, ProducerPlaced, Copying, TypeInv, TypeOK, Index
  <2>3. SlotsFilled'
    <3> SUFFICES ASSUME NEW i \in Index, Ahead(i) < Pending + 1
                 PROVE  messages[i] = Whole(Taken + 1 + Ahead(i))
      BY <1>4, <2>1 DEF SendIndex, SlotsFilled
    <3>1. CASE Ahead(i) < Pending
      BY <1>r, <3>1 DEF SlotsFilled
    <3>2. CASE Ahead(i) = Pending
      <4>1. i = producer_index
        BY <2>1, <3>2 DEF Ahead, TypeInv, TypeOK, Index
      <4>2. Taken + 1 + Pending = sent + 1
        BY <1>4 DEF SendIndex, Pending, Put, Taken, TypeInv, TypeOK
      <4> QED
        BY <1>r, <1>4, <3>2, <4>1, <4>2 DEF SendIndex, CopyIn
    <3> QED
      BY <3>1, <3>2, <1>a DEF Ahead, TypeInv, TypeOK, Index
  <2>4. CopyIn' /\ CopyOut'
    BY <1>r, <1>4 DEF SendIndex, recvVars, CopyIn, CopyOut
  <2> QED
    BY <2>2, <2>3, <2>4 DEF RingInv
<1>5. CASE SendLoadCount
  BY <1>0, <1>5 DEF SendLoadCount, queueVars, recvVars, RingInv,
     ProducerPlaced, SlotsFilled, CopyIn, CopyOut, Pending, Put, Taken, Ahead
<1>6. CASE SendStoreCount
  BY <1>0, <1>6 DEF SendStoreCount, recvVars, RingInv,
     ProducerPlaced, SlotsFilled, CopyIn, CopyOut, Pending, Put, Taken, Ahead
<1>7. CASE ReceiveCheck
  BY <1>0, <1>7 DEF ReceiveCheck, queueVars, sendVars, RingInv,
     ProducerPlaced, SlotsFilled, CopyIn, CopyOut, Pending, Put, Taken, Ahead
<1>8. CASE ReceiveCopyHeader
  <2>1. messages[consumer_index] = Whole(received + 1)
    BY <1>r, <1>a, <1>8
       DEF ReceiveCopyHeader, SlotsFilled, Copying, Taken, Ahead, TypeInv, TypeOK, Index
  <2>2. CopyOut'
    BY <1>r, <1>8, <2>1 DEF ReceiveCopyHeader, CopyOut, TypeInv, TypeOK, Slot, Whole
  <2>3. ProducerPlaced' /\ SlotsFilled' /\ CopyIn'
    BY <1>r, <1>8 DEF ReceiveCopyHeader, queueVars, sendVars, ProducerPlaced, SlotsFilled,
       CopyIn, Pending, Put, Taken, Ahead
  <2> QED
    BY <2>2, <2>3 DEF RingInv
<1>9. CASE ReceiveCopyData
  <2>1. messages[consumer_index] = Whole(received + 1)
    BY <1>r, <1>a, <1>9
       DEF ReceiveCopyData, SlotsFilled, Copying, Taken, Ahead, TypeInv, TypeOK, Index
  <2>2. CopyOut'
    BY <1>r, <1>9, <2>1 DEF ReceiveCopyData, CopyOut, TypeInv, TypeOK, Slot, Whole
  <2>3. ProducerPlaced' /\ SlotsFilled' /\ CopyIn'
    BY <1>r, <1>9 DEF ReceiveCopyData, queueVars, sendVars, ProducerPlaced, SlotsFilled,
       CopyIn, Pending, Put, Taken, Ahead
  <2> QED
    BY <2>2, <2>3 DEF RingInv
<1>10. CASE ReceiveIndex
  <2>1. /\ Pending' = Pending - 1 /\ Taken' = Taken + 1 /\ Pending > 0
        /\ consumer_index' = IF consumer_index + 1 = Capacity THEN 0 ELSE consumer_index + 1
    BY <1>a, <1>10, NextIndexWraps
       DEF ReceiveIndex, sendVars, Copying, Pending, Put, Taken, TypeInv, TypeOK
  <2>2. ProducerPlaced'
    BY <1>r, <1>a, <1>10, <2>1
       DEF ReceiveIndex, ProducerPlaced, TypeInv, TypeOK, Index
  <2>3. SlotsFilled'
    <3> SUFFICES ASSUME NEW i \in Index, Ahead(i)' < Pending'
                 PROVE  messages[i] = Whole(Taken' + 1 + Ahead(i)')
      BY <1>10 DEF ReceiveIndex, SlotsFilled
    <3>1. Ahead(i) = Ahead(i)' + 1
      BY <1>a, <2>1 DEF Ahead, TypeInv, TypeOK, Index
    <3>2. /\ Ahead(i) < Pending
          /\ Taken + 1 + Ahead(i) = Taken' + 1 + Ahead(i)'
      BY <1>a, <2>1, <3>1 DEF Ahead, Taken, TypeInv, TypeOK, Index
    <3> QED
      BY <1>r, <3>2 DEF SlotsFilled
  <2>4. CopyIn' /\ CopyOut'
    BY <1>r, <1>10 DEF ReceiveIndex, sendVars, CopyIn, CopyOut
  <2> QED
    BY <2>2, <2>3, <2>4 DEF RingInv
<1>11. CASE ReceiveLoadCount
  BY <1>0, <1>11 DEF ReceiveLoadCount, queueVars, sendVars, RingInv,
     ProducerPlaced, SlotsFilled, CopyIn, CopyOut, Pending, Put, Taken, Ahead
<1>12. CASE ReceiveStoreCount
  BY <1>0, <1>12 DEF ReceiveStoreCount, sendVars, RingInv,
     ProducerPlaced, SlotsFilled, CopyIn, CopyOut, Pending, Put, Taken, Ahead
<1>13. CASE UNCHANGED vars
  BY <1>13 DEF vars, queueVars, sendVars, recvVars, RingInv,
     ProducerPlaced, SlotsFilled, CopyIn, CopyOut, Pending, Put, Taken, Ahead
<1> QED
  BY <1>1, <1>2, <1>3, <1>4, <1>5, <1>6, <1>7, <1>8, <1>9, <1>10, <1>11, <1>12, <1>13
     DEF Next, Send, Receive

\* The consumer gets the sends in order, each once and whole, as long as the
\* two updates of count have never overlapped.
THEOREM FifoWithoutOverlap == Spec => []FifoUnlessOverlapped
<1>1. RingInv => FifoUnlessOverlapped
  BY DEF RingInv, CopyOut, FifoUnlessOverlapped
<1> QED
  BY <1>1, TypeInvariant, CountInvariant, DriftInvariant, RingInvInit, RingInvNext, PTL
     DEF Spec

-----------------------------------------------------------------------------
(* The ring as a channel.                                                  *)

Sends(n, m) == [k \in 1 .. m |-> Whole(n + k)]

\* One send more.
LEMMA LongerByOne ==
  ASSUME NEW n \in Nat, NEW m \in Nat
  PROVE  /\ Len(Sends(n, m)) = m /\ Len(Sends(n, m + 1)) = m + 1
         /\ SubSeq(Sends(n, m + 1), 1, m) = Sends(n, m)
<1>1. /\ \A j \in Nat : Sends(n, j) \in Seq([header : Nat, data : Nat]) /\ Len(Sends(n, j)) = j
  BY DEF Sends, Whole
<1>2. SubSeq(Sends(n, m + 1), 1, m) = [i \in 1 .. m |-> Sends(n, m + 1)[i]]
  BY <1>1
<1>3. \A i \in 1 .. m : Sends(n, m + 1)[i] = Whole(n + i)
  BY DEF Sends
<1>4. QED  BY <1>1, <1>2, <1>3 DEF Sends

\* The first of the sends taken away.
LEMMA TailOfSends ==
  ASSUME NEW n \in Nat, NEW m \in Nat, m > 0
  PROVE  Sends(n, m) # <<>> /\ Tail(Sends(n, m)) = Sends(n + 1, m - 1)
<1>1. Sends(n, m) \in Seq([header : Nat, data : Nat]) /\ Len(Sends(n, m)) = m
  BY DEF Sends, Whole
<1>2. Sends(n + 1, m - 1) \in Seq([header : Nat, data : Nat]) /\ Len(Sends(n + 1, m - 1)) = m - 1
  BY DEF Sends, Whole
<1>3. Sends(n, m) # <<>>
  BY <1>1
<1>4. /\ Tail(Sends(n, m)) \in Seq([header : Nat, data : Nat])
      /\ Len(Tail(Sends(n, m))) = m - 1
      /\ \A i \in 1 .. m - 1 : Tail(Sends(n, m))[i] = Sends(n, m)[i + 1]
  BY <1>1, <1>3, HeadTailProperties
<1>5. \A i \in 1 .. m - 1 : Sends(n, m)[i + 1] = Sends(n + 1, m - 1)[i]
  BY DEF Sends
<1>6. Tail(Sends(n, m)) = Sends(n + 1, m - 1)
  BY ONLY <1>2, <1>4, <1>5, SeqEqual
<1>7. QED  BY <1>3, <1>6

\* Without overlaps the waiting slots hold the sends that follow those taken.
LEMMA WaitingIsTheSends ==
  TypeInv /\ CountInv /\ DriftInv /\ RingInv /\ overlaps = 0
    => Waiting = Sends(Taken, Pending)
<1> SUFFICES ASSUME TypeInv, CountInv, DriftInv, RingInv, overlaps = 0
             PROVE  Waiting = Sends(Taken, Pending)
  OBVIOUS
<1>1. Pending \in 0 .. Capacity /\ SlotsFilled
  BY PendingRange DEF RingInv
<1>2. ASSUME NEW k \in 1 .. Pending
      PROVE  messages[(consumer_index + (k - 1)) % Capacity] = Whole(Taken + k)
  <2> DEFINE i == (consumer_index + (k - 1)) % Capacity
  <2>1. consumer_index \in Nat /\ k \in Nat /\ k <= Capacity /\ consumer_index < Capacity
    BY <1>1 DEF TypeInv, TypeOK, Index
  <2>2. i = IF consumer_index + (k - 1) < Capacity THEN consumer_index + (k - 1)
                                                ELSE consumer_index + (k - 1) - Capacity
    <3>1. consumer_index \in 0 .. Capacity - 1 /\ k - 1 \in 0 .. Capacity - 1
      BY <2>1
    <3>2. QED  BY <3>1, RingWraps
  <2> HIDE DEF i
  <2>3. i \in Index /\ Ahead(i) = k - 1
    BY <2>1, <2>2 DEF Ahead, Index
  <2>4. Ahead(i) < Pending /\ Taken + 1 + Ahead(i) = Taken + k
    BY <1>1, <2>3 DEF Taken, TypeInv, TypeOK
  <2>5. QED  BY <1>1, <2>3, <2>4 DEF SlotsFilled, i
<1>3. QED  BY <1>2 DEF Waiting, Sends

\* Each step of the two calls is one of the channel, or none.
LEMMA RingStep ==
  ASSUME TypeInv, CountInv, DriftInv, RingInv, TypeInv', CountInv', DriftInv', RingInv',
         [Next]_vars, overlaps' = 0
  PROVE  [Ring!Enqueue \/ Ring!Dequeue]_Waiting
<1>0. overlaps = 0
  BY DEF TypeInv, TypeOK, Next, Send, Receive, SendCheck, SendCopyHeader, SendCopyData,
         SendIndex, SendLoadCount, SendStoreCount, ReceiveCheck, ReceiveCopyHeader,
         ReceiveCopyData, ReceiveIndex, ReceiveLoadCount, ReceiveStoreCount, vars
<1>1. /\ Waiting = Sends(Taken, Pending)
      /\ Pending \in 0 .. Capacity /\ Taken \in Nat
      /\ Copying(sender) => Pending < Capacity
      /\ Copying(receiver) => Pending > 0
  BY <1>0, WaitingIsTheSends, PendingRange DEF Taken, TypeInv, TypeOK
<1>2. Waiting' = Sends(Taken', Pending')
  <2>1. (TypeInv /\ CountInv /\ DriftInv /\ RingInv /\ overlaps = 0
           => Waiting = Sends(Taken, Pending))'
    BY WaitingIsTheSends, PTL
  <2>2. QED  BY <2>1 DEF Sends, Whole
<1>3. CASE Pending' = Pending /\ Taken' = Taken
  BY <1>1, <1>2, <1>3
<1>4. CASE SendIndex
  <2>1. Pending' = Pending + 1 /\ Taken' = Taken /\ Pending < Capacity
    BY <1>1, <1>4 DEF SendIndex, Pending, Put, Taken, Copying, TypeInv, TypeOK, recvVars
  <2>2. Ring!Enqueue
    <3>1. Waiting = Sends(Taken, Pending) /\ Waiting' = Sends(Taken, Pending + 1)
      BY <1>1, <1>2, <2>1
    <3>2. Taken \in Nat /\ Pending \in Nat
      BY <1>1
    <3>3. /\ Len(Sends(Taken, Pending)) = Pending
          /\ Len(Sends(Taken, Pending + 1)) = Pending + 1
          /\ SubSeq(Sends(Taken, Pending + 1), 1, Pending) = Sends(Taken, Pending)
      BY ONLY <3>2, LongerByOne
    <3>4. QED  BY ONLY <2>1, <3>1, <3>3 DEF Ring!Enqueue
  <2>3. QED  BY <2>2
<1>5. CASE ReceiveIndex
  <2>1. Pending' = Pending - 1 /\ Taken' = Taken + 1 /\ Pending > 0
    BY <1>1, <1>5 DEF ReceiveIndex, Pending, Put, Taken, Copying, TypeInv, TypeOK, sendVars
  <2>2. Ring!Dequeue
    <3>1. Waiting = Sends(Taken, Pending) /\ Waiting' = Sends(Taken + 1, Pending - 1)
      BY <1>1, <1>2, <2>1
    <3>2. Taken \in Nat /\ Pending \in Nat /\ Pending > 0
      BY <1>1, <2>1
    <3>3. Waiting # <<>> /\ Tail(Waiting) = Waiting'
      BY ONLY <3>1, <3>2, TailOfSends
    <3>4. QED  BY ONLY <3>3 DEF Ring!Dequeue
  <2>3. QED  BY <2>2
<1>6. CASE Next /\ ~SendIndex /\ ~ReceiveIndex
  <2>1. Put' = Put /\ Taken' = Taken
    BY <1>6 DEF Next, Send, Receive, SendCheck, SendCopyHeader, SendCopyData,
         SendLoadCount, SendStoreCount, ReceiveCheck, ReceiveCopyHeader,
         ReceiveCopyData, ReceiveLoadCount, ReceiveStoreCount, sendVars, recvVars, Put, Taken
  <2>2. QED  BY <1>3, <2>1 DEF Pending
<1>7. CASE UNCHANGED vars
  BY <1>3, <1>7 DEF vars, sendVars, recvVars, Pending, Put, Taken
<1>8. QED  BY <1>4, <1>5, <1>6, <1>7

\* For every capacity the statements of the two calls implement a channel of that
\* capacity, as long as the two updates of count have never overlapped.
THEOREM RingIsFifo == Spec => FifoStepsUnlessOverlapped
<1>1. Init => Ring!Init
  BY DEF Init, Ring!Init, Waiting, Pending, Put, Taken
<1>2. /\ TypeInv /\ CountInv /\ DriftInv /\ RingInv
      /\ TypeInv' /\ CountInv' /\ DriftInv' /\ RingInv'
      /\ [Next]_vars
      => [overlaps' = 0 => [Ring!Enqueue \/ Ring!Dequeue]_Waiting]_vars
  BY RingStep
<1>3. QED
  BY <1>1, <1>2, TypeInvariant, CountInvariant, DriftInvariant, RingInvInit, RingInvNext, PTL
     DEF Spec, FifoStepsUnlessOverlapped

=============================================================================
