--------------------------- MODULE IpcQueueProofs ---------------------------
(***************************************************************************)
(* What a call on a queue does, for every capacity: it keeps the ring      *)
(* sound, and on the waiting messages it is a step of BoundedFifo.         *)
(***************************************************************************)
EXTENDS IpcQueue, SequenceTheorems, TLAPS

USE QueueSizeAssumption

-----------------------------------------------------------------------------
(* Ring arithmetic.                                                        *)

\* An offset of less than one turn wraps at most once.
LEMMA Wrap ==
  ASSUME NEW n \in Nat, n < 2 * IPC_QUEUE_SIZE
  PROVE  n % IPC_QUEUE_SIZE = IF n < IPC_QUEUE_SIZE THEN n ELSE n - IPC_QUEUE_SIZE
<1>1. CASE n < IPC_QUEUE_SIZE
  BY <1>1
<1>2. CASE n >= IPC_QUEUE_SIZE
  <2>1. n = 1 * IPC_QUEUE_SIZE + (n - IPC_QUEUE_SIZE)
    OBVIOUS
  <2>2. QED  BY <1>2, <2>1
<1>3. QED  BY <1>1, <1>2

\* So does an index that moves on by one, and what it has wrapped around to is
\* as far from any slot as before.
LEMMA NextSlot ==
  ASSUME NEW c \in Slots, NEW k \in 0 .. IPC_QUEUE_SIZE - 1
  PROVE  /\ (c + 1) % IPC_QUEUE_SIZE \in Slots
         /\ (((c + 1) % IPC_QUEUE_SIZE) + k) % IPC_QUEUE_SIZE = (c + (k + 1)) % IPC_QUEUE_SIZE
         /\ (((c + k) % IPC_QUEUE_SIZE) + 1) % IPC_QUEUE_SIZE = (c + (k + 1)) % IPC_QUEUE_SIZE
<1>1. /\ (c + 1) % IPC_QUEUE_SIZE = IF c + 1 < IPC_QUEUE_SIZE THEN c + 1 ELSE 0
      /\ (c + k) % IPC_QUEUE_SIZE
           = IF c + k < IPC_QUEUE_SIZE THEN c + k ELSE c + k - IPC_QUEUE_SIZE
      /\ (c + (k + 1)) % IPC_QUEUE_SIZE
           = IF c + k + 1 < IPC_QUEUE_SIZE THEN c + k + 1 ELSE c + k + 1 - IPC_QUEUE_SIZE
  <2>1. /\ c \in Nat /\ k \in Nat /\ c + 1 \in Nat /\ c + k \in Nat /\ c + (k + 1) \in Nat
        /\ c + 1 < 2 * IPC_QUEUE_SIZE /\ c + k < 2 * IPC_QUEUE_SIZE
        /\ c + (k + 1) < 2 * IPC_QUEUE_SIZE
        /\ c + 1 <= IPC_QUEUE_SIZE /\ c + (k + 1) = c + k + 1
    BY DEF Slots
  <2>2. (c + 1) % IPC_QUEUE_SIZE = IF c + 1 < IPC_QUEUE_SIZE THEN c + 1 ELSE 0
    BY ONLY <2>1, Wrap, QueueSizeAssumption
  <2>3. (c + k) % IPC_QUEUE_SIZE
           = IF c + k < IPC_QUEUE_SIZE THEN c + k ELSE c + k - IPC_QUEUE_SIZE
    BY ONLY <2>1, Wrap, QueueSizeAssumption
  <2>4. (c + (k + 1)) % IPC_QUEUE_SIZE
           = IF c + k + 1 < IPC_QUEUE_SIZE THEN c + k + 1 ELSE c + k + 1 - IPC_QUEUE_SIZE
    BY ONLY <2>1, Wrap, QueueSizeAssumption
  <2>5. QED  BY <2>2, <2>3, <2>4
<1>2. /\ k % IPC_QUEUE_SIZE = k
      /\ c + 1 < IPC_QUEUE_SIZE => (c + 1 + k) % IPC_QUEUE_SIZE
           = IF c + 1 + k < IPC_QUEUE_SIZE THEN c + 1 + k ELSE c + 1 + k - IPC_QUEUE_SIZE
  BY Wrap DEF Slots
<1>3. /\ c + k + 1 < IPC_QUEUE_SIZE => (c + k + 1) % IPC_QUEUE_SIZE = c + k + 1
      /\ c + k + 1 = IPC_QUEUE_SIZE => (c + k + 1) % IPC_QUEUE_SIZE = 0
      /\ c + k >= IPC_QUEUE_SIZE =>
           (c + k - IPC_QUEUE_SIZE + 1) % IPC_QUEUE_SIZE = c + k - IPC_QUEUE_SIZE + 1
  BY Wrap DEF Slots
<1>4. QED  BY <1>1, <1>2, <1>3 DEF Slots

\* Two offsets of less than one turn name different slots.
LEMMA SlotsDiffer ==
  ASSUME NEW c \in Slots, NEW i \in 0 .. IPC_QUEUE_SIZE - 1, NEW j \in 0 .. IPC_QUEUE_SIZE - 1,
         i # j
  PROVE  (c + i) % IPC_QUEUE_SIZE # (c + j) % IPC_QUEUE_SIZE
<1>1. /\ (c + i) % IPC_QUEUE_SIZE
           = IF c + i < IPC_QUEUE_SIZE THEN c + i ELSE c + i - IPC_QUEUE_SIZE
      /\ (c + j) % IPC_QUEUE_SIZE
           = IF c + j < IPC_QUEUE_SIZE THEN c + j ELSE c + j - IPC_QUEUE_SIZE
  <2>1. /\ c \in Nat /\ i \in Nat /\ j \in Nat
        /\ c + i \in Nat /\ c + i < 2 * IPC_QUEUE_SIZE
        /\ c + j \in Nat /\ c + j < 2 * IPC_QUEUE_SIZE
    BY DEF Slots
  <2>2. (c + i) % IPC_QUEUE_SIZE
           = IF c + i < IPC_QUEUE_SIZE THEN c + i ELSE c + i - IPC_QUEUE_SIZE
    BY ONLY <2>1, Wrap, QueueSizeAssumption
  <2>3. (c + j) % IPC_QUEUE_SIZE
           = IF c + j < IPC_QUEUE_SIZE THEN c + j ELSE c + j - IPC_QUEUE_SIZE
    BY ONLY <2>1, Wrap, QueueSizeAssumption
  <2>4. QED  BY ONLY <2>2, <2>3
<1>2. QED  BY <1>1 DEF Slots

\* Going on from the consumer's index, also past the end, gives a slot of the ring.
LEMMA OffsetIsSlot ==
  ASSUME NEW n \in Nat
  PROVE  n % IPC_QUEUE_SIZE \in Slots
BY DEF Slots

\* A record with a queue's fields.
HasFields(r) ==
  r = [messages |-> r.messages, producer_index |-> r.producer_index,
       consumer_index |-> r.consumer_index, count |-> r.count]

\* A queue put together from well-typed parts.
LEMMA QueueOfParts ==
  ASSUME NEW M, NEW r, HasFields(r),
         r.messages \in [Slots -> M], r.producer_index \in Slots, r.consumer_index \in Slots,
         r.count \in 0 .. IPC_QUEUE_SIZE,
         r.producer_index = (r.consumer_index + r.count) % IPC_QUEUE_SIZE
  PROVE  IsQueue(r, M)
BY DEF IsQueue, HasFields

-----------------------------------------------------------------------------
(* The waiting messages.                                                   *)

\* A function on an initial segment of the numbers is a sequence of that length.
LEMMA FunctionIsSeq ==
  ASSUME NEW S, NEW n \in Nat, NEW f \in [1 .. n -> S]
  PROVE  f \in Seq(S) /\ Len(f) = n
OBVIOUS

\* Contents is a sequence of as many messages as are counted.
LEMMA ContentsIsSeq ==
  ASSUME NEW M, NEW q, IsQueue(q, M)
  PROVE  /\ Contents(q) \in Seq(M) /\ Len(Contents(q)) = q.count /\ q.count \in Nat
         /\ \A k \in 1 .. q.count :
              Contents(q)[k] = q.messages[(q.consumer_index + (k - 1)) % IPC_QUEUE_SIZE]
<1>1. q.count \in Nat /\ q.consumer_index \in Nat /\ q.messages \in [Slots -> M]
  BY DEF IsQueue, Slots
<1>2. \A k \in 1 .. q.count :
        /\ q.consumer_index + (k - 1) \in Nat
        /\ q.consumer_index + k - 1 = q.consumer_index + (k - 1)
  BY <1>1
<1>3. \A k \in 1 .. q.count :
        /\ Contents(q)[k] = q.messages[(q.consumer_index + (k - 1)) % IPC_QUEUE_SIZE]
        /\ Contents(q)[k] \in M
  BY <1>1, <1>2, OffsetIsSlot DEF Contents
<1>4. Contents(q) \in [1 .. q.count -> M]
  BY <1>3 DEF Contents
<1>5. Contents(q) \in Seq(M) /\ Len(Contents(q)) = q.count
  BY ONLY <1>1, <1>4, FunctionIsSeq
<1>6. QED  BY ONLY <1>1, <1>3, <1>5

\* A queue just initialized is sound and empty.
LEMMA EmptyQueueIsQueue ==
  ASSUME NEW M, NEW zero \in M
  PROVE  /\ IsQueue(EmptyQueue(zero), M)
         /\ EmptyQueue(zero).count = 0
         /\ Contents(EmptyQueue(zero)) = <<>>
<1>1. 0 % IPC_QUEUE_SIZE = 0 /\ 0 \in Slots /\ 0 \in 0 .. IPC_QUEUE_SIZE
  BY Wrap DEF Slots
<1>2. IsQueue(EmptyQueue(zero), M) /\ EmptyQueue(zero).count = 0
  BY <1>1 DEF IsQueue, EmptyQueue
<1>3. Len(Contents(EmptyQueue(zero))) = 0 /\ Contents(EmptyQueue(zero)) \in Seq(M)
  BY <1>2, ContentsIsSeq
<1>4. QED  BY <1>2, <1>3, EmptySeq

\* A send to a queue with room keeps it sound and puts its message last.
LEMMA SendAppends ==
  ASSUME NEW M, NEW q, IsQueue(q, M), NEW m \in M, ~ipc_queue_full(q)
  PROVE  /\ IsQueue(AfterSend(q, m), M)
         /\ AfterSend(q, m).count = q.count + 1
         /\ q.count < IPC_QUEUE_SIZE
         /\ Contents(AfterSend(q, m)) = Append(Contents(q), m)
<1> DEFINE r == AfterSend(q, m)
<1>1. /\ q.count \in 0 .. IPC_QUEUE_SIZE - 1 /\ q.consumer_index \in Slots
      /\ q.producer_index = (q.consumer_index + q.count) % IPC_QUEUE_SIZE
      /\ q.producer_index \in Slots
  BY DEF IsQueue, ipc_queue_full, Slots
<1>2. /\ r.messages = [q.messages EXCEPT ![q.producer_index] = m]
      /\ r.producer_index = (q.producer_index + 1) % IPC_QUEUE_SIZE
      /\ r.consumer_index = q.consumer_index
      /\ r.count = q.count + 1
      /\ DOMAIN r = DOMAIN q
  BY DEF AfterSend, IsQueue
<1>3. /\ r.producer_index = (q.consumer_index + (q.count + 1)) % IPC_QUEUE_SIZE
      /\ r.producer_index \in Slots
  <2> DEFINE c == q.consumer_index
             k == q.count
             p == q.producer_index
  <2>1. c \in Slots /\ k \in 0 .. IPC_QUEUE_SIZE - 1 /\ p = (c + k) % IPC_QUEUE_SIZE /\ p \in Slots
    BY <1>1
  <2> HIDE DEF c, k, p
  <2>2. (p + 1) % IPC_QUEUE_SIZE = (c + (k + 1)) % IPC_QUEUE_SIZE
    BY ONLY <2>1, NextSlot
  <2>3. (p + 1) % IPC_QUEUE_SIZE \in Slots
    <3>1. 0 \in 0 .. IPC_QUEUE_SIZE - 1
      OBVIOUS
    <3>2. QED  BY ONLY <2>1, <3>1, NextSlot
  <2>4. QED  BY ONLY <1>2, <2>2, <2>3 DEF c, k, p
<1>4. IsQueue(r, M)
  <2>1. r.messages \in [Slots -> M]
    BY <1>2 DEF IsQueue
  <2>2. HasFields(r)
    BY DEF HasFields, AfterSend, IsQueue
  <2>3. /\ r.count \in 0 .. IPC_QUEUE_SIZE /\ r.consumer_index \in Slots
        /\ r.producer_index = (r.consumer_index + r.count) % IPC_QUEUE_SIZE
    BY <1>1, <1>2, <1>3
  <2> HIDE DEF r
  <2>4. QED  BY <1>3, <2>1, <2>2, <2>3, QueueOfParts
<1>5. /\ Contents(q) \in Seq(M) /\ Len(Contents(q)) = q.count
      /\ Contents(r) \in Seq(M) /\ Len(Contents(r)) = q.count + 1
  BY <1>2, <1>4, ContentsIsSeq
<1>6. \A k \in 1 .. q.count + 1 : Contents(r)[k] = Append(Contents(q), m)[k]
  <2> SUFFICES ASSUME NEW k \in 1 .. q.count + 1
               PROVE  Contents(r)[k] = Append(Contents(q), m)[k]
    OBVIOUS
  <2>1. Contents(r)[k] = r.messages[(q.consumer_index + (k - 1)) % IPC_QUEUE_SIZE]
    <3>1. \A i \in 1 .. r.count :
            Contents(r)[i] = r.messages[(r.consumer_index + (i - 1)) % IPC_QUEUE_SIZE]
      BY <1>4, ContentsIsSeq
    <3>2. QED  BY ONLY <3>1, <1>2
  <2>2. k - 1 \in 0 .. IPC_QUEUE_SIZE - 1 /\ q.consumer_index + (k - 1) \in Nat
    BY <1>1 DEF Slots
  <2>3. CASE k = q.count + 1
    <3>1. Contents(r)[k] = m
      BY <1>1, <1>2, <2>1, <2>3 DEF IsQueue
    <3>2. Append(Contents(q), m)[k] = m
      BY <1>5, <2>3
    <3>3. QED  BY <3>1, <3>2
  <2>4. CASE k # q.count + 1
    <3>1. k \in 1 .. q.count /\ k - 1 # q.count
      BY <1>1, <2>4
    <3>2. (q.consumer_index + (k - 1)) % IPC_QUEUE_SIZE # q.producer_index
      BY <1>1, <2>2, <3>1, SlotsDiffer
    <3>3. Contents(r)[k] = q.messages[(q.consumer_index + (k - 1)) % IPC_QUEUE_SIZE]
      BY <1>2, <2>1, <2>2, <3>2, OffsetIsSlot DEF IsQueue
    <3>4. Contents(r)[k] = Contents(q)[k]
      BY <3>1, <3>3, ContentsIsSeq
    <3>5. Append(Contents(q), m)[k] = Contents(q)[k]
      BY <1>5, <3>1
    <3>6. QED  BY <3>4, <3>5
  <2>5. QED  BY <2>3, <2>4
<1>7. Append(Contents(q), m) \in Seq(M) /\ Len(Append(Contents(q), m)) = q.count + 1
  BY <1>5
<1>8. Contents(r) = Append(Contents(q), m)
  BY <1>5, <1>6, <1>7, SeqEqual
<1>9. QED  BY <1>1, <1>2, <1>4, <1>8

\* A receive from a queue that is not empty copies out the oldest message and
\* takes it away.
LEMMA ReceiveTakesHead ==
  ASSUME NEW M, NEW q, IsQueue(q, M), ~ipc_queue_empty(q)
  PROVE  /\ IsQueue(AfterReceive(q), M)
         /\ AfterReceive(q).count = q.count - 1
         /\ q.count \in 1 .. IPC_QUEUE_SIZE
         /\ Contents(q) # <<>>
         /\ Front(q) \in M /\ Front(q) = Head(Contents(q))
         /\ Contents(AfterReceive(q)) = Tail(Contents(q))
<1> DEFINE r == AfterReceive(q)
<1>1. /\ q.count \in 1 .. IPC_QUEUE_SIZE /\ q.consumer_index \in Slots
      /\ q.producer_index = (q.consumer_index + q.count) % IPC_QUEUE_SIZE
  BY DEF IsQueue, ipc_queue_empty, Slots
<1>2. /\ r.messages = q.messages
      /\ r.producer_index = q.producer_index
      /\ r.consumer_index = (q.consumer_index + 1) % IPC_QUEUE_SIZE
      /\ r.count = q.count - 1
  BY DEF AfterReceive, IsQueue
<1>3. IsQueue(r, M)
  <2>1. q.count - 1 \in 0 .. IPC_QUEUE_SIZE - 1
    BY <1>1
  <2>2. (r.consumer_index + (q.count - 1)) % IPC_QUEUE_SIZE
          = (q.consumer_index + ((q.count - 1) + 1)) % IPC_QUEUE_SIZE
    BY <1>1, <1>2, <2>1, NextSlot
  <2>3. r.consumer_index \in Slots
    BY <1>1, <1>2, <2>1, NextSlot
  <2>4. (q.count - 1) + 1 = q.count
    BY <1>1
  <2>5. r.producer_index = (r.consumer_index + r.count) % IPC_QUEUE_SIZE
    BY ONLY <1>1, <1>2, <2>2, <2>4
  <2>6. HasFields(r)
    BY DEF HasFields, AfterReceive, IsQueue
  <2>7. /\ r.messages \in [Slots -> M] /\ r.producer_index \in Slots
        /\ r.count \in 0 .. IPC_QUEUE_SIZE
    BY <1>1, <1>2, <2>1 DEF IsQueue
  <2> HIDE DEF r
  <2>8. QED  BY <2>3, <2>5, <2>6, <2>7, QueueOfParts
<1>4. /\ Contents(q) \in Seq(M) /\ Len(Contents(q)) = q.count
      /\ Contents(r) \in Seq(M) /\ Len(Contents(r)) = q.count - 1
  BY <1>2, <1>3, ContentsIsSeq
<1>5. Contents(q) # <<>>
  BY <1>1, <1>4
<1>6. Front(q) \in M /\ Front(q) = Head(Contents(q))
  <2>1. (q.consumer_index + (1 - 1)) % IPC_QUEUE_SIZE = q.consumer_index
    BY <1>1, Wrap DEF Slots
  <2>2. Contents(q)[1] = q.messages[(q.consumer_index + (1 - 1)) % IPC_QUEUE_SIZE]
    BY <1>1, ContentsIsSeq
  <2>3. QED  BY <1>1, <1>4, <2>1, <2>2 DEF Front, IsQueue
<1>7. \A k \in 1 .. q.count - 1 : Contents(r)[k] = Tail(Contents(q))[k]
  <2> SUFFICES ASSUME NEW k \in 1 .. q.count - 1
               PROVE  Contents(r)[k] = Tail(Contents(q))[k]
    OBVIOUS
  <2>1. k - 1 \in 0 .. IPC_QUEUE_SIZE - 1 /\ k + 1 \in 1 .. q.count /\ (k - 1) + 1 = (k + 1) - 1
    BY <1>1
  <2>2. Contents(r)[k] = q.messages[(r.consumer_index + (k - 1)) % IPC_QUEUE_SIZE]
    BY <1>1, <1>2, <1>3, ContentsIsSeq
  <2>3. (r.consumer_index + (k - 1)) % IPC_QUEUE_SIZE
          = (q.consumer_index + ((k - 1) + 1)) % IPC_QUEUE_SIZE
    BY <1>1, <1>2, <2>1, NextSlot
  <2>4. Contents(q)[k + 1] = q.messages[(q.consumer_index + ((k + 1) - 1)) % IPC_QUEUE_SIZE]
    BY <2>1, ContentsIsSeq
  <2>5. Contents(r)[k] = Contents(q)[k + 1]
    BY ONLY <2>1, <2>2, <2>3, <2>4
  <2>6. Tail(Contents(q))[k] = Contents(q)[k + 1]
    BY <1>1, <1>4, <1>5, HeadTailProperties
  <2>7. QED  BY <2>5, <2>6
<1>8. Contents(r) = Tail(Contents(q))
  <2>1. Tail(Contents(q)) \in Seq(M) /\ Len(Tail(Contents(q))) = q.count - 1
    BY <1>4, <1>5, HeadTailProperties
  <2>2. QED  BY <1>4, <1>7, <2>1, SeqEqual
<1>9. QED  BY <1>1, <1>2, <1>3, <1>5, <1>6, <1>8

\* The same, message by message.
LEMMA MessagesAfterSend ==
  ASSUME NEW M, NEW q, IsQueue(q, M), NEW m \in M, ~ipc_queue_full(q)
  PROVE  \A k \in 1 .. AfterSend(q, m).count :
           Contents(AfterSend(q, m))[k] = IF k <= q.count THEN Contents(q)[k] ELSE m
<1>1. Contents(q) \in Seq(M) /\ Len(Contents(q)) = q.count /\ q.count \in Nat
  BY ContentsIsSeq
<1>2. AfterSend(q, m).count = q.count + 1 /\ Contents(AfterSend(q, m)) = Append(Contents(q), m)
  BY SendAppends
<1> DEFINE s == Contents(q)
<1> HIDE DEF s
<1>3. \A k \in 1 .. q.count + 1 : Append(s, m)[k] = IF k <= q.count THEN s[k] ELSE m
  BY <1>1 DEF s
<1>4. SUFFICES ASSUME NEW k \in 1 .. AfterSend(q, m).count
               PROVE  Contents(AfterSend(q, m))[k] = IF k <= q.count THEN Contents(q)[k] ELSE m
  OBVIOUS
<1>5. k \in 1 .. q.count + 1
  BY <1>2
<1>6. Contents(AfterSend(q, m))[k] = Append(s, m)[k]
  BY <1>2 DEF s
<1>7. Append(s, m)[k] = IF k <= q.count THEN s[k] ELSE m
  BY <1>3, <1>5
<1>8. QED  BY ONLY <1>6, <1>7 DEF s

\* What waits after a receive, message by message.
LEMMA MessagesAfterReceive ==
  ASSUME NEW M, NEW q, IsQueue(q, M), ~ipc_queue_empty(q)
  PROVE  /\ Front(q) = Contents(q)[1]
         /\ \A k \in 1 .. AfterReceive(q).count :
              k + 1 \in 1 .. q.count /\ Contents(AfterReceive(q))[k] = Contents(q)[k + 1]
<1>1. Contents(q) \in Seq(M) /\ Len(Contents(q)) = q.count /\ q.count \in Nat
  BY ContentsIsSeq
<1>2. /\ AfterReceive(q).count = q.count - 1 /\ Contents(AfterReceive(q)) = Tail(Contents(q))
      /\ Contents(q) # <<>> /\ Front(q) = Head(Contents(q))
  BY ReceiveTakesHead
<1>3. QED  BY <1>1, <1>2, HeadTailProperties

-----------------------------------------------------------------------------
(* The queue implements BoundedFifo: with waiting <- Contents(q) and       *)
(* Bound <- IPC_QUEUE_SIZE a send is an Enqueue, a receive a Dequeue.      *)

\* A send that finds room is the enqueue of the abstract queue.
LEMMA SendIsEnqueue ==
  ASSUME NEW M, NEW q, IsQueue(q, M), NEW m \in M, ~ipc_queue_full(q)
  PROVE  /\ Len(Contents(q)) < IPC_QUEUE_SIZE
         /\ Len(Contents(AfterSend(q, m))) = Len(Contents(q)) + 1
         /\ SubSeq(Contents(AfterSend(q, m)), 1, Len(Contents(q))) = Contents(q)
<1>1. Contents(q) \in Seq(M) /\ Len(Contents(q)) = q.count /\ q.count \in Nat
  BY ContentsIsSeq
<1>2. q.count < IPC_QUEUE_SIZE /\ Contents(AfterSend(q, m)) = Append(Contents(q), m)
  BY SendAppends
<1> DEFINE s == Contents(q)
<1> HIDE DEF s
<1>3. s \in Seq(M) /\ Append(s, m) \in Seq(M) /\ Len(Append(s, m)) = Len(s) + 1
  BY <1>1 DEF s
<1>4. \A i \in 1 .. Len(s) : Append(s, m)[i] = s[i] /\ s[i] \in M
  BY <1>3
<1>5. /\ SubSeq(Append(s, m), 1, Len(s)) \in Seq(M)
      /\ Len(SubSeq(Append(s, m), 1, Len(s))) = Len(s)
      /\ \A i \in 1 .. Len(s) : SubSeq(Append(s, m), 1, Len(s))[i] = Append(s, m)[i]
  BY <1>3, <1>4, SubSeqProperties
<1>6. SubSeq(Append(s, m), 1, Len(s)) = s
  BY <1>3, <1>4, <1>5, SeqEqual
<1>7. QED  BY <1>1, <1>2, <1>3, <1>6 DEF s

=============================================================================
