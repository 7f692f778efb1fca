------------------------- MODULE BootSequenceProofs -------------------------
(***************************************************************************)
(* What the boot guarantees with queues and a loop of any size that is     *)
(* enough for the bootloader's three requests.                             *)
(*                                                                         *)
(* The argument: what each stage has set up (BootInv); that from the       *)
(* initialization of the queues on the daemon's own invariants hold, since *)
(* the loop's steps are those of RuntimeDaemon; and that each request      *)
(* keeps its place, so that the answers come in the order of the posts     *)
(* (LineInv).  Last, that each step leaves fewer to come (BootStepsLeft).  *)
(***************************************************************************)
EXTENDS BootSequence, RuntimeDaemonProofs

(* An element appended to a sequence makes it one longer. *)
LEMMA AppendedIsSeq ==
  ASSUME NEW S, NEW s \in Seq(S), NEW e \in S
  PROVE  Append(s, e) \in Seq(S) /\ Len(Append(s, e)) = Len(s) + 1
OBVIOUS

USE RequestsAssumption, LoopBoundAssumption, MaxPostsAssumption, RoomAssumption

Early   == {"memoryMap", "sharedMemory", "initQueues"}
SetUp   == {"preserve", "graphics", "loadKernel"}
Ending  == {"waitForKey", "returned"}

\* The types of the boot's own variables.
BootTypes ==
  /\ stage \in Stages
  /\ params \in [shared_header : {"none", "raw", "ready"},
                 shared_buffer_size : {0, SHARED_MEM_SIZE}, rt_services : BOOLEAN,
                 kernel_base : {"none", "1MB", "any"}]
  /\ gGOP \in BOOLEAN
  /\ result \in {"none", "EFI_SUCCESS", "EFI_ABORTED"}

\* Nothing has been posted, and the loop has not begun.
NothingYet ==
  /\ pc = "start" /\ g_daemon_running = FALSE /\ message_count = 0
  /\ request = Zero /\ response = Zero /\ status = "BOOT_SUCCESS"
  /\ machine = "on" /\ asked = <<>> /\ lastTaken = 0 /\ taken = 0 /\ lost = 0

QueuesEmpty ==
  /\ kernel_to_daemon = EmptyQueue(Zero) /\ daemon_to_kernel = EmptyQueue(Zero)
  /\ messages_sent = 0 /\ messages_received = 0 /\ errors = 0

\* What each stage finds.
StageInv ==
  /\ stage \in Early \cup SetUp \cup {"tests"} => NothingYet
  /\ stage \in Early => params.shared_header # "ready"
  /\ stage \in SetUp \cup {"tests"} => QueuesEmpty
  /\ stage \in SetUp \cup {"tests", "post", "daemon"} => params.shared_header = "ready"
  /\ stage \in {"graphics", "loadKernel", "tests", "post", "daemon"} => params.rt_services
  /\ stage \in Early \cup SetUp => params.kernel_base = "none"
  /\ stage \in {"tests", "post", "daemon"} => params.kernel_base # "none"
  /\ stage = "post" => pc = "start" /\ Len(asked) = 2 /\ kernel_to_daemon.count = 2
  /\ stage \notin Ending => result = "none"

\* Once the queues are initialized the daemon's invariants hold.
DaemonInv == params.shared_header = "ready" => TypeInv /\ AccountsBalance

BootInv == BootTypes /\ StageInv /\ ResultMatchesBoot /\ DaemonInv

-----------------------------------------------------------------------------
(* The stages.                                                             *)

Time  == Asks("GET_TIME", 0)
Reset == Asks("RESET_SYSTEM", SizeOfU32)

\* The requests of the tests are among the kernel's, and messages.
LEMMA TestRequests ==
  /\ Time \in Requests /\ Reset \in Requests
  /\ \A n \in Nat : RequestOf(Time, n) \in Message /\ RequestOf(Reset, n) \in Message
  /\ <<Time, Reset>> \in Seq(Requests) /\ Len(<<Time, Reset>>) = 2
<1>1. Time \in Requests /\ Reset \in Requests
  BY AsksAssumption DEF Time, Reset
<1>2. QED  BY <1>1, RequestIsMessage

\* A send that finds room.
LEMMA SendWithRoom ==
  ASSUME NEW q, IsQueue(q, Message), NEW m \in Message, q.count < 3
  PROVE  /\ IsQueue(Send(q, m), Message) /\ Send(q, m).count = q.count + 1
         /\ Send(q, m) = AfterSend(q, m) /\ q.count \in Nat
<1>1. ~ipc_queue_full(q) /\ q.count \in Nat
  BY ContentsIsSeq, QueueSizeAssumption DEF ipc_queue_full
<1>2. QED  BY <1>1, SendAppends DEF Send

\* What run_ipc_tests leaves.
LEMMA TestsPost ==
  ASSUME QueuesEmpty, RunIpcTests
  PROVE  /\ IsQueue(kernel_to_daemon', Message) /\ kernel_to_daemon'.count = 2
         /\ asked' \in Seq(Requests) /\ Len(asked') = 2
<1> DEFINE q0 == EmptyQueue(Zero)
           q1 == Send(q0, RequestOf(Time, 1))
           q2 == Send(q1, RequestOf(Reset, 2))
<1>1. IsQueue(q0, Message) /\ q0.count = 0
  BY ZeroIsMessage, EmptyQueueIsQueue
<1>2. kernel_to_daemon' = q2 /\ asked' = <<Time, Reset>>
  BY DEF RunIpcTests, QueuesEmpty, Time, Reset
<1> HIDE DEF q0
<1>3. IsQueue(q1, Message) /\ q1.count = 1
  BY <1>1, SendWithRoom, TestRequests
<1> HIDE DEF q1
<1>4. IsQueue(q2, Message) /\ q2.count = 2
  BY <1>3, SendWithRoom, TestRequests
<1>5. QED  BY <1>2, <1>4, TestRequests

\* Each step of the boot finds what its stage needs and leaves what the next one does.
LEMMA StageStep ==
  ASSUME BootTypes, StageInv, [BootNext]_allVars
  PROVE  BootTypes' /\ StageInv'
<1> USE DEF BootTypes, StageInv, In, Early, SetUp, Ending, Stages, NothingYet, QueuesEmpty,
            queues, stats, loop, kernel, vars
<1>1. CASE GetMemoryMap
  BY <1>1 DEF GetMemoryMap, Abort
<1>2. CASE AllocateSharedMemory
  BY <1>2 DEF AllocateSharedMemory
<1>3. CASE SharedMemoryUnavailable
  BY <1>3 DEF SharedMemoryUnavailable, Abort
<1>4. CASE InitializeQueues
  BY <1>4 DEF InitializeQueues
<1>5. CASE PreserveRuntimeServices
  BY <1>5 DEF PreserveRuntimeServices
<1>6. CASE InitGraphics
  BY <1>6 DEF InitGraphics
<1>7. CASE LoadKernel
  BY <1>7 DEF LoadKernel
<1>8. CASE NoMemoryForKernel
  BY <1>8 DEF NoMemoryForKernel, Abort
<1>9. CASE RunIpcTests
  <2>1. kernel_to_daemon'.count = 2 /\ Len(asked') = 2
    BY <1>9, TestsPost DEF RunIpcTests
  <2>2. QED  BY <1>9, <2>1 DEF RunIpcTests
<1>10. CASE PostTestMessage
  BY <1>10 DEF PostTestMessage
<1>11. CASE RunDaemon
  BY <1>11 DEF RunDaemon, bootVars
<1>12. CASE DaemonReturned
  BY <1>12 DEF DaemonReturned
<1>13. CASE KeyPressed
  BY <1>13 DEF KeyPressed
<1>14. CASE UNCHANGED allVars
  <2>1. /\ UNCHANGED <<stage, params, gGOP, result>>
        /\ UNCHANGED <<queues, stats>> /\ UNCHANGED <<loop, machine, kernel, lost>>
    BY <1>14 DEF allVars, bootVars
  <2>2. BootTypes'
    BY <2>1
  <2>3. QueuesEmpty' = QueuesEmpty /\ NothingYet' = NothingYet
    BY <2>1
  <2>4. QED  BY <2>1, <2>2, <2>3
<1>15. QED
  BY <1>1, <1>2, <1>3, <1>4, <1>5, <1>6, <1>7, <1>8, <1>9, <1>10, <1>11, <1>12, <1>13, <1>14
   DEF BootNext, Program

\* The result is decided once, at the end of the daemon's loop or where the boot aborts.
LEMMA ResultStep ==
  ASSUME BootTypes, StageInv, ResultMatchesBoot, [BootNext]_allVars
  PROVE  ResultMatchesBoot'
<1> USE DEF StageInv, ResultMatchesBoot, In, Early, SetUp, Ending, NothingYet
<1>1. CASE DaemonReturned
  BY <1>1 DEF DaemonReturned, At, vars, loop, kernel
<1>2. CASE GetMemoryMap \/ SharedMemoryUnavailable \/ NoMemoryForKernel
  BY <1>2 DEF GetMemoryMap, SharedMemoryUnavailable, NoMemoryForKernel, Abort, vars, loop, kernel
<1>3. CASE KeyPressed \/ UNCHANGED allVars
  BY <1>3 DEF KeyPressed, allVars, bootVars, vars, loop, kernel
<1>4. CASE /\ stage \notin Ending /\ UNCHANGED result
  BY <1>4
<1>5. CASE AllocateSharedMemory \/ InitializeQueues \/ PreserveRuntimeServices \/ InitGraphics
           \/ LoadKernel \/ RunIpcTests \/ PostTestMessage \/ RunDaemon
  BY <1>4, <1>5
   DEF AllocateSharedMemory, InitializeQueues, PreserveRuntimeServices, InitGraphics, LoadKernel,
       RunIpcTests, PostTestMessage, RunDaemon, bootVars
<1>6. QED  BY <1>1, <1>2, <1>3, <1>5 DEF BootNext, Program

-----------------------------------------------------------------------------
(* The daemon inside the boot.                                             *)

\* On the queues and the loop just initialized the daemon's invariants hold.
LEMMA DaemonInvFromStart ==
  ASSUME NothingYet, QueuesEmpty
  PROVE  TypeInv /\ AccountsBalance
<1>1. Init
  BY DEF NothingYet, QueuesEmpty, Init
<1>2. QED  BY <1>1, TypeInvInit, AccountsInit

\* The boot's own steps keep the daemon's invariants from the initialization on.
LEMMA DaemonInvStep ==
  ASSUME BootTypes, StageInv, DaemonInv, [BootNext]_allVars
  PROVE  DaemonInv'
<1> USE DEF StageInv, DaemonInv, In, Early, SetUp, Ending
<1>1. CASE GetMemoryMap \/ AllocateSharedMemory \/ SharedMemoryUnavailable
  <2>1. params'.shared_header # "ready"
    BY <1>1 DEF GetMemoryMap, AllocateSharedMemory, SharedMemoryUnavailable, Abort, BootTypes
  <2>2. QED  BY <2>1
<1>2. CASE InitializeQueues
  <2>1. NothingYet' /\ QueuesEmpty'
    BY <1>2 DEF InitializeQueues, NothingYet, QueuesEmpty, loop, kernel
  <2>2. (NothingYet /\ QueuesEmpty => TypeInv /\ AccountsBalance)'
    BY DaemonInvFromStart, PTL
  <2>3. QED  BY <2>1, <2>2
<1>3. CASE RunIpcTests
  <2>1. NothingYet /\ QueuesEmpty
    BY <1>3 DEF RunIpcTests
  <2>2. /\ IsQueue(kernel_to_daemon', Message) /\ kernel_to_daemon'.count = 2
        /\ asked' \in Seq(Requests) /\ Len(asked') = 2
    BY <1>3, <2>1, TestsPost
  <2>3. TypeInv
    BY <2>1, DaemonInvFromStart
  <2>4. TypeInv'
    BY <1>3, <2>2, <2>3 DEF RunIpcTests, TypeInv, TypeOK, Unbooked, loop, stats
  <2>5. daemon_to_kernel.count = 0
    BY <2>1, ZeroIsMessage, EmptyQueueIsQueue DEF QueuesEmpty
  <2>6. AccountsBalance'
    BY <1>3, <2>1, <2>2, <2>5
     DEF RunIpcTests, NothingYet, QueuesEmpty, AccountsBalance, Received, Unbooked, Published,
       Uncounted, loop, stats
  <2>7. QED  BY <2>4, <2>6
<1>4. CASE PostTestMessage
  <2>1. TypeInv /\ AccountsBalance /\ pc = "start" /\ Len(asked) = 2 /\ kernel_to_daemon.count = 2
    BY <1>4 DEF PostTestMessage
  <2>2. /\ kernel_to_daemon' = Send(kernel_to_daemon, RequestOf(Time, 1))
        /\ asked' = Append(asked, Time)
    BY <1>4 DEF PostTestMessage, Time
  <2>3. IsQueue(kernel_to_daemon', Message) /\ kernel_to_daemon'.count = 3
    <3>1. IsQueue(kernel_to_daemon, Message) /\ kernel_to_daemon.count = 2
      BY <2>1 DEF TypeInv, TypeOK
    <3>2. RequestOf(Time, 1) \in Message
      BY ONLY TestRequests
    <3>3. kernel_to_daemon.count < 3
      BY ONLY <3>1
    <3>4. /\ IsQueue(Send(kernel_to_daemon, RequestOf(Time, 1)), Message)
          /\ Send(kernel_to_daemon, RequestOf(Time, 1)).count = kernel_to_daemon.count + 1
      BY ONLY <3>1, <3>2, <3>3, SendWithRoom
    <3>5. QED  BY ONLY <2>2, <3>1, <3>4
  <2>4. asked' \in Seq(Requests) /\ Len(asked') = 3
    <3>1. asked \in Seq(Requests) /\ Len(asked) = 2 /\ Time \in Requests
      BY <2>1, TestRequests DEF TypeInv, TypeOK
    <3>2. Append(asked, Time) \in Seq(Requests) /\ Len(Append(asked, Time)) = Len(asked) + 1
      BY ONLY <3>1, AppendedIsSeq
    <3>3. QED  BY <2>2, <3>1, <3>2
  <2>5. TypeInv'
    BY <1>4, <2>1, <2>3, <2>4 DEF PostTestMessage, TypeInv, TypeOK, Unbooked, loop, stats
  <2>6. AccountsBalance'
    <3>1. messages_received = 0 /\ ~Unbooked
      <4>1. messages_received \in Nat /\ 2 = 2 + messages_received
        BY <2>1, CountsAreNumbers DEF TypeInv, AccountsBalance, Received, Unbooked, Published, Uncounted
      <4>2. QED  BY <2>1, <4>1 DEF Unbooked
    <3>2. /\ UNCHANGED <<messages_sent, messages_received, errors, pc, taken>>
          /\ daemon_to_kernel' = daemon_to_kernel
      BY <1>4 DEF PostTestMessage, loop, stats
    <3>3. QED  BY <2>1, <2>3, <2>4, <3>1, <3>2 DEF AccountsBalance, Received, Unbooked, Published, Uncounted
  <2>7. QED  BY <2>5, <2>6
<1>5. CASE RunDaemon
  <2>1. DaemonStep /\ TypeInv /\ AccountsBalance
    BY <1>5 DEF RunDaemon
  <2>2. [Next]_vars
    BY <2>1 DEF Next
  <2>3. QED  BY <2>1, <2>2, TypeInvStep, AccountsStep
<1>6. CASE UNCHANGED <<vars, params>>
  <2>1. /\ UNCHANGED <<params, queues, stats>> /\ UNCHANGED <<loop, machine, kernel, lost>>
    BY <1>6 DEF vars
  <2>2. TypeInv' = TypeInv
    BY <2>1 DEF queues, stats, loop, kernel, TypeInv, TypeOK, Unbooked
  <2>3. AccountsBalance' = AccountsBalance
    BY <2>1 DEF queues, stats, loop, kernel, AccountsBalance, Received, Unbooked, Published, Uncounted
  <2>4. QED  BY <2>1, <2>2, <2>3
<1>7. CASE PreserveRuntimeServices \/ LoadKernel
  <2>1. vars' = vars /\ (params'.shared_header = params.shared_header)
    BY <1>7 DEF PreserveRuntimeServices, LoadKernel, BootTypes
  <2>2. UNCHANGED <<queues, stats>> /\ UNCHANGED <<loop, machine, kernel, lost>>
    BY <2>1 DEF vars
  <2>3. TypeInv' = TypeInv
    BY <2>2 DEF queues, stats, loop, kernel, TypeInv, TypeOK, Unbooked
  <2>4. AccountsBalance' = AccountsBalance
    BY <2>2 DEF queues, stats, loop, kernel, AccountsBalance, Received, Unbooked, Published, Uncounted
  <2>5. QED  BY <2>1, <2>3, <2>4
<1>8. CASE InitGraphics \/ NoMemoryForKernel \/ DaemonReturned \/ KeyPressed \/ UNCHANGED allVars
  BY <1>6, <1>8
   DEF InitGraphics, NoMemoryForKernel, DaemonReturned, KeyPressed, allVars, bootVars
<1>9. QED
  BY <1>1, <1>2, <1>3, <1>4, <1>5, <1>7, <1>8 DEF BootNext, Program

-----------------------------------------------------------------------------
(***************************************************************************)
(* What the daemon answers.  The third request has the sequence number of  *)
(* the first, so RuntimeDaemonProofs' account of the requests, which goes  *)
(* by the numbers, does not carry over; here it goes by the places in the  *)
(* queues.                                                                 *)
(***************************************************************************)

\* The type of the nth request the bootloader posts.
Kind(n) == IF n = 2 THEN "RESET_SYSTEM" ELSE "GET_TIME"
Expected(m, n) == m.type = Kind(n) /\ Served(m)

\* How many the bootloader has posted, once it has begun.
Posted == IF stage = "post" THEN 2 ELSE 3

\* The requests that wait, the one in hand and the answers are those posted, each
\* in its place; nothing has been refused or lost, and the loop goes on until
\* none is left.
LineInv ==
  stage \in {"post", "daemon"} \/ result = "EFI_SUCCESS" =>
    /\ errors = 0 /\ taken = 0 /\ message_count = messages_received
    /\ kernel_to_daemon.count + Received = Posted
    /\ \A k \in 1 .. kernel_to_daemon.count :
         Expected(Contents(kernel_to_daemon)[k], Received + k)
    /\ InHand => Expected(request, Received)
    /\ pc = "send" => status = "BOOT_SUCCESS" /\ response.type = request.type
    /\ pc = "count" => status = "BOOT_SUCCESS"
    /\ \A k \in 1 .. daemon_to_kernel.count : Contents(daemon_to_kernel)[k].type = Kind(k)
    /\ pc # "start" => g_daemon_running
    /\ pc = "start" => messages_received = 0
    /\ pc = "done" => messages_received = 3

\* The three requests are served.
LEMMA PostsAreServed ==
  \A n \in Nat : /\ RequestOf(Time, n).type = "GET_TIME" /\ Served(RequestOf(Time, n))
                 /\ RequestOf(Reset, n).type = "RESET_SYSTEM" /\ Served(RequestOf(Reset, n))
BY DEF RequestOf, Time, Reset, Asks, Zero, Served, SizeOfU32

\* A queue after a send that found room: the new message is last.
LEMMA SendPlaces ==
  ASSUME NEW q, IsQueue(q, Message), NEW m \in Message, q.count < 3
  PROVE  /\ IsQueue(Send(q, m), Message) /\ Send(q, m).count = q.count + 1
         /\ \A k \in 1 .. q.count + 1 :
              Contents(Send(q, m))[k] = IF k <= q.count THEN Contents(q)[k] ELSE m
<1>1. /\ IsQueue(Send(q, m), Message) /\ Send(q, m).count = q.count + 1
      /\ Send(q, m) = AfterSend(q, m) /\ q.count \in Nat
  BY SendWithRoom
<1>2. ~ipc_queue_full(q)
  BY <1>1, QueueSizeAssumption DEF ipc_queue_full
<1>3. QED  BY <1>1, <1>2, MessagesAfterSend

\* run_ipc_tests leaves two requests that nobody has taken.
LEMMA LineAfterTests ==
  ASSUME NothingYet, QueuesEmpty, RunIpcTests
  PROVE  LineInv'
<1> DEFINE q0 == EmptyQueue(Zero)
           m1 == RequestOf(Time, 1)
           m2 == RequestOf(Reset, 2)
           q1 == Send(q0, m1)
           q2 == Send(q1, m2)
<1>1. IsQueue(q0, Message) /\ q0.count = 0
  BY ZeroIsMessage, EmptyQueueIsQueue
<1>2. kernel_to_daemon' = q2
  BY DEF RunIpcTests, QueuesEmpty, Time, Reset
<1>3. /\ m1 \in Message /\ m1.type = "GET_TIME" /\ Served(m1)
      /\ m2 \in Message /\ m2.type = "RESET_SYSTEM" /\ Served(m2)
  BY TestRequests, PostsAreServed
<1> HIDE DEF q0, m1, m2
<1>4. IsQueue(q1, Message) /\ q1.count = 1 /\ Contents(q1)[1] = m1
  <2>1. /\ IsQueue(q1, Message) /\ q1.count = 0 + 1
        /\ \A k \in 1 .. 0 + 1 : Contents(q1)[k] = IF k <= 0 THEN Contents(q0)[k] ELSE m1
    BY <1>1, <1>3, SendPlaces
  <2> HIDE DEF q1
  <2>2. QED  BY <2>1
<1> HIDE DEF q1
<1>5. q2.count = 2 /\ Contents(q2)[1] = m1 /\ Contents(q2)[2] = m2
  <2>1. /\ q2.count = 1 + 1
        /\ \A k \in 1 .. 1 + 1 : Contents(q2)[k] = IF k <= 1 THEN Contents(q1)[k] ELSE m2
    BY <1>3, <1>4, SendPlaces
  <2> HIDE DEF q2
  <2>2. QED  BY <1>4, <2>1
<1> HIDE DEF q2
<1>6. Expected(m1, 1) /\ Expected(m2, 2)
  BY <1>3 DEF Expected, Kind
<1>7. /\ pc' = "start" /\ messages_received' = 0 /\ errors' = 0 /\ taken' = 0 /\ message_count' = 0
      /\ stage' = "post" /\ daemon_to_kernel'.count = 0
  BY <1>1 DEF RunIpcTests, NothingYet, QueuesEmpty, stats, loop, q0
<1>8. Received' = 0
  BY <1>7 DEF Received, Unbooked
<1>9. \A k \in 1 .. 2 : Expected(Contents(q2)[k], 0 + k)
  <2>1. \A k \in 1 .. 2 : (k = 1 \/ k = 2) /\ 0 + k = k
    OBVIOUS
  <2>2. QED  BY <1>5, <1>6, <2>1
<1>10. QED
  BY <1>2, <1>5, <1>7, <1>8, <1>9 DEF LineInv, InHand, Posted

\* jump_to_kernel's own request comes last.
LEMMA LineAfterPost ==
  ASSUME StageInv, TypeInv, AccountsBalance, LineInv, PostTestMessage
  PROVE  LineInv'
<1> DEFINE n == kernel_to_daemon.count
           m == RequestOf(Time, 1)
<1>1. stage = "post" /\ stage' = "daemon" /\ pc = "start" /\ kernel_to_daemon.count = 2
  BY DEF PostTestMessage, In, StageInv
<1>2. m \in Message /\ Expected(m, 3)
  BY TestRequests, PostsAreServed DEF Expected, Kind
<1>3. UNCHANGED <<daemon_to_kernel, errors, taken, messages_received, message_count, pc>>
      /\ kernel_to_daemon' = Send(kernel_to_daemon, m)
  BY DEF PostTestMessage, stats, loop, Time
<1>4. Received' = Received /\ Received = 0 /\ ~InHand
  <2>1. messages_received \in Nat /\ Received = messages_received /\ 2 + Received = 2
    BY <1>1, CountsAreNumbers DEF TypeInv, LineInv, Received, Unbooked, Posted
  <2>2. Received' = Received
    BY <1>3 DEF Received, Unbooked
  <2>3. QED  BY <1>1, <2>1, <2>2 DEF InHand
<1> HIDE DEF m
<1>5. /\ kernel_to_daemon'.count = 2 + 1
      /\ \A k \in 1 .. 2 + 1 :
           Contents(kernel_to_daemon')[k] = IF k <= 2 THEN Contents(kernel_to_daemon)[k] ELSE m
  <2>1. IsQueue(kernel_to_daemon, Message) /\ kernel_to_daemon.count < 3
    BY <1>1 DEF TypeInv, TypeOK
  <2>2. QED  BY <1>1, <1>2, <1>3, <2>1, SendPlaces
<1>6. \A k \in 1 .. 3 : Expected(Contents(kernel_to_daemon')[k], 0 + k)
  <2>1. \A k \in 1 .. 2 : Expected(Contents(kernel_to_daemon)[k], 0 + k)
    BY <1>1, <1>4 DEF LineInv
  <2>2. ASSUME NEW k \in 1 .. 3
        PROVE  Expected(Contents(kernel_to_daemon')[k], 0 + k)
    <3>1. CASE k <= 2
      BY <1>5, <2>1, <3>1
    <3>2. CASE k = 3
      BY <1>2, <1>5, <3>2
    <3>3. QED  BY <3>1, <3>2
  <2>3. QED  BY <2>2
<1>7. pc' = "start" /\ errors' = 0 /\ taken' = 0 /\ messages_received' = 0 /\ message_count' = 0
      /\ \A k \in 1 .. daemon_to_kernel'.count : Contents(daemon_to_kernel')[k].type = Kind(k)
  BY <1>1, <1>3 DEF LineInv
<1>8. kernel_to_daemon'.count = 3 /\ Received' = 0
  BY <1>4, <1>5
<1>9. QED
  BY <1>1, <1>6, <1>7, <1>8 DEF LineInv, InHand, Posted

\* The numbers of the line while the daemon runs.
LEMMA LineNumbers ==
  ASSUME TypeInv, AccountsBalance, LineInv, stage = "daemon"
  PROVE  /\ messages_received \in Nat /\ Received \in 0 .. 3
         /\ kernel_to_daemon.count \in Nat /\ kernel_to_daemon.count + Received = 3
         /\ daemon_to_kernel.count \in Nat
         /\ Unbooked => Received = messages_received + 1
         /\ ~Unbooked => Received = messages_received
         /\ pc \in {"count", "account"} => daemon_to_kernel.count = Received
         /\ pc \notin {"count", "account"} => daemon_to_kernel.count = messages_received
<1>1. /\ kernel_to_daemon.count \in Nat /\ daemon_to_kernel.count \in Nat
      /\ messages_sent \in Nat /\ messages_received \in Nat
  BY CountsAreNumbers DEF TypeInv
<1>2. /\ Unbooked => Received = messages_received + 1
      /\ ~Unbooked => Received = messages_received
      /\ Received \in Nat
  BY <1>1 DEF Received
<1>3. errors = 0 /\ taken = 0 /\ kernel_to_daemon.count + Received = 3
  BY DEF LineInv, Posted
<1>4. /\ messages_sent + 0 = IF pc = "account" THEN Received ELSE messages_received
      /\ Published = daemon_to_kernel.count + 0
  BY <1>3 DEF AccountsBalance
<1> DEFINE waiting == kernel_to_daemon.count
           answers == daemon_to_kernel.count
<1> HIDE DEF waiting, answers
<1>5. waiting \in Nat /\ answers \in Nat /\ waiting + Received = 3 /\ Published = answers + 0
  BY <1>1, <1>3, <1>4 DEF waiting, answers
<1>6. Received \in 0 .. 3
  BY <1>2, <1>5
<1>7. Published = answers
  BY <1>5
<1>8. /\ pc \in {"count", "account"} => Published = Received
      /\ pc \notin {"count", "account"} => Published = messages_received
  <2>1. pc = "count" => Uncounted /\ Unbooked
    BY DEF LineInv, Uncounted, Unbooked
  <2>2. pc # "count" => ~Uncounted
    BY DEF Uncounted
  <2>3. QED  BY <1>1, <1>2, <1>4, <2>1, <2>2 DEF Published
<1>9. QED  BY <1>1, <1>2, <1>3, <1>6, <1>7, <1>8 DEF answers

\* A step that touches neither queue nor any count, and puts no request in hand.
LEMMA LineStays ==
  ASSUME LineInv, stage = "daemon", stage' = "daemon",
         UNCHANGED <<queues, stats, taken, message_count>>, Unbooked' = Unbooked,
         InHand' => InHand /\ request' = request,
         pc' = "send" => status' = "BOOT_SUCCESS" /\ response'.type = request.type,
         pc' # "count", pc' # "start", g_daemon_running',
         pc' = "done" => messages_received = 3
  PROVE  LineInv'
<1>1. /\ UNCHANGED <<kernel_to_daemon, daemon_to_kernel, errors, messages_received>>
      /\ Received' = Received /\ Posted' = Posted
  BY DEF queues, stats, Received, Posted
<1>2. pc' = "send" => InHand'
  BY DEF InHand
<1>3. QED  BY <1>1, <1>2 DEF LineInv

\* A request is taken off the queue: the one whose turn it is.
LEMMA LineReceives ==
  ASSUME TypeInv, AccountsBalance, LineInv, stage = "daemon", stage' = "daemon", ReceiveRequest
  PROVE  LineInv'
<1> USE DEF At
<1>1. /\ IsQueue(kernel_to_daemon, Message) /\ ~ipc_queue_empty(kernel_to_daemon)
      /\ kernel_to_daemon' = AfterReceive(kernel_to_daemon)
      /\ request' = Front(kernel_to_daemon) /\ pc = "receive" /\ pc' = "process"
      /\ UNCHANGED <<daemon_to_kernel, errors, messages_received, taken, message_count,
                     g_daemon_running>>
  BY DEF ReceiveRequest, TypeInv, TypeOK, stats, kernel
<1>2. /\ kernel_to_daemon'.count = kernel_to_daemon.count - 1
      /\ kernel_to_daemon.count \in 1 .. IPC_QUEUE_SIZE
      /\ request' = Contents(kernel_to_daemon)[1]
      /\ \A k \in 1 .. kernel_to_daemon'.count :
           /\ k + 1 \in 1 .. kernel_to_daemon.count
           /\ Contents(kernel_to_daemon')[k] = Contents(kernel_to_daemon)[k + 1]
  BY <1>1, ReceiveTakesHead, MessagesAfterReceive
<1>3. Received \in 0 .. 3 /\ kernel_to_daemon.count + Received = 3
      /\ messages_received \in Nat /\ Received = messages_received
  BY <1>1, LineNumbers DEF Unbooked
<1>4. Received' = Received + 1 /\ Unbooked' /\ InHand'
  BY <1>1, <1>3 DEF Received, Unbooked, InHand
<1> DEFINE n == kernel_to_daemon.count
           n1 == kernel_to_daemon'.count
<1>5. n \in 1 .. IPC_QUEUE_SIZE /\ n1 = n - 1 /\ n + Received = 3
  BY <1>2, <1>3
<1> HIDE DEF n, n1
<1>6. n1 + Received' = 3 /\ 1 \in 1 .. n
  BY <1>3, <1>4, <1>5, QueueSizeAssumption
<1>7. Expected(request', Received')
  <2>1. 1 \in 1 .. kernel_to_daemon.count
    BY <1>6 DEF n
  <2>2. Expected(Contents(kernel_to_daemon)[1], Received + 1)
    BY <2>1 DEF LineInv
  <2>3. QED  BY <1>2, <1>4, <2>2
<1>8. ASSUME NEW k \in 1 .. kernel_to_daemon'.count
      PROVE  Expected(Contents(kernel_to_daemon')[k], Received' + k)
  <2>1. k \in Nat
    <3>1. n1 \in Nat
      BY <1>5, QueueSizeAssumption
    <3>2. k \in 1 .. n1
      BY DEF n1
    <3>3. QED  BY <3>1, <3>2
  <2>2. Received' + k = Received + (k + 1)
    BY <1>3, <1>4, <2>1
  <2>3. Expected(Contents(kernel_to_daemon)[k + 1], Received + (k + 1))
    BY <1>2 DEF LineInv
  <2>4. QED  BY <1>2, <2>2, <2>3
<1>9. kernel_to_daemon'.count + Received' = 3 /\ g_daemon_running'
  BY <1>1, <1>6 DEF n1, LineInv
<1>10. QED
  BY <1>1, <1>7, <1>8, <1>9 DEF LineInv, Posted

\* An answer is sent: there is room, and it takes the place of its request.
LEMMA LineSends ==
  ASSUME TypeInv, AccountsBalance, LineInv, stage = "daemon", stage' = "daemon", SendResponse
  PROVE  LineInv'
<1> USE DEF At
<1>1. /\ IsQueue(daemon_to_kernel, Message) /\ ~ipc_queue_full(daemon_to_kernel)
      /\ daemon_to_kernel' = AfterSend(daemon_to_kernel, response) /\ response \in Message
      /\ pc = "send" /\ pc' = "count" /\ status' = status
      /\ UNCHANGED <<kernel_to_daemon, errors, messages_received, taken, message_count,
                     g_daemon_running>>
  BY DEF SendResponse, TypeInv, TypeOK, stats, kernel
<1>2. /\ daemon_to_kernel.count \in Nat /\ Received = daemon_to_kernel.count + 1
      /\ messages_received \in Nat
  BY <1>1, LineNumbers DEF Unbooked
<1>3. /\ daemon_to_kernel'.count = daemon_to_kernel.count + 1
      /\ \A k \in 1 .. daemon_to_kernel'.count :
           Contents(daemon_to_kernel')[k]
             = IF k <= daemon_to_kernel.count THEN Contents(daemon_to_kernel)[k] ELSE response
  BY <1>1, SendAppends, MessagesAfterSend
<1>4. response.type = Kind(Received)
  BY <1>1 DEF LineInv, InHand, Expected
<1>5. ASSUME NEW k \in 1 .. daemon_to_kernel'.count
      PROVE  Contents(daemon_to_kernel')[k].type = Kind(k)
  <2> DEFINE n == daemon_to_kernel.count
  <2>1. n \in Nat /\ k \in 1 .. n + 1 /\ Received = n + 1
    BY <1>2, <1>3
  <2>2. Contents(daemon_to_kernel')[k] = IF k <= n THEN Contents(daemon_to_kernel)[k] ELSE response
    BY <1>3
  <2>3. \A i \in 1 .. n : Contents(daemon_to_kernel)[i].type = Kind(i)
    BY DEF LineInv
  <2> HIDE DEF n
  <2>4. CASE k <= n
    BY <2>1, <2>2, <2>3, <2>4
  <2>5. CASE ~(k <= n)
    <3>1. k = Received
      BY <2>1, <2>5
    <3>2. QED  BY <1>4, <2>2, <2>5, <3>1
  <2>6. QED  BY <2>4, <2>5
<1>6. Received' = Received /\ ~InHand'
  BY <1>1 DEF Received, Unbooked, InHand
<1>7. QED
  BY <1>1, <1>5, <1>6 DEF LineInv, Posted

\* The daemon's steps keep every request in its place.
LEMMA LineInDaemon ==
  ASSUME TypeInv, AccountsBalance, LineInv, stage = "daemon", stage' = "daemon", DaemonStep
  PROVE  LineInv'
<1> USE DEF At
<1>0. /\ Received \in 0 .. 3 /\ messages_received \in Nat
      /\ message_count = messages_received /\ MAX_MESSAGES \in Nat
      /\ kernel_to_daemon.count \in Nat /\ kernel_to_daemon.count + Received = 3
  BY LineNumbers DEF LineInv
<1>1. CASE StartLoop
  <2>1. /\ pc = "start" /\ pc' = "receive" /\ g_daemon_running' = TRUE /\ message_count' = 0
        /\ UNCHANGED <<queues, stats, taken>>
    BY <1>1 DEF StartLoop, kernel
  <2>2. UNCHANGED message_count
    BY <1>0, <2>1 DEF LineInv
  <2>3. QED  BY <2>1, <2>2, LineStays DEF Unbooked, InHand
<1>2. CASE ReceiveRequest
  BY <1>2, LineReceives
<1>3. CASE LoopEnds
  <2>1. /\ pc = "receive" /\ pc' = "done" /\ ~LoopGoesOn
        /\ UNCHANGED <<queues, stats, taken, message_count, g_daemon_running>>
    BY <1>3 DEF LoopEnds, kernel
  <2>2. g_daemon_running /\ Received = messages_received
    BY <2>1, LineNumbers DEF LineInv, Unbooked
  <2>3. ~(message_count < MAX_MESSAGES)
    BY <2>1, <2>2 DEF LoopGoesOn
  <2>4. messages_received = 3
    BY <1>0, <2>2, <2>3
  <2>5. QED  BY <2>1, <2>2, <2>4, LineStays DEF Unbooked, InHand
<1>4. CASE NothingToReceive
  <2>1. /\ pc = "receive" /\ pc' = "done" /\ kernel_to_daemon.count = 0
        /\ UNCHANGED <<queues, stats, taken, message_count, g_daemon_running>>
    BY <1>4 DEF NothingToReceive, ipc_queue_empty, kernel
  <2>2. g_daemon_running /\ Received = messages_received
    BY <2>1, LineNumbers DEF LineInv, Unbooked
  <2>3. messages_received = 3
    BY <1>0, <2>1, <2>2
  <2>4. QED  BY <2>1, <2>2, <2>3, LineStays DEF Unbooked, InHand
<1>5. CASE ResetSystem
  <2>1. UNCHANGED <<queues, stats, taken, message_count, request, response, status, pc,
                    g_daemon_running>>
    BY <1>5 DEF ResetSystem, loop, kernel
  <2>2. pc = "process"
    BY <1>5 DEF ResetSystem, Handling
  <2>3. g_daemon_running
    BY <2>2 DEF LineInv
  <2>4. QED  BY <2>1, <2>2, <2>3, LineStays DEF Unbooked, InHand
<1>6. CASE Handled
  <2>1. /\ pc = "process" /\ pc' = "send" /\ Expected(request, Received) /\ g_daemon_running
        /\ UNCHANGED <<queues, stats, message_count, request, taken>>
    BY <1>6 DEF Handled, LineInv, InHand, kernel
  <2>2. status' = "BOOT_SUCCESS" /\ response'.type = request.type
    BY <1>6, <2>1 DEF Handled, Expected, Answers
  <2>3. g_daemon_running'
    BY <1>6, <2>1 DEF Handled, Expected, Kind
  <2>4. QED  BY <2>1, <2>2, <2>3, LineStays DEF Unbooked, InHand
<1>7. CASE SendResponse
  BY <1>7, LineSends
<1>8. CASE ResponseLost \/ ResponseDropped
  <2>1. pc = "send" /\ status = "BOOT_SUCCESS"
    BY <1>8 DEF ResponseLost, ResponseDropped, LineInv
  <2>2. daemon_to_kernel.count < 3 /\ daemon_to_kernel.count \in Nat
    BY <2>1, LineNumbers DEF Unbooked
  <2>3. ~ipc_queue_full(daemon_to_kernel)
    BY <2>2, QueueSizeAssumption DEF ipc_queue_full
  <2>4. QED  BY <1>8, <2>1, <2>3 DEF ResponseLost, ResponseDropped
<1>9. CASE Account
  <2>1. /\ pc = "account" /\ pc' = "receive"
        /\ messages_received' = messages_received + 1 /\ message_count' = message_count + 1
        /\ UNCHANGED <<kernel_to_daemon, daemon_to_kernel, errors, taken, g_daemon_running>>
    BY <1>9 DEF Account, queues, kernel
  <2>2. Received' = Received /\ ~InHand'
    BY <2>1 DEF Received, Unbooked, InHand
  <2>3. QED  BY <1>0, <2>1, <2>2 DEF LineInv, Posted
<1>10. CASE CountSent
  <2>1. /\ pc = "count" /\ pc' = "account"
        /\ UNCHANGED <<kernel_to_daemon, daemon_to_kernel, errors, messages_received, taken,
                       message_count, g_daemon_running>>
    BY <1>10 DEF CountSent, queues, kernel
  <2>2. Received' = Received /\ ~InHand'
    BY <2>1 DEF Received, Unbooked, InHand
  <2>3. QED  BY <2>1, <2>2 DEF LineInv, Posted
<1>11. CASE CountLost
  BY <1>11 DEF CountLost, LineInv
<1>12. QED
  BY HandlerAnswers, <1>1, <1>2, <1>3, <1>4, <1>5, <1>6, <1>7, <1>8, <1>9, <1>10, <1>11
   DEF DaemonStep, TypeInv

\* Before the tests the line says nothing, and after the daemon it is as the
\* daemon left it.
LEMMA LineStep ==
  ASSUME BootInv, LineInv, [BootNext]_allVars
  PROVE  LineInv'
<1> USE DEF In
<1>0. BootTypes /\ StageInv /\ DaemonInv
  BY DEF BootInv
<1>1. CASE GetMemoryMap \/ AllocateSharedMemory \/ SharedMemoryUnavailable \/ InitializeQueues
           \/ PreserveRuntimeServices \/ InitGraphics \/ LoadKernel \/ NoMemoryForKernel
  <2>1. stage \notin Ending
    BY <1>1 DEF GetMemoryMap, AllocateSharedMemory, SharedMemoryUnavailable, InitializeQueues,
                PreserveRuntimeServices, InitGraphics, LoadKernel, NoMemoryForKernel, Ending
  <2>2. result = "none"
    BY <1>0, <2>1 DEF StageInv
  <2>3. stage' \notin {"post", "daemon"} /\ result' # "EFI_SUCCESS"
    BY <1>1, <2>2
     DEF GetMemoryMap, AllocateSharedMemory, SharedMemoryUnavailable, InitializeQueues,
         PreserveRuntimeServices, InitGraphics, LoadKernel, NoMemoryForKernel, Abort
  <2>4. QED  BY <2>3 DEF LineInv
<1>2. CASE RunIpcTests
  <2>1. NothingYet /\ QueuesEmpty
    BY <1>0, <1>2 DEF RunIpcTests, StageInv
  <2>2. QED  BY <1>2, <2>1, LineAfterTests
<1>3. CASE PostTestMessage
  <2>1. TypeInv /\ AccountsBalance
    BY <1>0, <1>3 DEF PostTestMessage, StageInv, DaemonInv
  <2>2. QED  BY <1>0, <1>3, <2>1, LineAfterPost
<1>4. CASE RunDaemon
  <2>1. stage = "daemon" /\ stage' = "daemon" /\ DaemonStep /\ TypeInv /\ AccountsBalance
    BY <1>0, <1>4 DEF RunDaemon, bootVars, DaemonInv
  <2>2. QED  BY <2>1, LineInDaemon
<1>5. CASE DaemonReturned \/ KeyPressed \/ UNCHANGED allVars
  <2>1. vars' = vars /\ (stage' \in {"post", "daemon"} => stage' = stage)
    BY <1>5 DEF DaemonReturned, KeyPressed, allVars, bootVars
  <2>2. /\ UNCHANGED <<queues, stats>> /\ UNCHANGED <<loop, machine, kernel, lost>>
    BY <2>1 DEF vars
  <2>3. /\ UNCHANGED <<kernel_to_daemon, daemon_to_kernel, errors, messages_received, taken,
                       message_count, request, response, status, pc, g_daemon_running>>
    BY <2>2 DEF queues, stats, loop, kernel
  <2>4. Received' = Received /\ InHand' = InHand
    BY <2>3 DEF Received, Unbooked, InHand
  <2>5. (stage' \in {"post", "daemon"} \/ result' = "EFI_SUCCESS")
          => /\ stage \in {"post", "daemon"} \/ result = "EFI_SUCCESS"
             /\ Posted' = Posted
    <3>1. CASE DaemonReturned
      BY <3>1 DEF DaemonReturned, Posted
    <3>2. CASE KeyPressed
      BY <3>2 DEF KeyPressed, Posted
    <3>3. CASE UNCHANGED allVars
      BY <3>3 DEF allVars, bootVars, Posted
    <3>4. QED  BY <1>5, <3>1, <3>2, <3>3
  <2>6. QED  BY <2>3, <2>4, <2>5 DEF LineInv
<1>6. QED
  BY <1>1, <1>2, <1>3, <1>4, <1>5 DEF BootNext, Program

\* When the loop has returned the three answers wait, in the order of their
\* requests.
LEMMA LineAtEnd ==
  ASSUME BootInv, LineInv
  PROVE  LeftoversAnsweredFirst
<1> SUFFICES ASSUME result = "EFI_SUCCESS"
             PROVE  [k \in 1 .. daemon_to_kernel.count |-> Contents(daemon_to_kernel)[k].type]
                      = <<"GET_TIME", "RESET_SYSTEM", "GET_TIME">>
  BY DEF LeftoversAnsweredFirst
<1>1. /\ pc = "done" /\ params.shared_header = "ready"
  BY DEF BootInv, ResultMatchesBoot
<1>2. TypeInv /\ AccountsBalance
  BY <1>1 DEF BootInv, DaemonInv
<1>3. /\ messages_received = 3 /\ errors = 0 /\ taken = 0
      /\ \A k \in 1 .. daemon_to_kernel.count : Contents(daemon_to_kernel)[k].type = Kind(k)
  BY <1>1 DEF LineInv
<1> DEFINE answers == daemon_to_kernel.count
<1>4. answers \in Nat /\ messages_sent \in Nat
  BY <1>2, CountsAreNumbers DEF TypeInv
<1>5. messages_sent + 0 = 3 /\ messages_sent = answers + 0
  BY <1>1, <1>2, <1>3 DEF AccountsBalance, Published, Uncounted
<1> HIDE DEF answers
<1>6. answers = 3
  BY <1>4, <1>5
<1> DEFINE kinds == [k \in 1 .. 3 |-> Kind(k)]
<1>7. [k \in 1 .. daemon_to_kernel.count |-> Contents(daemon_to_kernel)[k].type] = kinds
  BY <1>3, <1>6 DEF answers
<1>8. kinds[1] = "GET_TIME" /\ kinds[2] = "RESET_SYSTEM" /\ kinds[3] = "GET_TIME"
  BY DEF Kind
<1>9. kinds \in Seq(Types) /\ Len(kinds) = 3
  <2>1. kinds \in [1 .. 3 -> Types] /\ 3 \in Nat
    BY DEF Kind, Types
  <2> HIDE DEF kinds
  <2>2. QED  BY ONLY <2>1, FunctionIsSeq
<1> HIDE DEF kinds
<1>10. kinds = <<"GET_TIME", "RESET_SYSTEM", "GET_TIME">>
  BY <1>8, <1>9
<1>11. QED  BY <1>7, <1>10

-----------------------------------------------------------------------------
(* The theorems.                                                           *)

\* What each stage finds, throughout every boot.
LEMMA BootInvHolds == BootSpec => []BootInv
<1>1. BootInit => BootInv
  <2> SUFFICES ASSUME BootInit  PROVE BootInv
    OBVIOUS
  <2>1. BootTypes /\ params.shared_header = "none"
    BY DEF BootInit, BootTypes, Stages
  <2>2. NothingYet /\ stage = "memoryMap" /\ result = "none" /\ params.kernel_base = "none"
    BY DEF BootInit, Init, NothingYet
  <2>3. StageInv /\ ResultMatchesBoot /\ DaemonInv
    BY <2>1, <2>2 DEF StageInv, ResultMatchesBoot, DaemonInv, Early, SetUp
  <2>4. QED  BY <2>1, <2>3 DEF BootInv
<1>2. BootInv /\ [BootNext]_allVars => BootInv'
  BY StageStep, ResultStep, DaemonInvStep DEF BootInv
<1>3. QED  BY <1>1, <1>2, PTL DEF BootSpec

\* The boot's variables keep their types, and the daemon's do from the
\* initialization of the queues on.
THEOREM BootTypesCorrect == BootSpec => []BootTypeOK
<1>1. BootInv => BootTypeOK
  BY DEF BootInv, BootTypes, DaemonInv, TypeInv, BootTypeOK
<1>2. QED  BY <1>1, BootInvHolds, PTL

\* Whatever the pages held, the tests find empty queues, and the daemon only
\* ever sees requests the bootloader posted.
THEOREM CleanStart == BootSpec => []StartsFromEmptyQueues
<1>1. BootInv => StartsFromEmptyQueues
  <2> SUFFICES ASSUME BootInv  PROVE StartsFromEmptyQueues
    OBVIOUS
  <2>1. EmptyQueue(Zero).count = 0
    BY ZeroIsMessage, EmptyQueueIsQueue
  <2>2. stage = "tests" => ipc_queue_empty(kernel_to_daemon) /\ ipc_queue_empty(daemon_to_kernel)
    BY <2>1 DEF BootInv, StageInv, QueuesEmpty, ipc_queue_empty
  <2>3. QED  BY <2>2 DEF BootInv, DaemonInv, StartsFromEmptyQueues
<1>2. QED  BY <1>1, BootInvHolds, PTL

\* The result of efi_main tells what the boot has come to.
THEOREM ResultTrue == BootSpec => []ResultMatchesBoot
<1>1. BootInv => ResultMatchesBoot
  BY DEF BootInv
<1>2. QED  BY <1>1, BootInvHolds, PTL

\* However large the queues and however long the loop, as long as they suffice for
\* the three requests, and whatever the firmware returns: a boot that returns has
\* answered all three, in the order they were posted.
THEOREM LeftoversFirst == BootSpec => []LeftoversAnsweredFirst
<1>1. BootInit => LineInv
  BY DEF BootInit, LineInv
<1>2. BootInv /\ LineInv /\ [BootNext]_allVars => LineInv'
  BY LineStep
<1>3. BootInv /\ LineInv => LeftoversAnsweredFirst
  BY LineAtEnd
<1>4. QED  BY <1>1, <1>2, <1>3, BootInvHolds, PTL DEF BootSpec

-----------------------------------------------------------------------------
(* The boot's end.                                                         *)

\* How many stages lie ahead.
StagesAhead ==
  LET ahead == [memoryMap |-> 10, sharedMemory |-> 9, initQueues |-> 8, preserve |-> 7,
                graphics |-> 6, loadKernel |-> 5, tests |-> 4, post |-> 3, daemon |-> 2,
                waitForKey |-> 1, returned |-> 0]
  IN  ahead[stage]

\* The most steps the bootloader can still take, those of the daemon's loop
\* among them.
BootStepsLeft == StagesAhead + (IF stage \in Ending THEN 0 ELSE StepsLeft)

\* The daemon's bound is a number also before its queues are initialized.
LEMMA StepsLeftIsNat ==
  ASSUME BootInv
  PROVE  StepsLeft \in 0 .. 5 * MAX_MESSAGES + 2 \/ stage \in Ending
<1>1. CASE params.shared_header = "ready"
  BY <1>1, StepsLeftAt DEF BootInv, DaemonInv
<1>2. CASE params.shared_header # "ready" /\ stage \notin Ending
  <2>1. machine = "on" /\ pc = "start"
    BY <1>2 DEF BootInv, BootTypes, StageInv, NothingYet, Stages, Early, SetUp, Ending
  <2>2. StepsLeft = 5 * MAX_MESSAGES + 2
    BY <2>1 DEF StepsLeft
  <2>3. QED  BY <2>2
<1>3. QED  BY <1>1, <1>2

\* The count by itself, for each stage.
LEMMA StagesAheadAt ==
  ASSUME stage \in Stages
  PROVE  /\ stage = "memoryMap" => StagesAhead = 10
         /\ stage = "sharedMemory" => StagesAhead = 9
         /\ stage = "initQueues" => StagesAhead = 8
         /\ stage = "preserve" => StagesAhead = 7
         /\ stage = "graphics" => StagesAhead = 6
         /\ stage = "loadKernel" => StagesAhead = 5
         /\ stage = "tests" => StagesAhead = 4
         /\ stage = "post" => StagesAhead = 3
         /\ stage = "daemon" => StagesAhead = 2
         /\ stage = "waitForKey" => StagesAhead = 1
         /\ stage = "returned" => StagesAhead = 0
         /\ StagesAhead \in 0 .. 10
BY DEF StagesAhead, Stages

\* Every step leaves a stage behind, or a step of the loop.
LEMMA BootStepCounts ==
  ASSUME BootInv, BootInv', BootNext
  PROVE  BootStepsLeft' < BootStepsLeft
<1> DEFINE now == StepsLeft
           next == StepsLeft'
           ahead == StagesAhead
           then == StagesAhead'
<1> USE DEF In, Ending
<1>1. /\ stage \in Stages /\ stage' \in Stages
      /\ stage \notin Ending => now \in Nat
      /\ stage' \notin Ending => next \in Nat
  <2>1. (BootInv => StepsLeft \in 0 .. 5 * MAX_MESSAGES + 2 \/ stage \in Ending)'
    BY StepsLeftIsNat, PTL
  <2>2. QED  BY <2>1, StepsLeftIsNat DEF BootInv, BootTypes
<1>2. /\ stage = "memoryMap" => ahead = 10
      /\ stage = "sharedMemory" => ahead = 9
      /\ stage = "initQueues" => ahead = 8
      /\ stage = "preserve" => ahead = 7
      /\ stage = "graphics" => ahead = 6
      /\ stage = "loadKernel" => ahead = 5
      /\ stage = "tests" => ahead = 4
      /\ stage = "post" => ahead = 3
      /\ stage = "daemon" => ahead = 2
      /\ stage = "waitForKey" => ahead = 1
      /\ stage' = "sharedMemory" => then = 9
      /\ stage' = "initQueues" => then = 8
      /\ stage' = "preserve" => then = 7
      /\ stage' = "graphics" => then = 6
      /\ stage' = "loadKernel" => then = 5
      /\ stage' = "tests" => then = 4
      /\ stage' = "post" => then = 3
      /\ stage' = "daemon" => then = 2
      /\ stage' = "waitForKey" => then = 1
      /\ stage' = "returned" => then = 0
  <2>1. (stage \in Stages => /\ stage = "sharedMemory" => StagesAhead = 9
                             /\ stage = "initQueues" => StagesAhead = 8
                             /\ stage = "preserve" => StagesAhead = 7
                             /\ stage = "graphics" => StagesAhead = 6
                             /\ stage = "loadKernel" => StagesAhead = 5
                             /\ stage = "tests" => StagesAhead = 4
                             /\ stage = "post" => StagesAhead = 3
                             /\ stage = "daemon" => StagesAhead = 2
                             /\ stage = "waitForKey" => StagesAhead = 1
                             /\ stage = "returned" => StagesAhead = 0)'
    BY StagesAheadAt, PTL
  <2>2. QED  BY <1>1, <2>1, StagesAheadAt
<1>3. UNCHANGED <<machine, pc, message_count>> => next = now
  BY DEF StepsLeft
<1>4. SUFFICES then + (IF stage' \in Ending THEN 0 ELSE next)
                 < ahead + (IF stage \in Ending THEN 0 ELSE now)
  BY DEF BootStepsLeft
<1> HIDE DEF now, next, ahead, then
<1> USE DEF vars, loop
<1>5. ASSUME UNCHANGED <<machine, pc, message_count>>, stage \notin Ending,
             then < ahead, then \in Nat, ahead \in Nat
      PROVE  then + (IF stage' \in Ending THEN 0 ELSE next)
               < ahead + (IF stage \in Ending THEN 0 ELSE now)
  BY <1>1, <1>3, <1>5
<1>6. CASE GetMemoryMap \/ SharedMemoryUnavailable \/ NoMemoryForKernel
  <2>1. UNCHANGED <<machine, pc, message_count>>
    BY <1>6 DEF GetMemoryMap, SharedMemoryUnavailable, NoMemoryForKernel
  <2>2. stage \notin Ending /\ then < ahead /\ then \in Nat /\ ahead \in Nat
    BY <1>2, <1>6 DEF GetMemoryMap, SharedMemoryUnavailable, NoMemoryForKernel, Abort
  <2>3. QED  BY <1>5, <2>1, <2>2
<1>7. CASE \/ AllocateSharedMemory \/ InitializeQueues \/ PreserveRuntimeServices \/ InitGraphics
           \/ LoadKernel \/ RunIpcTests \/ PostTestMessage
  <2> USE DEF AllocateSharedMemory, InitializeQueues, PreserveRuntimeServices, InitGraphics,
              LoadKernel, RunIpcTests, PostTestMessage
  <2>1. UNCHANGED <<machine, pc, message_count>>
    BY <1>7
  <2>2. stage \notin Ending /\ then < ahead /\ then \in Nat /\ ahead \in Nat
    BY <1>2, <1>7
  <2>3. QED  BY <1>5, <2>1, <2>2
<1>8. CASE RunDaemon
  <2>1. UNCHANGED <<stage, params>> /\ stage = "daemon" /\ params.shared_header = "ready"
    BY <1>8 DEF RunDaemon, bootVars
  <2>2. TypeInv
    BY <2>1 DEF BootInv, DaemonInv
  <2>3. TypeInv'
    BY <2>1 DEF BootInv, DaemonInv
  <2>4. next < now
    BY <1>8, <2>2, <2>3, LoopStepCounts DEF RunDaemon, now, next
  <2>5. then = ahead /\ ahead = 2
    BY <1>2, <2>1 DEF then, ahead, StagesAhead
  <2>6. QED  BY <1>1, <2>1, <2>4, <2>5
<1>9. CASE DaemonReturned
  BY <1>1, <1>2, <1>9 DEF DaemonReturned
<1>10. CASE KeyPressed
  BY <1>2, <1>10 DEF KeyPressed
<1>11. QED
  BY <1>6, <1>7, <1>8, <1>9, <1>10 DEF BootNext, Program

\* Every step of the bootloader and of the daemon's loop in it brings the end nearer.
BootRunsDown == [][BootStepsLeft' < BootStepsLeft]_allVars

\* For every capacity and loop limit, whichever allocation failed and whatever the
\* firmware answers, the boot takes at most 5 * MAX_MESSAGES + 12 steps: it goes
\* through no stage twice and cannot run for ever.
THEOREM BootIsBounded ==
  BootSpec => [](BootStepsLeft \in 0 .. 5 * MAX_MESSAGES + 12) /\ BootRunsDown
<1>1. BootInv => BootStepsLeft \in 0 .. 5 * MAX_MESSAGES + 12
  <2> SUFFICES ASSUME BootInv  PROVE BootStepsLeft \in 0 .. 5 * MAX_MESSAGES + 12
    OBVIOUS
  <2> DEFINE ahead == StagesAhead
             now == StepsLeft
  <2>1. ahead \in 0 .. 10
    BY StagesAheadAt DEF BootInv, BootTypes
  <2>2. now \in 0 .. 5 * MAX_MESSAGES + 2 \/ stage \in Ending
    BY StepsLeftIsNat
  <2>3. SUFFICES ahead + (IF stage \in Ending THEN 0 ELSE now) \in 0 .. 5 * MAX_MESSAGES + 12
    BY DEF BootStepsLeft
  <2> HIDE DEF ahead, now
  <2>4. QED  BY <2>1, <2>2
<1>2. BootInv /\ BootInv' /\ [BootNext]_allVars => [BootStepsLeft' < BootStepsLeft]_allVars
  BY BootStepCounts
<1>3. QED  BY <1>1, <1>2, BootInvHolds, PTL DEF BootSpec, BootRunsDown

=============================================================================
