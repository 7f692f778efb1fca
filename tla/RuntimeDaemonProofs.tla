------------------------ MODULE RuntimeDaemonProofs -------------------------
(***************************************************************************)
(* What the daemon guarantees whatever the capacity of the queues, the     *)
(* loop's limit and the requests the kernel posts.                         *)
(*                                                                         *)
(* The argument, bottom up: what process_message leaves in the response    *)
(* (HandlerAnswers), the types, the accounts, where each request is on its *)
(* way, and what the answers say.  Last, that the loop has a number of     *)
(* steps left that each of them lowers (StepsLeft).                        *)
(***************************************************************************)
EXTENDS RuntimeDaemon, IpcQueueProofs, FiniteSetTheorems

USE RequestsAssumption, LoopBoundAssumption, MaxPostsAssumption

\* A request being handled is within the loop's limit.
TypeInv == TypeOK /\ (Unbooked => message_count < MAX_MESSAGES)

-----------------------------------------------------------------------------
(* process_message.                                                        *)

\* AnswerDataIsSound of one answer.
DataIsSound(a) ==
  /\ a.size > IPC_MAX_DATA_SIZE => a.type = "GET_VARIABLE" /\ a.status = EFI_BUFFER_TOO_SMALL
  /\ a.payload = "stack" => a.status.error
  /\ a.payload = "time" => a.type = "GET_TIME" /\ ~a.status.error

\* a answers the message r.
Answers(a, r) ==
  /\ a.sequence = r.sequence /\ a.type = r.type
  /\ a.type # "SHUTDOWN" => a.source = DaemonPid /\ a.target = r.source
  /\ DataIsSound(a)

\* A handler has run and returned.
Handled ==
  /\ At("process") /\ pc' = "send"
  /\ response' \in Message /\ status' \in {"BOOT_SUCCESS", "BOOT_ERROR"}
  /\ status' = "BOOT_SUCCESS" <=> Served(request)
  /\ Served(request) => Answers(response', request)
  /\ g_daemon_running' \in BOOLEAN
  /\ request.type = "SHUTDOWN" => g_daemon_running' = FALSE
  /\ request.type # "SHUTDOWN" => g_daemon_running' = g_daemon_running
  /\ UNCHANGED <<queues, stats, message_count, request, machine, kernel, lost>>

EfiStatuses == [error : BOOLEAN, code : Nat]

\* The statuses of the firmware, and which of them are errors.
LEMMA StatusesTyped ==
  /\ EFI_SUCCESS \in EfiStatuses /\ EFI_INVALID_PARAMETER \in EfiStatuses
  /\ EFI_UNSUPPORTED \in EfiStatuses /\ EFI_BUFFER_TOO_SMALL \in EfiStatuses
  /\ EFI_DEVICE_ERROR \in EfiStatuses /\ EFI_NOT_FOUND \in EfiStatuses
  /\ EFI_NOT_FOUND.error /\ EFI_BUFFER_TOO_SMALL.error /\ ~EFI_SUCCESS.error
<1>1. \A c \in Nat : EfiStatus(c) \in EfiStatuses
  BY DEF EfiStatuses, EfiStatus
<1>2. EfiStatus(14).error /\ EfiStatus(5).error /\ ~EfiStatus(0).error
  <2>1. \A c : EfiStatus(c).error = (c # 0)
    BY Zenon DEF EfiStatus
  <2>2. 14 # 0 /\ 5 # 0
    OBVIOUS
  <2>3. QED  BY <2>1, <2>2, Zenon
<1>3. QED
  BY <1>1, <1>2 DEF EFI_SUCCESS, EFI_INVALID_PARAMETER, EFI_UNSUPPORTED,
       EFI_BUFFER_TOO_SMALL, EFI_DEVICE_ERROR, EFI_NOT_FOUND

\* The response every case starts from is a message.
LEMMA EchoIsMessage ==
  ASSUME TypeOK
  PROVE  Echo \in Message
BY StatusesTyped DEF TypeOK, EfiStatuses, Echo, Zero, Message, DaemonPid

\* So is what the handlers make of it.
LEMMA RepliesAreMessages ==
  ASSUME TypeOK, NEW size \in Nat, NEW st \in EfiStatuses,
         NEW payload \in {"none", "time", "variable", "attributes", "stack"}
  PROVE  /\ Reply(size, st, payload) \in Message
         /\ [Echo EXCEPT !.size = size, !.status = st] \in Message
BY StatusesTyped DEF TypeOK, EfiStatuses, Echo, Reply, Zero, Message, DaemonPid

\* The fields of what process_message builds.
LEMMA ReplyFields ==
  ASSUME NEW size, NEW st, NEW payload
  PROVE  /\ Reply(size, st, payload).sequence = request.sequence
         /\ Reply(size, st, payload).type = request.type
         /\ Reply(size, st, payload).source = DaemonPid
         /\ Reply(size, st, payload).target = request.source
         /\ Reply(size, st, payload).size = size
         /\ Reply(size, st, payload).status = st
         /\ Reply(size, st, payload).payload = payload
         /\ Echo.sequence = request.sequence /\ Echo.type = request.type
         /\ Echo.size = 0 /\ Echo.payload = "none"
BY DEF Echo, Reply, Zero

\* Every case but the reset that takes effect is a handler that has returned.
LEMMA HandlerAnswers ==
  ASSUME TypeOK, ProcessMessage
  PROVE  ResetSystem \/ Handled
<1> USE DEF Handling, Returns, SizeOfU32, SizeOfStatus, SizeOfEfiTime, IPC_MAX_DATA_SIZE
<1>0. /\ request \in Message /\ request.type \in Types /\ request.size \in Nat
      /\ request.source \in Nat /\ g_daemon_running \in BOOLEAN
  BY DEF TypeOK, Message
<1>1. CASE ResetReturns
  <2>1. PICK st \in {EFI_UNSUPPORTED, EFI_DEVICE_ERROR} :
          Returns(Reply(SizeOfU32, Low32(st), "none"), "BOOT_SUCCESS")
    BY <1>1 DEF ResetReturns
  <2>2. Low32(st) \in EfiStatuses
    BY StatusesTyped DEF Low32, EfiStatuses
  <2>3. response' \in Message
    BY <2>1, <2>2, RepliesAreMessages
  <2>4. Answers(response', request)
    BY <1>1, <2>1, ReplyFields DEF ResetReturns, Answers, DataIsSound
  <2>5. QED  BY <1>0, <1>1, <2>1, <2>3, <2>4 DEF ResetReturns, Handled, Served
<1>2. CASE ResetTooShort
  <2>1. response' \in Message
    BY <1>2, EchoIsMessage DEF ResetTooShort
  <2>2. QED  BY <1>0, <1>2, <2>1 DEF ResetTooShort, Handled, Served
<1>3. CASE GetTime
  <2>1. PICK st \in {EFI_SUCCESS, EFI_DEVICE_ERROR} :
          Returns(Reply(SizeOfStatus + SizeOfEfiTime, st, IF st.error THEN "none" ELSE "time"),
                  "BOOT_SUCCESS")
    BY <1>3 DEF GetTime
  <2>2. st \in EfiStatuses
    BY StatusesTyped
  <2>3. response' \in Message
    <3>1. (IF st.error THEN "none" ELSE "time") \in {"none", "time"}
      OBVIOUS
    <3>2. SizeOfStatus + SizeOfEfiTime \in Nat
      OBVIOUS
    <3>3. QED  BY <2>1, <2>2, <3>1, <3>2, RepliesAreMessages
  <2>4. Answers(response', request)
    BY <1>3, <2>1, <2>2, ReplyFields DEF GetTime, Answers, DataIsSound
  <2>5. QED  BY <1>0, <1>3, <2>1, <2>3, <2>4 DEF GetTime, Handled, Served
<1>4. CASE SetTime
  <2>1. PICK st \in {EFI_SUCCESS, EFI_DEVICE_ERROR} :
          Returns(Reply(SizeOfStatus, st, "none"), "BOOT_SUCCESS")
    BY <1>4 DEF SetTime
  <2>2. st \in EfiStatuses
    BY StatusesTyped
  <2>3. response' \in Message
    BY <2>1, <2>2, RepliesAreMessages
  <2>4. Answers(response', request)
    BY <1>4, <2>1, ReplyFields DEF SetTime, Answers, DataIsSound
  <2>5. QED  BY <1>0, <1>4, <2>1, <2>3, <2>4 DEF SetTime, Handled, Served
<1>5. CASE SetTimeTooShort
  <2>1. response' \in Message
    BY <1>5, StatusesTyped, RepliesAreMessages DEF SetTimeTooShort
  <2>2. QED  BY <1>0, <1>5, <2>1 DEF SetTimeTooShort, Handled, Served
<1>6. CASE GetVariable
  <2>1. PICK v \in VariableResults :
          Returns(Reply(SizeOfStatus + SizeOfU32 + v.data_size, v.st, v.payload), "BOOT_SUCCESS")
    BY <1>6 DEF GetVariable
  <2>2. /\ v.data_size \in Nat /\ v.data_size <= VariableRoom + 1
        /\ v.payload \in {"variable", "attributes", "stack"}
        /\ v.data_size = VariableRoom + 1 => v.st = EFI_BUFFER_TOO_SMALL
    BY DEF VariableResults, VariableRoom
  <2>3. v.st \in EfiStatuses /\ (v.payload = "stack" => v.st.error)
    BY StatusesTyped DEF VariableResults
  <2>4. response' \in Message
    <3>1. SizeOfStatus + SizeOfU32 + v.data_size \in Nat
      BY <2>2
    <3>2. QED  BY <2>1, <2>2, <2>3, <3>1, RepliesAreMessages
  <2>5. Answers(response', request)
    BY <1>6, <2>1, <2>2, <2>3, ReplyFields DEF GetVariable, Answers, DataIsSound, VariableRoom
  <2>6. QED  BY <1>0, <1>6, <2>1, <2>4, <2>5 DEF GetVariable, Handled, Served
<1>7. CASE Shutdown
  <2>1. response' \in Message
    BY <1>7, EchoIsMessage DEF Shutdown
  <2>2. Answers(response', request)
    BY <1>7, ReplyFields DEF Shutdown, Answers, DataIsSound
  <2>3. QED  BY <1>0, <1>7, <2>1, <2>2 DEF Shutdown, Handled, Served
<1>8. CASE Unsupported
  <2>1. response' \in Message
    BY <1>8, StatusesTyped, RepliesAreMessages DEF Unsupported
  <2>2. QED  BY <1>0, <1>8, <2>1 DEF Unsupported, Handled, Served
<1>9. QED
  BY <1>1, <1>2, <1>3, <1>4, <1>5, <1>6, <1>7, <1>8 DEF ProcessMessage

-----------------------------------------------------------------------------
(* Types.                                                                  *)

\* A request as the kernel builds it is a message.
LEMMA RequestIsMessage ==
  ASSUME NEW r \in Requests, NEW n \in Nat
  PROVE  /\ RequestOf(r, n) \in Message
         /\ RequestOf(r, n).sequence = n /\ RequestOf(r, n).type = r.type
         /\ RequestOf(r, n).source = r.source /\ RequestOf(r, n).size = r.size
BY StatusesTyped DEF RequestOf, Zero, Message, EfiStatuses, DaemonPid

\* So is the zeroed one.
LEMMA ZeroIsMessage == Zero \in Message
BY StatusesTyped DEF Zero, Message, EfiStatuses, Types

\* The kernel's post, spelled out.
LEMMA Post ==
  ASSUME TypeOK, KernelPost
  PROVE  \E r \in Requests :
           /\ kernel_to_daemon' = AfterSend(kernel_to_daemon, RequestOf(r, Len(asked) + 1))
           /\ RequestOf(r, Len(asked) + 1) \in Message
           /\ asked' = Append(asked, r) /\ asked' \in Seq(Requests)
           /\ Len(asked') = Len(asked) + 1
           /\ Len(asked) \in Nat /\ Len(asked) < MaxPosts
           /\ \A n \in 1 .. Len(asked) : asked'[n] = asked[n]
           /\ asked'[Len(asked) + 1] = r
<1>1. PICK r \in Requests :
        /\ kernel_to_daemon' = AfterSend(kernel_to_daemon, RequestOf(r, Len(asked) + 1))
        /\ asked' = Append(asked, r)
  BY DEF KernelPost
<1>2. asked \in Seq(Requests) /\ Len(asked) \in Nat /\ Len(asked) < MaxPosts
  BY DEF TypeOK, KernelPost
<1>3. RequestOf(r, Len(asked) + 1) \in Message
  BY <1>2, RequestIsMessage
<1>4. QED  BY <1>1, <1>2, <1>3

\* The loop has not begun and both queues are empty.
LEMMA TypeInvInit == Init => TypeInv
<1> SUFFICES ASSUME Init  PROVE TypeInv
  OBVIOUS
<1>1. IsQueue(EmptyQueue(Zero), Message)
  BY ZeroIsMessage, EmptyQueueIsQueue
<1>2. asked \in Seq(Requests) /\ Len(asked) = 0
  BY EmptySeq DEF Init
<1>3. 0 \in 0 .. MAX_MESSAGES /\ 0 <= MaxPosts
  OBVIOUS
<1>4. TypeOK
  BY <1>1, <1>2, <1>3, ZeroIsMessage DEF Init, TypeOK, Statuses, Steps
<1>5. QED  BY <1>4 DEF Init, TypeInv, Unbooked

\* Every step of the daemon and of the kernel keeps the types.
LEMMA TypeInvStep ==
  ASSUME TypeInv, [Next]_vars
  PROVE  TypeInv'
<1> USE DEF TypeInv, At, Unbooked, Steps, Statuses, queues, stats, kernel
<1>1. CASE StartLoop
  BY <1>1 DEF StartLoop, TypeOK
<1>2. CASE ReceiveRequest
  <2>1. IsQueue(kernel_to_daemon', Message) /\ request' \in Message
    BY <1>2, ReceiveTakesHead DEF ReceiveRequest, TypeOK
  <2>2. QED  BY <1>2, <2>1 DEF ReceiveRequest, TypeOK, LoopGoesOn
<1>3. CASE LoopEnds
  BY <1>3 DEF LoopEnds, TypeOK
<1>4. CASE NothingToReceive
  BY <1>4 DEF NothingToReceive, TypeOK
<1>5. CASE ResetSystem
  BY <1>5 DEF ResetSystem, TypeOK, loop
<1>6. CASE Handled
  BY <1>6 DEF Handled, TypeOK
<1>7. CASE SendResponse
  <2>1. IsQueue(daemon_to_kernel', Message)
    BY <1>7, SendAppends DEF SendResponse, TypeOK
  <2>2. QED  BY <1>7, <2>1 DEF SendResponse, TypeOK
<1>8. CASE ResponseLost \/ CountSent \/ CountLost
  <2>1. CASE ResponseLost
    BY <2>1 DEF ResponseLost, TypeOK
  <2>2. CASE CountSent
    BY <2>2 DEF CountSent, TypeOK
  <2>3. CASE CountLost
    BY <2>3 DEF CountLost, TypeOK
  <2>4. QED  BY <1>8, <2>1, <2>2, <2>3
<1>9. CASE ResponseDropped
  BY <1>9 DEF ResponseDropped, TypeOK
<1>10. CASE Account
  BY <1>10 DEF Account, TypeOK
<1>11. CASE KernelPost
  <2>1. IsQueue(kernel_to_daemon', Message)
    BY <1>11, Post, SendAppends DEF KernelPost, TypeOK
  <2>2. asked' \in Seq(Requests) /\ Len(asked') <= MaxPosts
    BY <1>11, Post
  <2>3. QED  BY <1>11, <2>1, <2>2 DEF KernelPost, TypeOK, loop
<1>12. CASE KernelTake
  <2>1. IsQueue(daemon_to_kernel', Message) /\ Front(daemon_to_kernel) \in Message
    BY <1>12, ReceiveTakesHead DEF KernelTake, TypeOK
  <2>2. lastTaken' \in Nat
    BY <1>12, <2>1 DEF KernelTake, Message
  <2>3. QED  BY <1>12, <2>1, <2>2 DEF KernelTake, TypeOK, loop
<1>13. CASE UNCHANGED vars
  BY <1>13 DEF vars, loop, TypeOK
<1>14. QED
  BY HandlerAnswers, <1>1, <1>2, <1>3, <1>4, <1>5, <1>6, <1>7, <1>8, <1>9, <1>10, <1>11, <1>12,
     <1>13 DEF Next, DaemonStep

\* The types, and the loop's limit, throughout.
LEMMA TypesHold == Spec => []TypeInv
BY TypeInvInit, TypeInvStep, PTL DEF Spec

\* For every queue size, loop limit and set of requests all variables keep
\* their types, both rings their indices and counter in agreement.
THEOREM TypeCorrect == Spec => []TypeOK
<1>1. TypeInv => TypeOK
  BY DEF TypeInv
<1>2. QED  BY <1>1, TypesHold, PTL

-----------------------------------------------------------------------------
(* The accounts.                                                           *)

\* At first all accounts are zero.
LEMMA AccountsInit == Init => AccountsBalance
<1> SUFFICES ASSUME Init  PROVE AccountsBalance
  OBVIOUS
<1>1. EmptyQueue(Zero).count = 0
  BY ZeroIsMessage, EmptyQueueIsQueue
<1>2. Len(asked) = 0
  BY EmptySeq DEF Init
<1>3. QED  BY <1>1, <1>2 DEF Init, AccountsBalance, Received, Unbooked, Published, Uncounted

\* What the queues' counters are, as numbers.
LEMMA CountsAreNumbers ==
  ASSUME TypeOK
  PROVE  /\ kernel_to_daemon.count \in Nat /\ daemon_to_kernel.count \in Nat
         /\ messages_sent \in Nat /\ messages_received \in Nat /\ errors \in Nat
         /\ taken \in Nat /\ lost \in Nat /\ lastTaken \in Nat /\ Len(asked) \in Nat
BY ContentsIsSeq DEF TypeOK

\* Each step moves a request from one account to the next, or changes none.
LEMMA AccountsStep ==
  ASSUME TypeInv, AccountsBalance, [Next]_vars
  PROVE  AccountsBalance'
<1> DEFINE posted == Len(asked)
           waiting == kernel_to_daemon.count
           answers == daemon_to_kernel.count
<1> HIDE DEF posted, waiting, answers
<1> USE DEF At, queues, stats, kernel, loop
<1>0. TypeOK
  BY DEF TypeInv
<1>a. /\ waiting \in Nat /\ answers \in Nat /\ posted \in Nat
      /\ messages_sent \in Nat /\ messages_received \in Nat /\ errors \in Nat
      /\ taken \in Nat /\ lost \in Nat
  BY <1>0, CountsAreNumbers DEF posted, waiting, answers
<1>b. /\ Unbooked => posted = waiting + (messages_received + 1)
      /\ ~Unbooked => posted = waiting + messages_received
      /\ pc = "account" => messages_sent + errors = messages_received + 1
      /\ pc # "account" => messages_sent + errors = messages_received
      /\ Published = answers + taken
      /\ Uncounted => Published = messages_sent + 1
      /\ ~Uncounted => Published = messages_sent
  BY DEF AccountsBalance, Received, Unbooked, Published, posted, waiting, answers
<1>c. SUFFICES /\ Unbooked' => posted' = waiting' + (messages_received' + 1)
               /\ ~Unbooked' => posted' = waiting' + messages_received'
               /\ pc' = "account" => messages_sent' + errors' = messages_received' + 1
               /\ pc' # "account" => messages_sent' + errors' = messages_received'
               /\ Uncounted' => messages_sent' + 1 = answers' + taken'
               /\ ~Uncounted' => messages_sent' = answers' + taken'
  BY DEF AccountsBalance, Received, Unbooked, Published, posted, waiting, answers
<1>d. /\ kernel_to_daemon' = kernel_to_daemon => waiting' = waiting
      /\ daemon_to_kernel' = daemon_to_kernel => answers' = answers
      /\ asked' = asked => posted' = posted
  BY DEF posted, waiting, answers
<1>1. CASE StartLoop
  BY <1>1, <1>b, <1>d DEF StartLoop, Unbooked, Uncounted
<1>2. CASE ReceiveRequest
  <2>1. waiting' = waiting - 1
    BY <1>0, <1>2, ReceiveTakesHead DEF ReceiveRequest, TypeOK, waiting
  <2>2. QED  BY <1>2, <2>1, <1>a, <1>b, <1>d DEF ReceiveRequest, Unbooked, Uncounted
<1>3. CASE LoopEnds
  BY <1>3, <1>b, <1>d DEF LoopEnds, Unbooked, Uncounted
<1>4. CASE NothingToReceive
  BY <1>4, <1>b, <1>d DEF NothingToReceive, Unbooked, Uncounted
<1>5. CASE ResetSystem
  BY <1>5, <1>b, <1>d DEF ResetSystem, Unbooked, Uncounted
<1>6. CASE Handled
  BY <1>6, <1>b, <1>d DEF Handled, Unbooked, Uncounted
<1>7. CASE SendResponse
  <2>1. answers' = answers + 1
    BY <1>0, <1>7, SendAppends DEF SendResponse, TypeOK, answers
  <2>2. QED  BY <1>7, <2>1, <1>a, <1>b, <1>d DEF SendResponse, Unbooked, Uncounted
<1>8. CASE ResponseLost \/ CountSent \/ CountLost
  BY <1>8, <1>a, <1>b, <1>d DEF ResponseLost, CountSent, CountLost, Unbooked, Uncounted
<1>9. CASE ResponseDropped
  BY <1>9, <1>a, <1>b, <1>d DEF ResponseDropped, Unbooked, Uncounted
<1>10. CASE Account
  BY <1>10, <1>a, <1>b, <1>d DEF Account, Unbooked, Uncounted
<1>11. CASE KernelPost
  <2>1. waiting' = waiting + 1 /\ posted' = posted + 1
    BY <1>0, <1>11, Post, SendAppends DEF KernelPost, TypeOK, waiting, posted
  <2>2. QED  BY <1>11, <2>1, <1>a, <1>b, <1>d DEF KernelPost, Unbooked, Uncounted
<1>12. CASE KernelTake
  <2>1. answers' = answers - 1
    BY <1>0, <1>12, ReceiveTakesHead DEF KernelTake, TypeOK, answers
  <2>2. QED  BY <1>12, <2>1, <1>a, <1>b, <1>d DEF KernelTake, Unbooked, Uncounted
<1>13. CASE UNCHANGED vars
  BY <1>13, <1>b, <1>d DEF vars, Unbooked, Uncounted
<1>14. QED
  BY HandlerAnswers, <1>0, <1>1, <1>2, <1>3, <1>4, <1>5, <1>6, <1>7, <1>8, <1>9, <1>10, <1>11,
     <1>12, <1>13 DEF Next, DaemonStep

\* The statistics in the shared memory account for every request and every
\* answer at every step of the daemon and of the kernel.
THEOREM AccountsHold == Spec => []AccountsBalance
<1>1. Init => AccountsBalance
  BY AccountsInit
<1>2. TypeInv /\ AccountsBalance /\ [Next]_vars => AccountsBalance'
  BY AccountsStep
<1>3. QED  BY <1>1, <1>2, TypesHold, PTL DEF Spec

-----------------------------------------------------------------------------
(* The queues.                                                             *)

\* Who touches which queue.
LEMMA QueueSteps ==
  ASSUME TypeOK, [Next]_vars
  PROVE  /\ \/ ReceiveRequest
            \/ KernelPost
            \/ UNCHANGED kernel_to_daemon
         /\ \/ SendResponse
            \/ KernelTake
            \/ UNCHANGED daemon_to_kernel
<1>1. CASE DaemonStep
  BY <1>1, HandlerAnswers
   DEF DaemonStep, StartLoop, ReceiveRequest, LoopEnds, NothingToReceive, ResetSystem, Handled,
       SendResponse, ResponseLost, CountSent, CountLost, ResponseDropped, Account, queues
<1>2. CASE KernelPost
  BY <1>2 DEF KernelPost
<1>3. CASE KernelTake
  BY <1>3 DEF KernelTake
<1>4. CASE UNCHANGED vars
  BY <1>4 DEF vars, queues
<1>5. QED  BY <1>1, <1>2, <1>3, <1>4 DEF Next

\* For every capacity and whatever the loop and the kernel do, both queues are
\* first-in-first-out channels of at most IPC_QUEUE_SIZE messages.
LEMMA QueuesAreFifos == Spec => KernelToDaemonIsFifo /\ DaemonToKernelIsFifo
<1>1. Init => KernelToDaemon!Init /\ DaemonToKernel!Init
  BY ZeroIsMessage, EmptyQueueIsQueue DEF Init, KernelToDaemon!Init, DaemonToKernel!Init
<1>2. ASSUME TypeOK, [Next]_vars
      PROVE  [KernelToDaemon!Enqueue \/ KernelToDaemon!Dequeue]_(Contents(kernel_to_daemon))
  <2>1. CASE KernelPost
    <3>1. PICK r \in Requests :
            /\ kernel_to_daemon' = AfterSend(kernel_to_daemon, RequestOf(r, Len(asked) + 1))
            /\ RequestOf(r, Len(asked) + 1) \in Message
      BY <1>2, <2>1, Post
    <3>2. IsQueue(kernel_to_daemon, Message) /\ ~ipc_queue_full(kernel_to_daemon)
      BY <1>2, <2>1 DEF KernelPost, TypeOK
    <3>3. KernelToDaemon!Enqueue
      BY ONLY <3>1, <3>2, SendIsEnqueue DEF KernelToDaemon!Enqueue
    <3>4. QED  BY ONLY <3>3
  <2>2. CASE ReceiveRequest
    BY <1>2, <2>2, ReceiveTakesHead DEF ReceiveRequest, TypeOK, KernelToDaemon!Dequeue
  <2>3. CASE UNCHANGED kernel_to_daemon
    BY <2>3
  <2>4. QED  BY <1>2, <2>1, <2>2, <2>3, QueueSteps
<1>3. ASSUME TypeOK, [Next]_vars
      PROVE  [DaemonToKernel!Enqueue \/ DaemonToKernel!Dequeue]_(Contents(daemon_to_kernel))
  <2>1. CASE SendResponse
    BY <1>3, <2>1, SendIsEnqueue DEF SendResponse, TypeOK, DaemonToKernel!Enqueue
  <2>2. CASE KernelTake
    BY <1>3, <2>2, ReceiveTakesHead DEF KernelTake, TypeOK, DaemonToKernel!Dequeue
  <2>3. CASE UNCHANGED daemon_to_kernel
    BY <2>3
  <2>4. QED  BY <1>3, <2>1, <2>2, <2>3, QueueSteps
<1>4. QED
  BY <1>1, <1>2, <1>3, TypeCorrect, PTL
   DEF Spec, KernelToDaemonIsFifo, DaemonToKernelIsFifo, KernelToDaemon!Spec, DaemonToKernel!Spec

\* Requests: whatever the capacity, each is received once and in the order posted.
THEOREM RequestsAreFifo == Spec => KernelToDaemonIsFifo
BY QueuesAreFifos, PTL

\* Answers: whatever the capacity, each is taken once and in the order sent.
THEOREM AnswersAreFifo == Spec => DaemonToKernelIsFifo
BY QueuesAreFifos, PTL

-----------------------------------------------------------------------------
(* Shutdown.                                                               *)

\* A SHUTDOWN in the buffer is still to be handled, or the flag is down.
ShutdownInv ==
  /\ pc = "start" => request.type # "SHUTDOWN"
  /\ request.type = "SHUTDOWN" => pc = "process" \/ ~g_daemon_running

\* Once a SHUTDOWN is in the request buffer the loop receives nothing.
LEMMA ShutdownStep ==
  ASSUME TypeOK, ShutdownInv, [Next]_vars
  PROVE  /\ ShutdownInv'
         /\ request.type = "SHUTDOWN" => request' = request
<1> USE DEF ShutdownInv, At
<1>1. CASE StartLoop
  BY <1>1 DEF StartLoop
<1>2. CASE ReceiveRequest
  BY <1>2 DEF ReceiveRequest, LoopGoesOn
<1>3. CASE LoopEnds \/ NothingToReceive
  BY <1>3 DEF LoopEnds, NothingToReceive
<1>4. CASE ResetSystem
  BY <1>4 DEF ResetSystem, loop
<1>5. CASE Handled
  BY <1>5 DEF Handled
<1>6. CASE SendResponse \/ ResponseLost \/ CountSent \/ CountLost \/ ResponseDropped \/ Account
  BY <1>6 DEF SendResponse, ResponseLost, CountSent, CountLost, ResponseDropped, Account
<1>7. CASE KernelPost \/ KernelTake
  BY <1>7 DEF KernelPost, KernelTake, loop
<1>8. CASE UNCHANGED vars
  BY <1>8 DEF vars, loop
<1>9. QED
  BY HandlerAnswers, <1>1, <1>2, <1>3, <1>4, <1>5, <1>6, <1>7, <1>8 DEF Next, DaemonStep

\* No request is taken off the queue once a SHUTDOWN has been.
THEOREM ShutdownFinal == Spec => ShutdownIsFinal
<1>1. Init => ShutdownInv
  BY DEF Init, ShutdownInv, Zero
<1>2. TypeOK /\ ShutdownInv /\ [Next]_vars => ShutdownInv'
  BY ShutdownStep
<1>3. TypeOK /\ ShutdownInv /\ [Next]_vars => [request.type = "SHUTDOWN" => request' = request]_vars
  BY ShutdownStep
<1>4. QED  BY <1>1, <1>2, <1>3, TypeCorrect, PTL DEF Spec, ShutdownIsFinal

-----------------------------------------------------------------------------
(* Where every request is on its way.                                      *)

\* m is the request numbered n.
IsRequest(m, n, posts) ==
  /\ n \in DOMAIN posts
  /\ m.sequence = n /\ m.type = posts[n].type /\ m.source = posts[n].source
  /\ m.size = posts[n].size

\* a is an answer to the request its sequence number names.
IsAnswer(a, posts) ==
  /\ a.sequence \in DOMAIN posts
  /\ Served(posts[a.sequence])
  /\ a.type = posts[a.sequence].type
  /\ a.type # "SHUTDOWN" => a.source = DaemonPid /\ a.target = posts[a.sequence].source
  /\ DataIsSound(a)

\* The requests that wait are the last ones posted, in order.
RequestsPlaced ==
  \A k \in 1 .. kernel_to_daemon.count :
    IsRequest(Contents(kernel_to_daemon)[k], Received + k, asked)

\* The loop's buffers: the request is the last one received, and the response
\* of a handler that succeeded is its answer.
BuffersPlaced ==
  /\ Unbooked => IsRequest(request, Received, asked)
  /\ pc = "send" => (status = "BOOT_SUCCESS" <=> Served(request))
  /\ pc = "send" /\ Served(request) => Answers(response, request)

\* How many requests have left the daemon, answered or not.
Answered == IF InHand THEN messages_received ELSE Received

\* The answers that wait are answers, in order, to requests that have left the
\* daemon, behind the ones taken.
AnswersPlaced ==
  /\ lastTaken <= Answered
  /\ \A k \in 1 .. daemon_to_kernel.count :
       /\ IsAnswer(Contents(daemon_to_kernel)[k], asked)
       /\ lastTaken < Contents(daemon_to_kernel)[k].sequence
       /\ Contents(daemon_to_kernel)[k].sequence <= Answered
  /\ \A i, j \in 1 .. daemon_to_kernel.count :
       i < j => Contents(daemon_to_kernel)[i].sequence < Contents(daemon_to_kernel)[j].sequence

PlaceInv == RequestsPlaced /\ BuffersPlaced /\ AnswersPlaced

\* Places on the round trip are numbers.
LEMMA PositionsAreNumbers ==
  ASSUME TypeOK
  PROVE  /\ Received \in Nat /\ Answered \in Nat /\ Answered <= Received
         /\ Unbooked => Received = messages_received + 1
BY CountsAreNumbers DEF Received, Answered, Unbooked, InHand

\* How a step moves them, and what else may tell the requests apart.
LEMMA Moves ==
  ASSUME TypeOK, [Next]_vars
  PROVE  /\ ReceiveRequest => /\ Received' = Received + 1 /\ Answered' = Answered
                              /\ asked' = asked /\ daemon_to_kernel' = daemon_to_kernel
                              /\ lastTaken' = lastTaken
         /\ ~ReceiveRequest => Received' = Received
         /\ Answered <= Answered' /\ Answered' \in Nat
         /\ KernelPost \/ asked' = asked
         /\ KernelTake \/ lastTaken' = lastTaken
         /\ SendResponse \/ ResponseLost \/ ResponseDropped =>
              Answered + 1 = Received /\ Answered' = Received /\ Unbooked
         /\ \/ SendResponse \/ ResponseLost \/ ResponseDropped
            \/ /\ Answered' = Answered
               /\ Published' = Published /\ lost' = lost
<1> USE DEF Received, Answered, Unbooked, InHand, Published, Uncounted, At, queues, stats, kernel
<1>0. messages_received \in Nat
  BY CountsAreNumbers
<1>1. CASE StartLoop
  BY <1>0, <1>1 DEF StartLoop, ReceiveRequest, SendResponse, ResponseLost, ResponseDropped
<1>2. CASE ReceiveRequest
  BY <1>0, <1>2 DEF ReceiveRequest, SendResponse, ResponseLost, ResponseDropped
<1>3. CASE LoopEnds \/ NothingToReceive
  BY <1>0, <1>3 DEF LoopEnds, NothingToReceive, ReceiveRequest, SendResponse, ResponseLost, ResponseDropped
<1>4. CASE ResetSystem
  BY <1>0, <1>4 DEF ResetSystem, Handling, loop, ReceiveRequest, SendResponse, ResponseLost, ResponseDropped
<1>5. CASE Handled
  BY <1>0, <1>5 DEF Handled, ReceiveRequest, SendResponse, ResponseLost, ResponseDropped
<1>6. CASE SendResponse
  BY <1>0, <1>6 DEF SendResponse, ReceiveRequest, ResponseLost, ResponseDropped
<1>7. CASE ResponseLost \/ ResponseDropped
  BY <1>0, <1>7 DEF ResponseLost, ResponseDropped, ReceiveRequest, SendResponse
<1>8. CASE CountSent \/ CountLost \/ Account
  BY <1>0, <1>8
   DEF CountSent, CountLost, Account, ReceiveRequest, SendResponse, ResponseLost, ResponseDropped
<1>9. CASE KernelPost
  BY <1>0, <1>9 DEF KernelPost, loop, ReceiveRequest, SendResponse, ResponseLost, ResponseDropped
<1>10. CASE KernelTake
  BY <1>0, <1>10 DEF KernelTake, loop, ReceiveRequest, SendResponse, ResponseLost, ResponseDropped
<1>11. CASE UNCHANGED vars
  BY <1>0, <1>11 DEF vars, loop, ReceiveRequest, SendResponse, ResponseLost, ResponseDropped
<1>12. QED
  BY HandlerAnswers, <1>1, <1>2, <1>3, <1>4, <1>5, <1>6, <1>7, <1>8, <1>9, <1>10, <1>11
   DEF Next, DaemonStep

\* Requests and answers stay what they are when more is asked.
LEMMA AskingKeepsMessages ==
  ASSUME TypeOK, [Next]_vars
  PROVE  /\ \A m, n : IsRequest(m, n, asked) => IsRequest(m, n, asked')
         /\ \A a : IsAnswer(a, asked) => IsAnswer(a, asked')
<1>1. CASE asked' = asked
  BY <1>1 DEF IsRequest, IsAnswer
<1>2. CASE KernelPost
  <2>1. DOMAIN asked = 1 .. Len(asked) /\ DOMAIN asked' = 1 .. Len(asked')
    BY <1>2, Post, LenProperties DEF TypeOK
  <2>2. \A n \in DOMAIN asked : n \in DOMAIN asked' /\ asked'[n] = asked[n]
    <3>1. /\ Len(asked) \in Nat /\ Len(asked') = Len(asked) + 1
          /\ \A n \in 1 .. Len(asked) : asked'[n] = asked[n]
      BY <1>2, Post
    <3>2. \A n \in 1 .. Len(asked) : n \in 1 .. Len(asked')
      BY <3>1
    <3>3. QED  BY <2>1, <3>1, <3>2
  <2>3. QED  BY <2>2 DEF IsRequest, IsAnswer
<1>3. QED  BY <1>1, <1>2, Moves

\* Every step keeps each waiting request at its place.
LEMMA RequestsPlacedStep ==
  ASSUME TypeOK, AccountsBalance, RequestsPlaced, [Next]_vars
  PROVE  RequestsPlaced'
<1>0. IsQueue(kernel_to_daemon, Message)
  BY DEF TypeOK
<1>1. CASE ReceiveRequest
  <2>1. ~ipc_queue_empty(kernel_to_daemon) /\ kernel_to_daemon' = AfterReceive(kernel_to_daemon)
    BY <1>1 DEF ReceiveRequest
  <2>2. SUFFICES ASSUME NEW k \in 1 .. kernel_to_daemon'.count
                 PROVE  IsRequest(Contents(kernel_to_daemon')[k], Received' + k, asked')
    BY DEF RequestsPlaced
  <2>3. /\ k + 1 \in 1 .. kernel_to_daemon.count
        /\ Contents(kernel_to_daemon')[k] = Contents(kernel_to_daemon)[k + 1]
    BY <1>0, <2>1, MessagesAfterReceive
  <2>4. IsRequest(Contents(kernel_to_daemon)[k + 1], Received + (k + 1), asked)
    BY <2>3 DEF RequestsPlaced
  <2>5. k \in Nat /\ Received \in Nat /\ Received' = Received + 1 /\ asked' = asked
    BY <1>0, <1>1, <2>1, ReceiveTakesHead, PositionsAreNumbers, Moves
  <2>6. Received' + k = Received + (k + 1)
    BY <2>5
  <2>7. QED  BY <2>3, <2>4, <2>5, <2>6
<1>2. CASE KernelPost
  <2>1. PICK r \in Requests :
          /\ kernel_to_daemon' = AfterSend(kernel_to_daemon, RequestOf(r, Len(asked) + 1))
          /\ RequestOf(r, Len(asked) + 1) \in Message
          /\ asked' \in Seq(Requests) /\ Len(asked') = Len(asked) + 1
          /\ Len(asked) \in Nat
          /\ asked'[Len(asked) + 1] = r
    BY <1>2, Post
  <2>2. ~ipc_queue_full(kernel_to_daemon)
    BY <1>2 DEF KernelPost
  <2>3. /\ kernel_to_daemon.count \in Nat /\ kernel_to_daemon'.count = kernel_to_daemon.count + 1
        /\ Received \in Nat /\ Received' = Received
        /\ Len(asked) = kernel_to_daemon.count + Received
    <3>1. ~ReceiveRequest
      BY <1>2 DEF KernelPost, ReceiveRequest, loop, At
    <3>2. kernel_to_daemon'.count = kernel_to_daemon.count + 1
      BY <1>0, <2>1, <2>2, SendAppends
    <3>3. QED
      BY <3>1, <3>2, CountsAreNumbers, PositionsAreNumbers, Moves DEF AccountsBalance
  <2>4. SUFFICES ASSUME NEW k \in 1 .. kernel_to_daemon'.count
                 PROVE  IsRequest(Contents(kernel_to_daemon')[k], Received' + k, asked')
    BY DEF RequestsPlaced
  <2>5. Contents(kernel_to_daemon')[k]
          = IF k <= kernel_to_daemon.count THEN Contents(kernel_to_daemon)[k]
            ELSE RequestOf(r, Len(asked) + 1)
    BY <1>0, <2>1, <2>2, MessagesAfterSend
  <2>6. CASE k <= kernel_to_daemon.count
    <3>1. IsRequest(Contents(kernel_to_daemon)[k], Received + k, asked)
      BY <2>3, <2>6 DEF RequestsPlaced
    <3>2. IsRequest(Contents(kernel_to_daemon)[k], Received + k, asked')
      BY <3>1, AskingKeepsMessages
    <3>3. QED  BY <2>3, <2>5, <2>6, <3>2
  <2>7. CASE k > kernel_to_daemon.count
    <3>1. k = kernel_to_daemon.count + 1
      BY <2>3, <2>7
    <3>2. Received' + k = Len(asked) + 1
      BY <2>1, <2>3, <3>1
    <3>3. Contents(kernel_to_daemon')[k] = RequestOf(r, Len(asked) + 1)
      BY <2>3, <2>5, <2>7
    <3>4. Len(asked) + 1 \in DOMAIN asked'
      BY <2>1, LenProperties
    <3>5. IsRequest(RequestOf(r, Len(asked) + 1), Len(asked) + 1, asked')
      BY <2>1, <3>4, RequestIsMessage DEF IsRequest
    <3>6. QED  BY <3>2, <3>3, <3>5
  <2>8. QED  BY <2>3, <2>6, <2>7
<1>3. CASE UNCHANGED kernel_to_daemon /\ ~ReceiveRequest
  <2>1. Received' = Received /\ UNCHANGED kernel_to_daemon
    BY <1>3, Moves
  <2>2. QED  BY <2>1, AskingKeepsMessages DEF RequestsPlaced
<1>4. QED  BY <1>1, <1>2, <1>3, QueueSteps

\* Every step keeps the buffers those of the last request received.
LEMMA BuffersPlacedStep ==
  ASSUME TypeOK, RequestsPlaced, BuffersPlaced, [Next]_vars
  PROVE  BuffersPlaced'
<1> USE DEF At, Unbooked
<1>0. Received' = Received \/ ReceiveRequest
  BY Moves
<1>1. CASE ReceiveRequest
  <2>1. ~ipc_queue_empty(kernel_to_daemon) /\ IsQueue(kernel_to_daemon, Message)
        /\ request' = Front(kernel_to_daemon) /\ pc' = "process"
    BY <1>1 DEF ReceiveRequest, TypeOK
  <2>2. request' = Contents(kernel_to_daemon)[1] /\ 1 \in 1 .. kernel_to_daemon.count
    <3>1. Front(kernel_to_daemon) = Contents(kernel_to_daemon)[1]
      BY <2>1, MessagesAfterReceive
    <3>2. kernel_to_daemon.count \in 1 .. IPC_QUEUE_SIZE
      BY <2>1, ReceiveTakesHead
    <3>3. QED  BY <2>1, <3>1, <3>2
  <2>3. IsRequest(request', Received + 1, asked)
    BY <2>2 DEF RequestsPlaced
  <2>4. Received' = Received + 1 /\ asked' = asked
    BY <1>1, Moves
  <2>5. QED  BY <2>1, <2>3, <2>4 DEF BuffersPlaced
<1>2. CASE Handled
  BY <1>0, <1>2 DEF Handled, BuffersPlaced, kernel, ReceiveRequest
<1>3. CASE DaemonStep /\ pc' # "send" /\ ~ReceiveRequest
  <2>1. UNCHANGED <<request, asked>> \/ Handled
    BY <1>3, HandlerAnswers
     DEF DaemonStep, StartLoop, LoopEnds, NothingToReceive, ResetSystem, SendResponse,
         ResponseLost, CountSent, CountLost, ResponseDropped, Account, loop, kernel
  <2>2. Unbooked' => Unbooked
    BY <1>3, HandlerAnswers
     DEF DaemonStep, StartLoop, LoopEnds, NothingToReceive, ResetSystem, Handled, SendResponse,
         ResponseLost, CountSent, CountLost, ResponseDropped, Account, loop
  <2>3. QED  BY <1>0, <1>2, <1>3, <2>1, <2>2 DEF BuffersPlaced
<1>4. CASE ~DaemonStep
  <2>1. UNCHANGED <<request, response, status, pc>>
    BY <1>4 DEF Next, vars, KernelPost, KernelTake, loop
  <2>2. Received' = Received
    BY <1>0, <1>4 DEF DaemonStep
  <2>3. QED  BY <2>1, <2>2, AskingKeepsMessages DEF BuffersPlaced
<1>5. pc' = "send" => Handled \/ ~DaemonStep \/ ReceiveRequest
  BY HandlerAnswers
   DEF DaemonStep, StartLoop, LoopEnds, NothingToReceive, ResetSystem, Handling, SendResponse,
       ResponseLost, CountSent, CountLost, ResponseDropped, Account, loop
<1>6. QED  BY <1>1, <1>2, <1>3, <1>4, <1>5

\* Every step keeps each answer that of the post it names, in their order.
LEMMA AnswersPlacedStep ==
  ASSUME TypeOK, BuffersPlaced, AnswersPlaced, [Next]_vars
  PROVE  AnswersPlaced'
<1>0. /\ IsQueue(daemon_to_kernel, Message) /\ daemon_to_kernel.count \in Nat
      /\ lastTaken \in Nat /\ Answered \in Nat /\ Received \in Nat
      /\ \A k \in 1 .. daemon_to_kernel.count : Contents(daemon_to_kernel)[k].sequence \in Nat
  <2>1. /\ daemon_to_kernel.count \in Nat /\ lastTaken \in Nat
        /\ Answered \in Nat /\ Received \in Nat
    BY CountsAreNumbers, PositionsAreNumbers
  <2>2. \A k \in 1 .. daemon_to_kernel.count : Contents(daemon_to_kernel)[k] \in Message
    BY ContentsIsSeq, ElementOfSeq DEF TypeOK
  <2>3. QED  BY <2>1, <2>2 DEF TypeOK, Message
<1>1. CASE SendResponse
  <2>1. /\ daemon_to_kernel' = AfterSend(daemon_to_kernel, response)
        /\ ~ipc_queue_full(daemon_to_kernel) /\ response \in Message
        /\ pc = "send" /\ status = "BOOT_SUCCESS" /\ asked' = asked /\ lastTaken' = lastTaken
    BY <1>1 DEF SendResponse, At, TypeOK, kernel
  <2>2. /\ Answered + 1 = Received /\ Answered' = Received /\ Unbooked
    BY <1>1, Moves
  <2>3. IsAnswer(response, asked) /\ response.sequence = Received
    BY <2>1, <2>2 DEF BuffersPlaced, IsRequest, IsAnswer, Answers, Served
  <2>4. /\ daemon_to_kernel'.count = daemon_to_kernel.count + 1
        /\ \A k \in 1 .. daemon_to_kernel'.count :
             Contents(daemon_to_kernel')[k]
               = IF k <= daemon_to_kernel.count THEN Contents(daemon_to_kernel)[k] ELSE response
    BY <1>0, <2>1, SendAppends, MessagesAfterSend
  <2>5. \A k \in 1 .. daemon_to_kernel'.count :
          /\ IsAnswer(Contents(daemon_to_kernel')[k], asked')
          /\ lastTaken' < Contents(daemon_to_kernel')[k].sequence
          /\ Contents(daemon_to_kernel')[k].sequence <= Answered'
    BY <1>0, <2>1, <2>2, <2>3, <2>4 DEF AnswersPlaced
  <2>6. ASSUME NEW i \in 1 .. daemon_to_kernel'.count, NEW j \in 1 .. daemon_to_kernel'.count,
               i < j
        PROVE  Contents(daemon_to_kernel')[i].sequence < Contents(daemon_to_kernel')[j].sequence
    <3>1. i \in 1 .. daemon_to_kernel.count
          /\ Contents(daemon_to_kernel')[i] = Contents(daemon_to_kernel)[i]
      BY <1>0, <2>4, <2>6
    <3>2. CASE j \in 1 .. daemon_to_kernel.count
      BY <1>0, <2>4, <2>6, <3>1, <3>2 DEF AnswersPlaced
    <3>3. CASE j \notin 1 .. daemon_to_kernel.count
      <4>1. Contents(daemon_to_kernel')[j] = response
        BY <1>0, <2>4, <3>3
      <4>2. Contents(daemon_to_kernel)[i].sequence <= Answered
        BY <3>1 DEF AnswersPlaced
      <4>3. QED  BY <1>0, <2>2, <2>3, <3>1, <4>1, <4>2
    <3>4. QED  BY <3>2, <3>3
  <2>7. lastTaken' <= Answered'
    BY <1>0, <2>1, <2>2 DEF AnswersPlaced
  <2>8. QED  BY <2>5, <2>6, <2>7 DEF AnswersPlaced
<1>2. CASE KernelTake
  <2>1. /\ daemon_to_kernel' = AfterReceive(daemon_to_kernel)
        /\ ~ipc_queue_empty(daemon_to_kernel)
        /\ lastTaken' = Front(daemon_to_kernel).sequence
        /\ asked' = asked /\ ~ReceiveRequest
    BY <1>2 DEF KernelTake, ReceiveRequest, At, loop
  <2>2. /\ daemon_to_kernel.count \in 1 .. IPC_QUEUE_SIZE
        /\ daemon_to_kernel'.count = daemon_to_kernel.count - 1
    BY <1>0, <2>1, ReceiveTakesHead
  <2>3. /\ lastTaken' = Contents(daemon_to_kernel)[1].sequence
        /\ \A k \in 1 .. daemon_to_kernel'.count :
             /\ k + 1 \in 1 .. daemon_to_kernel.count
             /\ Contents(daemon_to_kernel')[k] = Contents(daemon_to_kernel)[k + 1]
    BY <1>0, <2>1, MessagesAfterReceive
  <2>4. Answered <= Answered' /\ Answered' \in Nat
    <3>1. Answered' = Answered
      BY <1>2 DEF KernelTake, Answered, Received, Unbooked, InHand, stats, loop
    <3>2. QED  BY <1>0, <3>1
  <2>5. 1 \in 1 .. daemon_to_kernel.count
    BY <2>2
  <2>6. lastTaken' <= Answered'
    BY <1>0, <2>3, <2>4, <2>5 DEF AnswersPlaced
  <2>7. ASSUME NEW k \in 1 .. daemon_to_kernel'.count
        PROVE  /\ IsAnswer(Contents(daemon_to_kernel')[k], asked')
               /\ lastTaken' < Contents(daemon_to_kernel')[k].sequence
               /\ Contents(daemon_to_kernel')[k].sequence <= Answered'
    <3>1. k + 1 \in 1 .. daemon_to_kernel.count /\ 1 < k + 1
      BY <2>2, <2>3
    <3>2. QED  BY <1>0, <2>1, <2>3, <2>4, <2>5, <3>1 DEF AnswersPlaced
  <2>8. ASSUME NEW i \in 1 .. daemon_to_kernel'.count, NEW j \in 1 .. daemon_to_kernel'.count,
               i < j
        PROVE  Contents(daemon_to_kernel')[i].sequence < Contents(daemon_to_kernel')[j].sequence
    <3>1. /\ i + 1 \in 1 .. daemon_to_kernel.count /\ j + 1 \in 1 .. daemon_to_kernel.count
          /\ i + 1 < j + 1
      BY <2>2, <2>3, <2>8
    <3>2. QED  BY <2>3, <3>1 DEF AnswersPlaced
  <2>9. QED  BY <2>6, <2>7, <2>8 DEF AnswersPlaced
<1>3. CASE UNCHANGED <<daemon_to_kernel, lastTaken>>
  <2>1. Answered <= Answered' /\ Answered' \in Nat
    BY Moves
  <2>2. QED  BY <1>0, <1>3, <2>1, AskingKeepsMessages DEF AnswersPlaced
<1>4. QED  BY <1>1, <1>2, <1>3, QueueSteps, Moves

\* At first nothing is on its way.
LEMMA PlacesInit == Init => PlaceInv
<1> SUFFICES ASSUME Init  PROVE PlaceInv
  OBVIOUS
<1>1. kernel_to_daemon.count = 0 /\ daemon_to_kernel.count = 0
  BY ZeroIsMessage, EmptyQueueIsQueue DEF Init
<1>2. RequestsPlaced
  BY <1>1 DEF RequestsPlaced
<1>3. Answered = 0 /\ pc = "start" /\ lastTaken = 0
  BY DEF Init, Answered, Received, InHand, Unbooked
<1>4. BuffersPlaced
  BY <1>3 DEF BuffersPlaced, Unbooked
<1>5. AnswersPlaced
  BY <1>1, <1>3 DEF AnswersPlaced
<1>6. QED  BY <1>2, <1>4, <1>5 DEF PlaceInv

\* The places, throughout.
LEMMA PlacesHold == Spec => []PlaceInv
<1>1. TypeOK /\ AccountsBalance /\ PlaceInv /\ [Next]_vars => PlaceInv'
  BY RequestsPlacedStep, BuffersPlacedStep, AnswersPlacedStep DEF PlaceInv
<1>2. QED  BY <1>1, PlacesInit, TypeCorrect, AccountsHold, PTL DEF Spec

\* Every answer that waits is one to a request the daemon serves, addressed to
\* who asked.
THEOREM AnswersMatch == Spec => []AnswersMatchRequests
<1>1. PlaceInv => AnswersMatchRequests
  BY DEF PlaceInv, AnswersPlaced, IsAnswer, AnswersMatchRequests
<1>2. QED  BY <1>1, PlacesHold, PTL

\* No answer claims more data than there is, none without an error carries
\* what the stack held.
THEOREM AnswerDataSound == Spec => []AnswerDataIsSound
<1>1. PlaceInv => AnswerDataIsSound
  BY DEF PlaceInv, AnswersPlaced, IsAnswer, DataIsSound, AnswerDataIsSound
<1>2. QED  BY <1>1, PlacesHold, PTL

-----------------------------------------------------------------------------
(* The order of the round trip.                                            *)

\* s grows strictly, between low and high.
Rising(s, low, high) ==
  /\ s \in Seq(Nat)
  /\ \A i \in 1 .. Len(s) : low <= s[i] /\ s[i] <= high
  /\ \A i, j \in 1 .. Len(s) : i < j => s[i] < s[j]

\* Two rising sequences one above the other rise as one.
LEMMA RisingConcat ==
  ASSUME NEW s, NEW t, NEW a \in Nat, NEW b \in Nat, NEW c \in Nat,
         a <= b + 1, b <= c, Rising(s, a, b), Rising(t, b + 1, c)
  PROVE  Rising(s \o t, a, c)
<1> DEFINE m == Len(s)
           n == Len(t)
           st == s \o t
<1>1. /\ s \in Seq(Nat) /\ t \in Seq(Nat) /\ m \in Nat /\ n \in Nat
      /\ st \in Seq(Nat) /\ Len(st) = m + n
      /\ \A i \in 1 .. m + n : st[i] = IF i <= m THEN s[i] ELSE t[i - m]
  BY ConcatProperties DEF Rising
<1>2. /\ \A i \in 1 .. m : s[i] \in Nat /\ a <= s[i] /\ s[i] <= b
      /\ \A i, j \in 1 .. m : i < j => s[i] < s[j]
      /\ \A i \in 1 .. n : t[i] \in Nat /\ b + 1 <= t[i] /\ t[i] <= c
      /\ \A i, j \in 1 .. n : i < j => t[i] < t[j]
  BY <1>1, ElementOfSeq DEF Rising
<1> HIDE DEF m, n, st
<1>3. ASSUME NEW i \in 1 .. m + n
      PROVE  a <= st[i] /\ st[i] <= c
  <2>1. CASE i <= m
    <3>1. i \in 1 .. m /\ st[i] = s[i]
      BY <1>1, <2>1
    <3>2. s[i] \in Nat /\ a <= s[i] /\ s[i] <= b
      BY <1>2, <3>1
    <3>3. QED  BY <3>1, <3>2
  <2>2. CASE i > m
    <3>1. i - m \in 1 .. n /\ st[i] = t[i - m]
      BY <1>1, <2>2
    <3>2. t[i - m] \in Nat /\ b + 1 <= t[i - m] /\ t[i - m] <= c
      BY <1>2, <3>1
    <3>3. QED  BY <3>1, <3>2
  <2>3. QED  BY <1>1, <2>1, <2>2
<1>4. ASSUME NEW i \in 1 .. m + n, NEW j \in 1 .. m + n, i < j
      PROVE  st[i] < st[j]
  <2>1. CASE j <= m
    <3>1. i \in 1 .. m /\ j \in 1 .. m /\ st[i] = s[i] /\ st[j] = s[j]
      BY <1>1, <1>4, <2>1
    <3>2. s[i] < s[j]
      BY <1>2, <1>4, <3>1
    <3>3. QED  BY <3>1, <3>2
  <2>2. CASE i <= m /\ j > m
    <3>1. i \in 1 .. m /\ j - m \in 1 .. n
      BY <1>1, <2>2
    <3>2. st[i] = s[i] /\ st[j] = t[j - m]
      <4>1. i <= m /\ ~(j <= m)
        BY <1>1, <2>2
      <4>2. QED  BY ONLY <1>1, <4>1, i \in 1 .. m + n, j \in 1 .. m + n
    <3>3. s[i] \in Nat /\ s[i] <= b /\ t[j - m] \in Nat /\ b + 1 <= t[j - m]
      BY <1>2, <3>1
    <3>4. QED  BY <3>2, <3>3
  <2>3. CASE i > m
    <3>1. i - m \in 1 .. n /\ j - m \in 1 .. n /\ i - m < j - m
      BY <1>1, <1>4, <2>3
    <3>2. st[i] = t[i - m] /\ st[j] = t[j - m]
      <4>1. ~(i <= m) /\ ~(j <= m)
        BY <1>1, <1>4, <2>3
      <4>2. QED  BY ONLY <1>1, <4>1, i \in 1 .. m + n, j \in 1 .. m + n
    <3>3. t[i - m] < t[j - m]
      BY <1>2, <3>1
    <3>4. QED  BY <3>2, <3>3
  <2>4. QED  BY <1>1, <2>1, <2>2, <2>3
<1>5. QED  BY <1>1, <1>3, <1>4 DEF Rising, st

\* The sequence numbers along the round trip are numbers.
LEMMA SequencesAreNumbers ==
  ASSUME NEW q, IsQueue(q, Message)
  PROVE  /\ SequencesOf(Contents(q)) \in Seq(Nat)
         /\ Len(SequencesOf(Contents(q))) = q.count /\ q.count \in Nat
         /\ \A k \in 1 .. q.count : SequencesOf(Contents(q))[k] = Contents(q)[k].sequence
<1>1. /\ Contents(q) \in Seq(Message) /\ DOMAIN Contents(q) = 1 .. q.count /\ q.count \in Nat
      /\ \A k \in 1 .. q.count : Contents(q)[k] \in Message
  BY ContentsIsSeq, LenProperties, ElementOfSeq
<1>2. \A k \in 1 .. q.count :
        /\ SequencesOf(Contents(q))[k] = Contents(q)[k].sequence
        /\ Contents(q)[k].sequence \in Nat
  BY <1>1 DEF SequencesOf, Message
<1>3. SequencesOf(Contents(q)) \in [1 .. q.count -> Nat]
  BY <1>1, <1>2 DEF SequencesOf
<1>4. QED  BY <1>1, <1>2, <1>3

\* With everything at its place the numbers along the round trip rise.
LEMMA RoundTripRises ==
  ASSUME TypeOK, AccountsBalance, PlaceInv
  PROVE  Rising(RoundTrip, 0, Len(asked))
<1> DEFINE inHand == IF InHand THEN <<request.sequence>> ELSE <<>>
           replies == SequencesOf(Contents(daemon_to_kernel))
           waiting == SequencesOf(Contents(kernel_to_daemon))
<1>0. /\ lastTaken \in Nat /\ Answered \in Nat /\ Received \in Nat /\ Len(asked) \in Nat
      /\ lastTaken <= Answered /\ Answered <= Received /\ Received <= Len(asked)
      /\ Len(asked) = kernel_to_daemon.count + Received /\ kernel_to_daemon.count \in Nat
  <2> DEFINE posted == Len(asked)
  <2>1. /\ lastTaken \in Nat /\ kernel_to_daemon.count \in Nat /\ posted \in Nat
        /\ Answered \in Nat /\ Received \in Nat /\ Answered <= Received
    BY CountsAreNumbers, PositionsAreNumbers
  <2>2. lastTaken <= Answered
    BY DEF PlaceInv, AnswersPlaced
  <2>3. posted = kernel_to_daemon.count + Received
    BY DEF AccountsBalance
  <2> HIDE DEF posted
  <2>4. Received <= posted
    BY <2>1, <2>3
  <2>5. QED  BY <2>1, <2>2, <2>3, <2>4 DEF posted
<1>1. Rising(<<lastTaken>>, 0, lastTaken)
  BY <1>0 DEF Rising
<1>2. Rising(replies, lastTaken + 1, Answered)
  <2>1. /\ replies \in Seq(Nat) /\ Len(replies) = daemon_to_kernel.count
        /\ \A k \in 1 .. daemon_to_kernel.count :
             replies[k] \in Nat /\ replies[k] = Contents(daemon_to_kernel)[k].sequence
    BY SequencesAreNumbers, ElementOfSeq DEF TypeOK
  <2> HIDE DEF replies
  <2>2. \A k \in 1 .. daemon_to_kernel.count : lastTaken < replies[k] /\ replies[k] <= Answered
    BY <2>1 DEF PlaceInv, AnswersPlaced
  <2>3. \A k \in 1 .. daemon_to_kernel.count : lastTaken + 1 <= replies[k]
    BY <1>0, <2>1, <2>2
  <2>4. \A i, j \in 1 .. daemon_to_kernel.count : i < j => replies[i] < replies[j]
    BY <2>1 DEF PlaceInv, AnswersPlaced
  <2>5. QED  BY <2>1, <2>2, <2>3, <2>4 DEF Rising
<1>3. Rising(inHand, Answered + 1, Received)
  <2>1. CASE InHand
    <3>1. Received = Answered + 1 /\ request.sequence = Received
      BY <2>1, CountsAreNumbers
       DEF InHand, Unbooked, Received, Answered, PlaceInv, BuffersPlaced, IsRequest
    <3>2. QED  BY <1>0, <2>1, <3>1 DEF Rising
  <2>2. CASE ~InHand
    BY <2>2 DEF Rising
  <2>3. QED  BY <2>1, <2>2
<1>4. Rising(waiting, Received + 1, Len(asked))
  <2>1. /\ waiting \in Seq(Nat) /\ Len(waiting) = kernel_to_daemon.count
        /\ \A k \in 1 .. kernel_to_daemon.count :
             waiting[k] = Contents(kernel_to_daemon)[k].sequence
    BY SequencesAreNumbers DEF TypeOK
  <2> HIDE DEF waiting
  <2>2. \A k \in 1 .. kernel_to_daemon.count : waiting[k] = Received + k
    BY <2>1 DEF PlaceInv, RequestsPlaced, IsRequest
  <2> DEFINE posted == Len(asked)
  <2>3. posted \in Nat /\ posted = kernel_to_daemon.count + Received
    BY <1>0
  <2> HIDE DEF posted
  <2>4. \A k \in 1 .. kernel_to_daemon.count : Received + 1 <= waiting[k] /\ waiting[k] <= posted
    BY <1>0, <2>2, <2>3
  <2>5. \A i, j \in 1 .. kernel_to_daemon.count : i < j => waiting[i] < waiting[j]
    BY <1>0, <2>2
  <2>6. QED  BY <2>1, <2>4, <2>5 DEF Rising, posted
<1> HIDE DEF inHand, replies, waiting
<1>5. Rising(<<lastTaken>> \o replies, 0, Answered)
  BY <1>0, <1>1, <1>2, RisingConcat
<1>6. Rising((<<lastTaken>> \o replies) \o inHand, 0, Received)
  BY <1>0, <1>3, <1>5, RisingConcat
<1>7. Rising(((<<lastTaken>> \o replies) \o inHand) \o waiting, 0, Len(asked))
  BY <1>0, <1>4, <1>6, RisingConcat
<1>8. QED  BY <1>7 DEF RoundTrip, inHand, replies, waiting

\* From the kernel through both queues and back no request is overtaken,
\* repeated or answered twice, for every capacity, limit and set of requests.
THEOREM OrderKept == Spec => []AnswersInOrder
<1>1. TypeOK /\ AccountsBalance /\ PlaceInv => AnswersInOrder
  <2> SUFFICES ASSUME TypeOK, AccountsBalance, PlaceInv  PROVE AnswersInOrder
    OBVIOUS
  <2>1. Rising(RoundTrip, 0, Len(asked))
    BY RoundTripRises
  <2>2. DOMAIN RoundTrip = 1 .. Len(RoundTrip)
    BY <2>1, LenProperties DEF Rising
  <2>3. QED  BY <2>1, <2>2 DEF Rising, AnswersInOrder
<1>2. QED  BY <1>1, TypeCorrect, AccountsHold, PlacesHold, PTL

-----------------------------------------------------------------------------
(* Answers owed.                                                           *)

ServedUpTo(n, posts) == {k \in 1 .. n : Served(posts[k])}

\* The requests that have left the daemon and were served were answered, or
\* their answers lost.
ServedInv == Published + lost = Cardinality(ServedUpTo(Answered, asked))

\* One request more.
LEMMA ServedGrows ==
  ASSUME NEW n \in Nat, NEW posts
  PROVE  /\ IsFiniteSet(ServedUpTo(n, posts)) /\ Cardinality(ServedUpTo(n, posts)) \in Nat
         /\ Served(posts[n + 1]) =>
              Cardinality(ServedUpTo(n + 1, posts)) = Cardinality(ServedUpTo(n, posts)) + 1
         /\ ~Served(posts[n + 1]) => ServedUpTo(n + 1, posts) = ServedUpTo(n, posts)
<1>1. IsFiniteSet(ServedUpTo(n, posts))
  <2>1. IsFiniteSet(1 .. n)
    BY FS_Interval
  <2>2. QED  BY <2>1, FS_Subset DEF ServedUpTo
<1>2. n + 1 \notin ServedUpTo(n, posts)
  BY DEF ServedUpTo
<1>3. CASE Served(posts[n + 1])
  <2>1. ServedUpTo(n + 1, posts) = ServedUpTo(n, posts) \cup {n + 1}
    BY <1>3 DEF ServedUpTo
  <2>2. QED  BY <1>1, <1>2, <1>3, <2>1, FS_AddElement, FS_CardinalityType
<1>4. CASE ~Served(posts[n + 1])
  <2>1. ServedUpTo(n + 1, posts) = ServedUpTo(n, posts)
    BY <1>4 DEF ServedUpTo
  <2>2. QED  BY <1>1, <1>4, <2>1, FS_CardinalityType
<1>5. QED  BY <1>3, <1>4

\* Every step keeps the count of the requests served so far.
LEMMA ServedStep ==
  ASSUME TypeOK, AccountsBalance, PlaceInv, ServedInv, [Next]_vars
  PROVE  ServedInv'
<1>0. /\ Answered \in Nat /\ Received \in Nat /\ Published \in Nat /\ lost \in Nat
      /\ Cardinality(ServedUpTo(Answered, asked)) \in Nat
  <2>1. messages_sent \in Nat /\ lost \in Nat /\ Answered \in Nat /\ Received \in Nat
    BY CountsAreNumbers, PositionsAreNumbers
  <2>2. Published \in Nat
    BY <2>1 DEF Published
  <2>3. QED  BY <2>1, <2>2, ServedGrows
<1>1. CASE SendResponse \/ ResponseLost \/ ResponseDropped
  <2>1. /\ Answered' = Answered + 1 /\ Answered + 1 = Received /\ Unbooked /\ asked' = asked
        /\ pc = "send"
    BY <1>0, <1>1, Moves DEF SendResponse, ResponseLost, ResponseDropped, At, kernel
  <2>2. /\ status = "BOOT_SUCCESS" <=> Served(request)
        /\ Served(request) <=> Served(asked[Answered + 1])
    BY <2>1 DEF PlaceInv, BuffersPlaced, IsRequest, Served
  <2>3. CASE SendResponse \/ ResponseLost
    <3>1. /\ Served(asked[Answered + 1])
          /\ \/ Published' = Published + 1 /\ lost' = lost
             \/ Published' = Published /\ lost' = lost + 1
      BY <2>1, <2>2, <2>3 DEF SendResponse, ResponseLost, Published, Uncounted, stats
    <3>2. Cardinality(ServedUpTo(Answered + 1, asked))
            = Cardinality(ServedUpTo(Answered, asked)) + 1
      BY <1>0, <3>1, ServedGrows
    <3>3. Published' + lost' = Cardinality(ServedUpTo(Answered, asked)) + 1
      BY <1>0, <3>1 DEF ServedInv
    <3>4. QED  BY <2>1, <3>2, <3>3 DEF ServedInv
  <2>4. CASE ResponseDropped
    <3>1. ~Served(asked[Answered + 1]) /\ Published' = Published /\ lost' = lost
      BY <2>1, <2>2, <2>4 DEF ResponseDropped, Published, Uncounted
    <3>2. ServedUpTo(Answered + 1, asked) = ServedUpTo(Answered, asked)
      BY <1>0, <3>1, ServedGrows
    <3>3. QED  BY <2>1, <3>1, <3>2 DEF ServedInv
  <2>5. QED  BY <1>1, <2>3, <2>4
<1>2. CASE Answered' = Answered /\ Published' = Published /\ lost' = lost
  <2>1. Answered <= Len(asked) /\ Len(asked) \in Nat
    <3> DEFINE posted == Len(asked)
    <3>1. posted = kernel_to_daemon.count + Received /\ posted \in Nat
          /\ kernel_to_daemon.count \in Nat /\ Answered <= Received
      BY CountsAreNumbers, PositionsAreNumbers DEF AccountsBalance
    <3> HIDE DEF posted
    <3>2. Answered <= posted
      BY <1>0, <3>1
    <3>3. QED  BY <3>1, <3>2 DEF posted
  <2>2. \A k \in 1 .. Answered : asked'[k] = asked[k]
    <3>1. CASE asked' = asked
      BY <3>1
    <3>2. CASE KernelPost
      <4>1. \A k \in 1 .. Len(asked) : asked'[k] = asked[k]
        BY <3>2, Post
      <4>2. \A k \in 1 .. Answered : k \in 1 .. Len(asked)
        BY <1>0, <2>1
      <4>3. QED  BY <4>1, <4>2
    <3>3. QED  BY <3>1, <3>2, Moves
  <2>3. ServedUpTo(Answered, asked') = ServedUpTo(Answered, asked)
    BY <2>2 DEF ServedUpTo
  <2>4. QED  BY <1>2, <2>3 DEF ServedInv
<1>3. QED  BY <1>1, <1>2, Moves

\* Every request the daemon serves is answered, or its answer was lost to a
\* full reply queue; errors counts the lost answers and the refused requests.
THEOREM ServedAnswered == Spec => []ServedMeansAnswered
<1>1. Init => ServedInv
  <2> SUFFICES ASSUME Init  PROVE ServedInv
    OBVIOUS
  <2>1. Answered = 0
    BY DEF Init, Answered, Received, InHand, Unbooked
  <2>2. ServedUpTo(0, asked) = {}
    BY DEF ServedUpTo
  <2>3. QED  BY <2>1, <2>2, FS_EmptySet DEF Init, ServedInv, Published, Uncounted
<1>2. TypeOK /\ AccountsBalance /\ PlaceInv /\ ServedInv /\ [Next]_vars => ServedInv'
  BY ServedStep
<1>3. TypeOK /\ AccountsBalance /\ ServedInv => ServedMeansAnswered
  <2> SUFFICES ASSUME TypeOK, AccountsBalance, ServedInv, pc \in {"receive", "done"}
               PROVE  /\ messages_sent + lost = Cardinality(ServedUpTo(messages_received, asked))
                      /\ errors = lost + (messages_received
                                            - Cardinality(ServedUpTo(messages_received, asked)))
    BY DEF ServedMeansAnswered, ServedUpTo
  <2>1. Answered = messages_received /\ Published = messages_sent
    BY DEF Answered, Received, InHand, Unbooked, Published, Uncounted
  <2>2. messages_sent + errors = messages_received
    BY DEF AccountsBalance
  <2>3. QED  BY <2>1, <2>2, CountsAreNumbers DEF ServedInv
<1>4. QED  BY <1>1, <1>2, <1>3, TypeCorrect, AccountsHold, PlacesHold, PTL DEF Spec

-----------------------------------------------------------------------------
(* The loop's end.                                                         *)

\* The most steps the daemon can still take: five for each message up to the
\* loop's limit, and the one that ends the loop.
StepsLeft ==
  LET messages == MAX_MESSAGES - message_count
  IN  IF machine = "off" THEN 0
      ELSE CASE pc = "start"   -> 5 * MAX_MESSAGES + 2
             [] pc = "receive" -> 5 * messages + 1
             [] pc = "process" -> 5 * messages
             [] pc = "send"    -> 5 * messages - 1
             [] pc = "count"   -> 5 * messages - 2
             [] pc = "account" -> 5 * messages - 3
             [] pc = "done"    -> 0

\* Every step of the daemon brings its end nearer, and nothing the kernel does
\* puts it off.
LoopRunsDown ==
  [][/\ StepsLeft' <= StepsLeft
     /\ DaemonStep => StepsLeft' < StepsLeft]_vars

\* The bound by itself, for each place in the loop.
LEMMA StepsLeftAt ==
  ASSUME TypeInv
  PROVE  /\ machine = "off" => StepsLeft = 0
         /\ At("start")   => StepsLeft = 5 * MAX_MESSAGES + 2
         /\ At("receive") => StepsLeft = 5 * (MAX_MESSAGES - message_count) + 1
         /\ At("process") => StepsLeft = 5 * (MAX_MESSAGES - message_count)
         /\ At("send")    => StepsLeft = 5 * (MAX_MESSAGES - message_count) - 1
         /\ At("count")   => StepsLeft = 5 * (MAX_MESSAGES - message_count) - 2
         /\ At("account") => StepsLeft = 5 * (MAX_MESSAGES - message_count) - 3
         /\ At("done")    => StepsLeft = 0
         /\ StepsLeft \in 0 .. 5 * MAX_MESSAGES + 2
<1> DEFINE messages == MAX_MESSAGES - message_count
<1>1. /\ messages \in 0 .. MAX_MESSAGES /\ (Unbooked => messages >= 1)
      /\ pc \in Steps /\ machine \in {"on", "off"}
  BY DEF TypeInv, TypeOK
<1>2. StepsLeft = IF machine = "off" THEN 0
                  ELSE CASE pc = "start"   -> 5 * MAX_MESSAGES + 2
                         [] pc = "receive" -> 5 * messages + 1
                         [] pc = "process" -> 5 * messages
                         [] pc = "send"    -> 5 * messages - 1
                         [] pc = "count"   -> 5 * messages - 2
             [] pc = "account" -> 5 * messages - 3
                         [] pc = "done"    -> 0
  BY DEF StepsLeft
<1> HIDE DEF messages
<1>3. /\ machine = "off" => StepsLeft = 0
      /\ At("start")   => StepsLeft = 5 * MAX_MESSAGES + 2
      /\ At("receive") => StepsLeft = 5 * messages + 1
      /\ At("process") => StepsLeft = 5 * messages
      /\ At("send")    => StepsLeft = 5 * messages - 1
      /\ At("count")   => StepsLeft = 5 * messages - 2
      /\ At("account") => StepsLeft = 5 * messages - 3
      /\ At("done")    => StepsLeft = 0
  BY <1>2 DEF At
<1>4. machine = "off" \/ (\E step \in Steps : At(step))
  BY <1>1 DEF At
<1>5. /\ At("process") \/ At("send") \/ At("count") \/ At("account") => messages >= 1
  BY <1>1 DEF At, Unbooked
<1>6. StepsLeft \in 0 .. 5 * MAX_MESSAGES + 2
  BY <1>1, <1>3, <1>4, <1>5 DEF Steps
<1>7. QED  BY <1>3, <1>6 DEF messages

\* A step of the daemon takes one of them at least.
LEMMA LoopStepCounts ==
  ASSUME TypeInv, TypeInv', DaemonStep
  PROVE  StepsLeft' < StepsLeft
<1> DEFINE now == StepsLeft
           next == StepsLeft'
           n == message_count
           m == message_count'
<1> USE DEF queues, stats, kernel, loop
<1>1. /\ n \in 0 .. MAX_MESSAGES /\ m \in 0 .. MAX_MESSAGES
      /\ now \in 0 .. 5 * MAX_MESSAGES + 2 /\ next \in 0 .. 5 * MAX_MESSAGES + 2
  <2>1. (TypeInv => StepsLeft \in 0 .. 5 * MAX_MESSAGES + 2)'
    BY StepsLeftAt, PTL
  <2>2. QED  BY <2>1, StepsLeftAt DEF TypeInv, TypeOK
<1>2. /\ machine = "on" /\ pc = "start" => now = 5 * MAX_MESSAGES + 2
      /\ machine = "on" /\ pc = "receive" => now = 5 * (MAX_MESSAGES - n) + 1
      /\ machine = "on" /\ pc = "process" => now = 5 * (MAX_MESSAGES - n) /\ n < MAX_MESSAGES
      /\ machine = "on" /\ pc = "send" => now = 5 * (MAX_MESSAGES - n) - 1
      /\ machine = "on" /\ pc = "count" => now = 5 * (MAX_MESSAGES - n) - 2
      /\ machine = "on" /\ pc = "account" => now = 5 * (MAX_MESSAGES - n) - 3
  BY StepsLeftAt DEF At, TypeInv, Unbooked
<1>3. /\ machine' = "off" => next = 0
      /\ machine' = "on" /\ pc' = "receive" => next = 5 * (MAX_MESSAGES - m) + 1
      /\ machine' = "on" /\ pc' = "process" => next = 5 * (MAX_MESSAGES - m)
      /\ machine' = "on" /\ pc' = "send" => next = 5 * (MAX_MESSAGES - m) - 1
      /\ machine' = "on" /\ pc' = "count" => next = 5 * (MAX_MESSAGES - m) - 2
      /\ machine' = "on" /\ pc' = "account" => next = 5 * (MAX_MESSAGES - m) - 3
      /\ machine' = "on" /\ pc' = "done" => next = 0
  <2>1. (TypeInv => /\ machine = "off" => StepsLeft = 0
                    /\ At("receive") => StepsLeft = 5 * (MAX_MESSAGES - message_count) + 1
                    /\ At("process") => StepsLeft = 5 * (MAX_MESSAGES - message_count)
                    /\ At("send")    => StepsLeft = 5 * (MAX_MESSAGES - message_count) - 1
                    /\ At("count")   => StepsLeft = 5 * (MAX_MESSAGES - message_count) - 2
                    /\ At("account") => StepsLeft = 5 * (MAX_MESSAGES - message_count) - 3
                    /\ At("done")    => StepsLeft = 0)'
    BY StepsLeftAt, PTL
  <2>2. QED  BY <2>1 DEF At
<1> SUFFICES next < now
  OBVIOUS
<1> HIDE DEF now, next, n, m
<1>4. CASE StartLoop
  BY <1>1, <1>2, <1>3, <1>4 DEF StartLoop, At, n, m
<1>5. CASE ReceiveRequest
  BY <1>1, <1>2, <1>3, <1>5 DEF ReceiveRequest, At, n, m
<1>6. CASE LoopEnds \/ NothingToReceive
  BY <1>1, <1>2, <1>3, <1>6 DEF LoopEnds, NothingToReceive, At, n, m
<1>7. CASE ResetSystem
  BY <1>1, <1>2, <1>3, <1>7 DEF ResetSystem, Handling, At, n, m
<1>8. CASE Handled
  BY <1>1, <1>2, <1>3, <1>8 DEF Handled, At, n, m
<1>9. CASE SendResponse \/ ResponseLost \/ ResponseDropped
  <2>1. At("send") /\ pc' \in {"count", "account"} /\ UNCHANGED <<machine, message_count>>
    BY <1>9 DEF SendResponse, ResponseLost, ResponseDropped
  <2>2. QED  BY <1>1, <1>2, <1>3, <2>1 DEF At, n, m
<1>10. CASE CountSent \/ CountLost
  <2>1. At("count") /\ pc' = "account" /\ UNCHANGED <<machine, message_count>>
    BY <1>10 DEF CountSent, CountLost
  <2>2. QED  BY <1>1, <1>2, <1>3, <2>1 DEF At, n, m
<1>11. CASE Account
  BY <1>1, <1>2, <1>3, <1>11 DEF Account, At, n, m
<1>12. QED
  BY <1>4, <1>5, <1>6, <1>7, <1>8, <1>9, <1>10, <1>11, HandlerAnswers DEF DaemonStep, TypeInv

\* Whatever the kernel posts and the firmware answers, the loop takes at most
\* 5 * MAX_MESSAGES + 2 steps: what is left of them is a number that every step
\* of the daemon lowers and no step of the kernel raises.
THEOREM LoopIsBounded == Spec => [](StepsLeft \in 0 .. 5 * MAX_MESSAGES + 2) /\ LoopRunsDown
<1>1. TypeInv => StepsLeft \in 0 .. 5 * MAX_MESSAGES + 2
  BY StepsLeftAt
<1>2. ASSUME TypeInv, TypeInv', [Next]_vars
      PROVE  [/\ StepsLeft' <= StepsLeft
              /\ DaemonStep => StepsLeft' < StepsLeft]_vars
  <2> DEFINE now == StepsLeft
             next == StepsLeft'
  <2>1. UNCHANGED <<machine, pc, message_count>> => next = now
    BY DEF StepsLeft
  <2>2. DaemonStep => next < now
    BY <1>2, LoopStepCounts
  <2>3. DaemonStep \/ next = now
    BY <1>2, <2>1 DEF Next, KernelPost, KernelTake, vars, loop
  <2>4. now \in Nat /\ next \in Nat
    <3>1. (TypeInv => StepsLeft \in 0 .. 5 * MAX_MESSAGES + 2)'
      BY <1>1, PTL
    <3>2. QED  BY <1>1, <1>2, <3>1
  <2> HIDE DEF now, next
  <2>5. next <= now /\ (DaemonStep => next < now)
    BY <2>2, <2>3, <2>4
  <2>6. QED  BY <2>5 DEF now, next
<1>3. QED  BY <1>1, <1>2, TypesHold, PTL DEF Spec, LoopRunsDown

=============================================================================
