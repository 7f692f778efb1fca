--------------------------- MODULE RuntimeDaemon ----------------------------
(***************************************************************************)
(* The runtime daemon of src/uefi/daemon.c: it takes requests off the      *)
(* kernel_to_daemon queue, calls the UEFI runtime service each one names   *)
(* and puts the answer on daemon_to_kernel, keeping statistics in the      *)
(* shared memory.  The kernel posts requests and takes answers beside it.  *)
(*                                                                         *)
(* The loop of daemon_message_loop is cut where the other side can act     *)
(* between: the receive, the handling of the request, the send of the      *)
(* response, the count of what became of it and the count of the request.  *)
(* The firmware is external: a runtime service may return any status it    *)
(* can return.                                                             *)
(*                                                                         *)
(* Messages keep what the handlers look at.  Requests carry no data; what  *)
(* the data decides is the firmware's outcome.  In a response "status" is  *)
(* the EFI_STATUS packed at the front of the data and "payload" the rest.  *)
(* The timestamp is echoed exactly as the sequence is, and left out.       *)
(***************************************************************************)
EXTENDS IpcQueue, Integers, FiniteSets

CONSTANTS
  Requests,      \* the [type, source, size] the kernel may ask
  MAX_MESSAGES,  \* requests the loop handles before it stops: 5 in the code
  MaxPosts       \* bound of the model: how many requests the kernel posts

ASSUME LoopBoundAssumption == MAX_MESSAGES \in Nat
ASSUME MaxPostsAssumption  == MaxPosts \in Nat

VARIABLES
  kernel_to_daemon, daemon_to_kernel,         \* the two queues
  messages_sent, messages_received, errors,   \* the header's statistics
  g_daemon_running,
  message_count,      \* requests handled in this loop
  request, response,  \* the loop's message buffers
  status,             \* the loop's boot_status_t
  pc,                 \* where the loop is
  machine,            \* "on", or "off" once a ResetSystem took effect
  asked,              \* history: the requests posted, by sequence number
  lastTaken, taken,   \* history: the last answer the kernel took, and how many
  lost                \* history: answers that found daemon_to_kernel full

queues  == <<kernel_to_daemon, daemon_to_kernel>>
stats   == <<messages_sent, messages_received, errors>>
loop    == <<g_daemon_running, message_count, request, response, status, pc>>
kernel  == <<asked, lastTaken, taken>>
vars    == <<queues, stats, loop, machine, kernel, lost>>

-----------------------------------------------------------------------------
(* Messages.                                                               *)

IPC_MAX_DATA_SIZE == 4096
KernelPid == 0
DaemonPid == 1

\* An EFI_STATUS: an error has the top bit of 64 set.
EfiStatus(code) == [error |-> code # 0, code |-> code]
EFI_SUCCESS           == EfiStatus(0)
EFI_INVALID_PARAMETER == EfiStatus(2)
EFI_UNSUPPORTED       == EfiStatus(3)
EFI_BUFFER_TOO_SMALL  == EfiStatus(5)
EFI_DEVICE_ERROR      == EfiStatus(7)
EFI_NOT_FOUND         == EfiStatus(14)

\* The low 32 bits, all that handle_reset_system copies.
Low32(st) == [st EXCEPT !.error = FALSE]

SizeOfU32     == 4
SizeOfStatus  == 8    \* EFI_STATUS
SizeOfEfiTime == 16   \* EFI_TIME

Types == {"NONE", "RESET_SYSTEM", "GET_TIME", "SET_TIME", "GET_VARIABLE",
          "SET_VARIABLE", "SHUTDOWN", "OTHER"}

ASSUME RequestsAssumption == Requests \subseteq [type : Types, source : Nat, size : Nat]

Message ==
  [type : Types, source : Nat, target : Nat, size : Nat, sequence : Nat,
   status : [error : BOOLEAN, code : Nat],
   payload : {"none", "time", "variable", "attributes", "stack"}]

\* The zeroed message.
Zero ==
  [type |-> "NONE", source |-> 0, target |-> 0, size |-> 0, sequence |-> 0,
   status |-> EFI_SUCCESS, payload |-> "none"]

\* A request as the kernel builds it: zeroed, then its header filled in.
RequestOf(r, n) ==
  [Zero EXCEPT !.type = r.type, !.source = r.source, !.target = DaemonPid,
               !.size = r.size, !.sequence = n]

\* The response process_message starts from: zeroed, the sequence echoed; the
\* type every branch copies.
Echo == [Zero EXCEPT !.sequence = request.sequence, !.type = request.type]

\* A mutant: the answer keeps the addresses of the request.
EchoesAddresses(size, st, payload) ==
  [Echo EXCEPT !.source = request.source, !.target = request.target,
               !.size = size, !.status = st, !.payload = payload]

\* The response of a handler that ran its service: addressed to the requester.
Reply(size, st, payload) ==
  [Echo EXCEPT !.source = DaemonPid, !.target = request.source,
               !.size = size, !.status = st, !.payload = payload]

-----------------------------------------------------------------------------
(* The daemon.                                                             *)

Init ==
  /\ kernel_to_daemon = EmptyQueue(Zero) /\ daemon_to_kernel = EmptyQueue(Zero)
  /\ messages_sent = 0 /\ messages_received = 0 /\ errors = 0
  /\ g_daemon_running = FALSE /\ message_count = 0
  /\ request = Zero /\ response = Zero /\ status = "BOOT_SUCCESS"
  /\ pc = "start"
  /\ machine = "on"
  /\ asked = <<>> /\ lastTaken = 0 /\ taken = 0 /\ lost = 0

At(step) == machine = "on" /\ pc = step

StartLoop ==
  /\ At("start")
  /\ g_daemon_running' = TRUE /\ message_count' = 0
  /\ pc' = "receive"
  /\ UNCHANGED <<queues, stats, request, response, status, machine, kernel, lost>>

\* A mutant: the loop looks at its bound only.
IgnoresShutdown == message_count < MAX_MESSAGES

LoopGoesOn == g_daemon_running /\ message_count < MAX_MESSAGES

ReceiveRequest ==
  /\ At("receive") /\ LoopGoesOn /\ ~ipc_queue_empty(kernel_to_daemon)
  /\ request' = Front(kernel_to_daemon)
  /\ kernel_to_daemon' = AfterReceive(kernel_to_daemon)
  /\ status' = "BOOT_SUCCESS"
  /\ pc' = "process"
  /\ UNCHANGED <<daemon_to_kernel, stats, g_daemon_running, message_count, response,
                 machine, kernel, lost>>

\* The loop's condition fails: SHUTDOWN was handled, or the limit is reached.
LoopEnds ==
  /\ At("receive") /\ ~LoopGoesOn
  /\ pc' = "done"
  /\ UNCHANGED <<queues, stats, g_daemon_running, message_count, request, response, status,
                 machine, kernel, lost>>

\* A mutant: an empty queue is polled again.
KeepsPolling ==
  /\ At("receive") /\ LoopGoesOn /\ ipc_queue_empty(kernel_to_daemon)
  /\ status' = "BOOT_ERROR_NOT_FOUND"
  /\ UNCHANGED <<queues, stats, g_daemon_running, message_count, request, response, pc,
                 machine, kernel, lost>>

\* "No messages available, break in demo mode".
NothingToReceive ==
  /\ At("receive") /\ LoopGoesOn /\ ipc_queue_empty(kernel_to_daemon)
  /\ status' = "BOOT_ERROR_NOT_FOUND"
  /\ pc' = "done"
  /\ UNCHANGED <<queues, stats, g_daemon_running, message_count, request, response,
                 machine, kernel, lost>>

-----------------------------------------------------------------------------
(* process_message: one action per case, with the handler it calls.        *)

Handling(type) == At("process") /\ request.type = type

\* The handler has left resp in the response and returns st.
Returns(resp, st) ==
  /\ response' = resp
  /\ status' = st
  /\ pc' = "send"
  /\ UNCHANGED <<queues, stats, message_count, request, machine, kernel, lost>>

\* ResetSystem takes effect: the machine is off and nothing runs again.
ResetSystem ==
  /\ Handling("RESET_SYSTEM") /\ request.size >= SizeOfU32
  /\ machine' = "off"
  /\ UNCHANGED <<queues, stats, loop, kernel, lost>>

\* "we shouldn't reach here for reset": the firmware refuses and returns.
ResetReturns ==
  /\ Handling("RESET_SYSTEM") /\ request.size >= SizeOfU32
  /\ \E st \in {EFI_UNSUPPORTED, EFI_DEVICE_ERROR} :
       Returns(Reply(SizeOfU32, Low32(st), "none"), "BOOT_SUCCESS")
  /\ UNCHANGED g_daemon_running

ResetTooShort ==
  /\ Handling("RESET_SYSTEM") /\ request.size < SizeOfU32
  /\ Returns(Echo, "BOOT_ERROR")
  /\ UNCHANGED g_daemon_running

GetTime ==
  /\ Handling("GET_TIME")
  /\ \E st \in {EFI_SUCCESS, EFI_DEVICE_ERROR} :
       Returns(Reply(SizeOfStatus + SizeOfEfiTime, st, IF st.error THEN "none" ELSE "time"),
               "BOOT_SUCCESS")
  /\ UNCHANGED g_daemon_running

SetTime ==
  /\ Handling("SET_TIME") /\ request.size >= SizeOfEfiTime
  /\ \E st \in {EFI_SUCCESS, EFI_DEVICE_ERROR} :
       Returns(Reply(SizeOfStatus, st, "none"), "BOOT_SUCCESS")
  /\ UNCHANGED g_daemon_running

\* A mutant: the size check is off by one.
RefusesExactSize ==
  /\ Handling("SET_TIME") /\ request.size <= SizeOfEfiTime
  /\ Returns([Echo EXCEPT !.size = SizeOfStatus, !.status = EFI_INVALID_PARAMETER],
             "BOOT_ERROR")
  /\ UNCHANGED g_daemon_running

SetTimeTooShort ==
  /\ Handling("SET_TIME") /\ request.size < SizeOfEfiTime
  /\ Returns([Echo EXCEPT !.size = SizeOfStatus, !.status = EFI_INVALID_PARAMETER],
             "BOOT_ERROR")
  /\ UNCHANGED g_daemon_running

\* A mutant: the room is taken to be the whole array.
WholeArray == IPC_MAX_DATA_SIZE

\* The bytes GetVariable is told it may write, behind the status and the
\* attributes.
VariableRoom == IPC_MAX_DATA_SIZE - SizeOfStatus - SizeOfU32

\* What it leaves in data_size and attributes: the bytes of the variable or,
\* when they do not fit, the bytes it would need; any other failure leaves both
\* as they were, attributes uninitialized ("stack": whatever was there).
VariableResults ==
  [st : {EFI_SUCCESS}, data_size : {1, VariableRoom}, payload : {"variable"}]
    \cup [st : {EFI_BUFFER_TOO_SMALL}, data_size : {VariableRoom + 1},
          payload : {"attributes", "stack"}]
    \cup [st : {EFI_NOT_FOUND}, data_size : {VariableRoom}, payload : {"stack"}]

GetVariable ==
  /\ Handling("GET_VARIABLE")
  /\ \E v \in VariableResults :
       Returns(Reply(SizeOfStatus + SizeOfU32 + v.data_size, v.st, v.payload), "BOOT_SUCCESS")
  /\ UNCHANGED g_daemon_running

Shutdown ==
  /\ Handling("SHUTDOWN")
  /\ g_daemon_running' = FALSE
  /\ Returns(Echo, "BOOT_SUCCESS")

\* The default case.  SET_VARIABLE has no case of its own.
Unsupported ==
  /\ At("process")
  /\ request.type \notin {"RESET_SYSTEM", "GET_TIME", "SET_TIME", "GET_VARIABLE", "SHUTDOWN"}
  /\ Returns([Echo EXCEPT !.size = SizeOfStatus, !.status = EFI_UNSUPPORTED], "BOOT_ERROR")
  /\ UNCHANGED g_daemon_running

ProcessMessage ==
  \/ ResetSystem \/ ResetReturns \/ ResetTooShort
  \/ GetTime \/ SetTime \/ SetTimeTooShort \/ GetVariable
  \/ Shutdown \/ Unsupported

-----------------------------------------------------------------------------
(* The rest of the loop.                                                   *)

SendResponse ==
  /\ At("send") /\ status = "BOOT_SUCCESS" /\ ~ipc_queue_full(daemon_to_kernel)
  /\ daemon_to_kernel' = AfterSend(daemon_to_kernel, response)
  /\ pc' = "count"
  /\ UNCHANGED <<kernel_to_daemon, stats, g_daemon_running, message_count, request, response,
                 status, machine, kernel, lost>>

\* The kernel has let its queue fill up: the response is dropped.
ResponseLost ==
  /\ At("send") /\ status = "BOOT_SUCCESS" /\ ipc_queue_full(daemon_to_kernel)
  /\ status' = "BOOT_ERROR_IO" /\ lost' = lost + 1
  /\ pc' = "count"
  /\ UNCHANGED <<queues, stats, g_daemon_running, message_count, request, response, machine,
                 kernel>>

\* The answer is in the queue, or taken already, when it is counted.
CountSent ==
  /\ At("count") /\ status = "BOOT_SUCCESS"
  /\ messages_sent' = messages_sent + 1
  /\ pc' = "account"
  /\ UNCHANGED <<queues, messages_received, errors, g_daemon_running, message_count,
                 request, response, status, machine, kernel, lost>>

\* A mutant: a response that found the queue full counts as sent.
LossUncounted ==
  /\ At("count") /\ status # "BOOT_SUCCESS"
  /\ messages_sent' = messages_sent + 1
  /\ pc' = "account"
  /\ UNCHANGED <<queues, messages_received, errors, g_daemon_running, message_count,
                 request, response, status, machine, kernel, lost>>

CountLost ==
  /\ At("count") /\ status # "BOOT_SUCCESS"
  /\ errors' = errors + 1
  /\ pc' = "account"
  /\ UNCHANGED <<queues, messages_sent, messages_received, g_daemon_running, message_count,
                 request, response, status, machine, kernel, lost>>

\* The handler has failed: the response it built is not sent.
ResponseDropped ==
  /\ At("send") /\ status # "BOOT_SUCCESS"
  /\ errors' = errors + 1
  /\ pc' = "account"
  /\ UNCHANGED <<queues, messages_sent, messages_received, g_daemon_running, message_count,
                 request, response, status, machine, kernel, lost>>

Account ==
  /\ At("account")
  /\ messages_received' = messages_received + 1
  /\ message_count' = message_count + 1
  /\ pc' = "receive"
  /\ UNCHANGED <<queues, messages_sent, errors, g_daemon_running, request, response, status,
                 machine, kernel, lost>>

DaemonStep ==
  \/ StartLoop \/ ReceiveRequest \/ LoopEnds \/ NothingToReceive
  \/ ProcessMessage
  \/ SendResponse \/ ResponseLost \/ CountSent \/ CountLost \/ ResponseDropped \/ Account

-----------------------------------------------------------------------------
(* The kernel's end of the queues.  The repository has no kernel: this one *)
(* numbers its requests and uses ipc_send_message and ipc_receive_message  *)
(* as jump_to_kernel and test_ipc_communication do.                        *)

KernelPost ==
  /\ machine = "on" /\ Len(asked) < MaxPosts /\ ~ipc_queue_full(kernel_to_daemon)
  /\ \E r \in Requests :
       /\ kernel_to_daemon' = AfterSend(kernel_to_daemon, RequestOf(r, Len(asked) + 1))
       /\ asked' = Append(asked, r)
  /\ UNCHANGED <<daemon_to_kernel, stats, loop, machine, lastTaken, taken, lost>>

KernelTake ==
  /\ machine = "on" /\ ~ipc_queue_empty(daemon_to_kernel)
  /\ lastTaken' = Front(daemon_to_kernel).sequence
  /\ taken' = taken + 1
  /\ daemon_to_kernel' = AfterReceive(daemon_to_kernel)
  /\ UNCHANGED <<kernel_to_daemon, stats, loop, machine, asked, lost>>

Next == DaemonStep \/ KernelPost \/ KernelTake

\* The daemon's loop never waits for anyone and is never blocked, so it keeps
\* running while the machine does.  Nothing is assumed of the kernel.
Fairness == WF_vars(DaemonStep)

Spec == Init /\ [][Next]_vars /\ Fairness

-----------------------------------------------------------------------------
(***************************************************************************)
(* Properties.                                                             *)
(***************************************************************************)

Steps    == {"start", "receive", "process", "send", "count", "account", "done"}
Statuses == {"BOOT_SUCCESS", "BOOT_ERROR", "BOOT_ERROR_IO", "BOOT_ERROR_NOT_FOUND"}

\* The types, with both queues' counters and indices in agreement.
TypeOK ==
  /\ IsQueue(kernel_to_daemon, Message) /\ IsQueue(daemon_to_kernel, Message)
  /\ messages_sent \in Nat /\ messages_received \in Nat /\ errors \in Nat
  /\ g_daemon_running \in BOOLEAN /\ message_count \in 0 .. MAX_MESSAGES
  /\ request \in Message /\ response \in Message
  /\ status \in Statuses /\ pc \in Steps /\ machine \in {"on", "off"}
  /\ asked \in Seq(Requests) /\ Len(asked) <= MaxPosts
  /\ lastTaken \in Nat /\ taken \in Nat /\ lost \in Nat

\* A request is being handled; and one that messages_received does not count yet.
InHand   == pc \in {"process", "send"}
Unbooked == pc \in {"process", "send", "count", "account"}

\* How many requests the daemon has taken off the queue.
Received == IF Unbooked THEN messages_received + 1 ELSE messages_received

\* How many answers it has put on the queue: messages_sent is one behind
\* between a send and its count.
Uncounted == pc = "count" /\ status = "BOOT_SUCCESS"
Published == IF Uncounted THEN messages_sent + 1 ELSE messages_sent

SequencesOf(messages) == [k \in DOMAIN messages |-> messages[k].sequence]

\* The sequence numbers along the round trip, oldest first.
RoundTrip ==
  <<lastTaken>> \o SequencesOf(Contents(daemon_to_kernel))
    \o (IF InHand THEN <<request.sequence>> ELSE <<>>)
    \o SequencesOf(Contents(kernel_to_daemon))

\* Requests are handled and answered in the order they were posted, each at
\* most once: along the way from the kernel through both queues and back no
\* request is overtaken, duplicated or answered twice.
AnswersInOrder ==
  \A i, j \in DOMAIN RoundTrip : i < j => RoundTrip[i] < RoundTrip[j]

\* The statistics in the shared memory account for every message: a posted
\* request waits, is in hand or was counted received; a received one was
\* answered or counted an error; an answer put on the queue waits or was taken.
\* The kernel may find messages_sent one short of the answers it can see, or has
\* taken, but only until the daemon counts the one it has just sent.
AccountsBalance ==
  /\ Len(asked) = kernel_to_daemon.count + Received
  /\ messages_sent + errors = IF pc = "account" THEN Received ELSE messages_received
  /\ Published = daemon_to_kernel.count + taken

\* What the daemon serves: a known type, with as much data as it needs.
Served(r) ==
  \/ r.type \in {"GET_TIME", "GET_VARIABLE", "SHUTDOWN"}
  \/ r.type = "RESET_SYSTEM" /\ r.size >= SizeOfU32
  \/ r.type = "SET_TIME" /\ r.size >= SizeOfEfiTime

\* An answer is an answer to a request the daemon serves, of its type, from
\* the daemon to the process that asked; only SHUTDOWN's is not addressed.
AnswersMatchRequests ==
  \A k \in 1 .. daemon_to_kernel.count :
    LET a == Contents(daemon_to_kernel)[k]
        r == asked[a.sequence]
    IN  /\ Served(r) /\ a.type = r.type
        /\ a.type # "SHUTDOWN" => a.source = DaemonPid /\ a.target = r.source

\* The size an answer claims is within the message's data array unless it is
\* the size of a variable that did not fit; and what an answer without an
\* error carries is data of this call, never what the stack held.
AnswerDataIsSound ==
  \A k \in 1 .. daemon_to_kernel.count :
    LET a == Contents(daemon_to_kernel)[k]
    IN  /\ a.size > IPC_MAX_DATA_SIZE =>
             a.type = "GET_VARIABLE" /\ a.status = EFI_BUFFER_TOO_SMALL
        /\ a.payload = "stack" => a.status.error
        /\ a.payload = "time" => a.type = "GET_TIME" /\ ~a.status.error

\* Every request the daemon serves is answered unless the reply queue was full
\* at that moment: errors counts the refused requests and the lost answers,
\* nothing else.
ServedMeansAnswered ==
  pc \in {"receive", "done"} =>
    LET served == {n \in 1 .. messages_received : Served(asked[n])}
    IN  /\ messages_sent + lost = Cardinality(served)
        /\ errors = lost + (messages_received - Cardinality(served))

\* Once a SHUTDOWN has been taken off the queue no other request is.
ShutdownIsFinal == [][request.type = "SHUTDOWN" => request' = request]_vars

\* Whatever is posted, the loop ends, or the machine is off.
DaemonTerminates == <>(pc = "done" \/ machine = "off")

\* Both queues are first-in-first-out channels of at most IPC_QUEUE_SIZE
\* messages, whatever the loop and the kernel do.
KernelToDaemon == INSTANCE BoundedFifo
  WITH Bound <- IPC_QUEUE_SIZE, waiting <- Contents(kernel_to_daemon)
DaemonToKernel == INSTANCE BoundedFifo
  WITH Bound <- IPC_QUEUE_SIZE, waiting <- Contents(daemon_to_kernel)

KernelToDaemonIsFifo == KernelToDaemon!Spec
DaemonToKernelIsFifo == DaemonToKernel!Spec

\* dos25_syscalls.h:97 and :116: setting a variable returns a negative error
\* code, DOS25_ERROR_UNSUPPORTED among them, on failure.  That needs an answer
\* to every request handled, as long as none was lost to a full reply queue.
EveryRequestAnswered ==
  (pc = "receive" /\ lost = 0) => messages_sent = messages_received

=============================================================================
