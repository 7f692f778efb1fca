---------------------------- MODULE BootSequence ----------------------------
(***************************************************************************)
(* The bootloader from efi_main to its return (src/uefi/main.c, boot.c,    *)
(* ipc_test.c, the setup part of runtime.c), with the runtime daemon of    *)
(* RuntimeDaemon running inside it: one thread, which allocates and        *)
(* initializes the shared memory, runs the IPC tests on it, posts the      *)
(* kernel's own test request and then runs the daemon's loop.              *)
(*                                                                         *)
(* The firmware is external: any allocation may fail, and graphics may be  *)
(* missing.  The key the user presses at the end may never come.           *)
(***************************************************************************)
EXTENDS RuntimeDaemon

VARIABLES
  stage,   \* what efi_main does next
  params,  \* boot_params, the fields that matter later
  gGOP,    \* graphics_init has located the graphics output protocol
  result   \* what efi_main has decided to return, "none" before

bootVars == <<stage, params, gGOP, result>>
allVars  == <<vars, bootVars>>

-----------------------------------------------------------------------------
(* The layout of struct shared_memory_header, in bytes.                    *)

SHARED_MEM_SIZE  == 2 * 1024 * 1024
SizeOfIpcMessage == 5 * 4 + 4 + 8 + IPC_MAX_DATA_SIZE  \* 4 bytes align timestamp
SizeOfIpcQueue   == 4 * 4 + IPC_QUEUE_SIZE * SizeOfIpcMessage
SizeOfHeader     == 8 + 4 * 4 + 2 * SizeOfIpcQueue + 2 * 8 + 3 * 8

\* Pages fresh from the firmware hold anything: here, nothing or old messages.
RawQueue == [EmptyQueue([Zero EXCEPT !.type = "OTHER"]) EXCEPT !.count = IPC_QUEUE_SIZE]

-----------------------------------------------------------------------------

BootInit ==
  /\ Init
  /\ stage = "memoryMap"
  /\ params = [shared_header |-> "none", shared_buffer_size |-> 0, rt_services |-> FALSE,
               kernel_base |-> "none"]
  /\ gGOP = FALSE
  /\ result = "none"

In(s) == stage = s

\* efi_main's error_exit: wait for a key, then return EFI_ABORTED.
Abort == stage' = "waitForKey" /\ result' = "EFI_ABORTED"

\* get_memory_map_simple only asks for the size of the map.
GetMemoryMap ==
  /\ In("memoryMap")
  /\ \/ stage' = "sharedMemory" /\ UNCHANGED result
     \/ Abort
  /\ UNCHANGED <<vars, params, gGOP>>

\* The first half of setup_shared_memory.
AllocateSharedMemory ==
  /\ In("sharedMemory")
  /\ stage' = "initQueues"
  /\ params' = [params EXCEPT !.shared_header = "raw", !.shared_buffer_size = SHARED_MEM_SIZE]
  /\ \E k2d, d2k \in {EmptyQueue(Zero), RawQueue} :
       kernel_to_daemon' = k2d /\ daemon_to_kernel' = d2k
  /\ UNCHANGED <<stats, loop, machine, kernel, lost, gGOP, result>>

SharedMemoryUnavailable ==
  /\ In("sharedMemory") /\ Abort
  /\ UNCHANGED <<vars, params, gGOP>>

\* A mutant: the second queue is left as the pages hold it.
ForgetsDaemonQueue ==
  /\ In("initQueues")
  /\ stage' = "preserve"
  /\ params' = [params EXCEPT !.shared_header = "ready"]
  /\ kernel_to_daemon' = EmptyQueue(Zero)
  /\ UNCHANGED <<daemon_to_kernel, stats, loop, machine, kernel, lost, gGOP, result>>

\* The second half, initialize_ipc_queues.
InitializeQueues ==
  /\ In("initQueues")
  /\ stage' = "preserve"
  /\ params' = [params EXCEPT !.shared_header = "ready"]
  /\ kernel_to_daemon' = EmptyQueue(Zero) /\ daemon_to_kernel' = EmptyQueue(Zero)
  /\ messages_sent' = 0 /\ messages_received' = 0 /\ errors' = 0
  /\ UNCHANGED <<loop, machine, kernel, lost, gGOP, result>>

PreserveRuntimeServices ==
  /\ In("preserve")
  /\ stage' = "graphics"
  /\ params' = [params EXCEPT !.rt_services = TRUE]
  /\ UNCHANGED <<vars, gGOP, result>>

\* graphics_init succeeds with or without graphics, and fills in no field of
\* boot_params.
InitGraphics ==
  /\ In("graphics")
  /\ stage' = "loadKernel"
  /\ gGOP' \in BOOLEAN
  /\ UNCHANGED <<vars, params, result>>

\* load_kernel: pages at 1MB, else anywhere, else the boot fails.
LoadKernel ==
  /\ In("loadKernel")
  /\ stage' = "tests"
  /\ \E base \in {"1MB", "any"} : params' = [params EXCEPT !.kernel_base = base]
  /\ UNCHANGED <<vars, gGOP, result>>

\* A mutant: the failure is reported and the boot goes on.
GoesOnWithoutKernel ==
  /\ In("loadKernel")
  /\ stage' = "tests"
  /\ UNCHANGED <<vars, params, gGOP, result>>

NoMemoryForKernel ==
  /\ In("loadKernel") /\ Abort
  /\ UNCHANGED <<vars, params, gGOP>>

-----------------------------------------------------------------------------
(* The kernel's end of the queue, as the bootloader plays it.              *)

\* The queue after ipc_send_message, whether or not it found room.
Send(q, m) == IF ipc_queue_full(q) THEN q ELSE AfterSend(q, m)

Asks(type, size) == [type |-> type, source |-> KernelPid, size |-> size]

\* There is room for the three requests the bootloader posts, and the daemon's
\* loop is long enough for them.
ASSUME RoomAssumption == IPC_QUEUE_SIZE >= 3 /\ MaxPosts >= 3 /\ MAX_MESSAGES >= 3
ASSUME AsksAssumption == {Asks("GET_TIME", 0), Asks("RESET_SYSTEM", SizeOfU32)} \subseteq Requests

\* run_ipc_tests: the shared memory is as initialized, so its checks pass and
\* test_ipc_communication posts GET_TIME and RESET_SYSTEM, finds the other
\* queue empty, and leaves both requests where they are.
RunIpcTests ==
  /\ In("tests")
  /\ LET time  == RequestOf(Asks("GET_TIME", 0), 1)
         reset == RequestOf(Asks("RESET_SYSTEM", SizeOfU32), 2)
     IN  kernel_to_daemon' = Send(Send(kernel_to_daemon, time), reset)
  /\ asked' = <<Asks("GET_TIME", 0), Asks("RESET_SYSTEM", SizeOfU32)>>
  /\ stage' = "post"
  /\ UNCHANGED <<daemon_to_kernel, stats, loop, machine, lastTaken, taken, lost,
                 params, gGOP, result>>

\* jump_to_kernel's own test message, again with sequence number 1.
PostTestMessage ==
  /\ In("post")
  /\ kernel_to_daemon' = Send(kernel_to_daemon, RequestOf(Asks("GET_TIME", 0), 1))
  /\ asked' = Append(asked, Asks("GET_TIME", 0))
  /\ stage' = "daemon"
  /\ UNCHANGED <<daemon_to_kernel, stats, loop, machine, lastTaken, taken, lost,
                 params, gGOP, result>>

\* start_runtime_daemon: its checks of what the boot has set up, then the
\* loop, step by step.
RunDaemon ==
  /\ In("daemon") /\ params.shared_header = "ready" /\ params.rt_services
  /\ DaemonStep
  /\ UNCHANGED bootVars

\* The loop has returned: "demo completed successfully!".
DaemonReturned ==
  /\ In("daemon") /\ At("done")
  /\ stage' = "waitForKey" /\ result' = "EFI_SUCCESS"
  /\ UNCHANGED <<vars, params, gGOP>>

KeyPressed ==
  /\ In("waitForKey")
  /\ stage' = "returned"
  /\ UNCHANGED <<vars, params, gGOP, result>>

Program ==
  \/ GetMemoryMap
  \/ AllocateSharedMemory \/ SharedMemoryUnavailable \/ InitializeQueues
  \/ PreserveRuntimeServices \/ InitGraphics
  \/ LoadKernel \/ NoMemoryForKernel
  \/ RunIpcTests \/ PostTestMessage
  \/ RunDaemon \/ DaemonReturned

BootNext == Program \/ KeyPressed

\* The one thread of the bootloader keeps running; the key is the user's.
BootSpec == BootInit /\ [][BootNext]_allVars /\ WF_allVars(Program)

-----------------------------------------------------------------------------
(***************************************************************************)
(* Properties.                                                             *)
(***************************************************************************)

Stages == {"memoryMap", "sharedMemory", "initQueues", "preserve", "graphics",
           "loadKernel", "tests", "post", "daemon", "waitForKey", "returned"}

\* The types of the boot's own state; the queues are sound once initialized.
BootTypeOK ==
  /\ stage \in Stages
  /\ params \in [shared_header : {"none", "raw", "ready"},
                 shared_buffer_size : {0, SHARED_MEM_SIZE}, rt_services : BOOLEAN,
                 kernel_base : {"none", "1MB", "any"}]
  /\ gGOP \in BOOLEAN
  /\ result \in {"none", "EFI_SUCCESS", "EFI_ABORTED"}
  /\ params.shared_header = "ready" => TypeOK

\* Whatever the pages held before, the IPC tests find both queues empty and
\* the statistics at zero, and every request the daemon sees from then on is
\* one the bootloader posted: the accounts balance at every step.
StartsFromEmptyQueues ==
  /\ stage = "tests" => ipc_queue_empty(kernel_to_daemon) /\ ipc_queue_empty(daemon_to_kernel)
  /\ params.shared_header = "ready" => AccountsBalance

\* efi_main returns EFI_SUCCESS only after the daemon's loop has returned on
\* initialized memory with a kernel region behind it; a boot it aborts has
\* posted nothing, never entered the loop and holds no kernel pages.
ResultMatchesBoot ==
  /\ result = "EFI_SUCCESS" =>
       /\ pc = "done" /\ params.kernel_base # "none"
       /\ params.shared_header = "ready" /\ params.rt_services
  /\ result = "EFI_ABORTED" =>
       pc = "start" /\ asked = <<>> /\ params.kernel_base = "none"

\* The requests the tests leave behind go first: a boot that returns has
\* answered both of them and then the kernel's own, each with an answer of its
\* type, although the first and the last have the same sequence number.
LeftoversAnsweredFirst ==
  result = "EFI_SUCCESS" =>
    [k \in 1 .. daemon_to_kernel.count |-> Contents(daemon_to_kernel)[k].type]
      = <<"GET_TIME", "RESET_SYSTEM", "GET_TIME">>

\* The boot reaches its end, the prompt for a key, unless the daemon has
\* reset the machine before.
BootEnds == <>(stage = "waitForKey" \/ machine = "off")

\* boot.h:67 and runtime.c:55: the header describes, and the clearing covers,
\* the entire shared memory.  So what initialize_ipc_queues writes, the whole
\* struct, lies in the pages setup_shared_memory got.
HeaderFitsBuffer ==
  params.shared_header = "ready" => SizeOfHeader <= params.shared_buffer_size

\* boot.c:391 and boot.c:394: the daemon is started "in demo mode" and the demo
\* completes; the machine is not switched off under it.
DemoCompletes == machine = "on"

=============================================================================
