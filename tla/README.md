# A TLA+ model of DOS25

DOS25 is a UEFI bootloader (C, gnu-efi) with a *runtime daemon*: a loop that takes
requests of the kernel off a queue in shared memory, calls the UEFI runtime service each
one names and puts the answer on a second queue. This directory holds its model: TLA+
modules, TLC configurations, and proofs checked by TLAPS. Paths below are those of the
repository.

Checking a module: `tlc -config queue_steps.cfg MCIpcSharedQueue.tla`, and so for every
`.cfg` with the MC module section 3 names; proofs: `tlapm RuntimeDaemonProofs.tla`, and so for
every module whose name ends in `Proofs`.

## 1. The system

| Part | Source | State it keeps | Operations |
|---|---|---|---|
| IPC queues | `src/uefi/runtime.c` | two `ipc_queue_t` in shared memory: slots, producer and consumer index, count, capacity | `ipc_send_message`, `ipc_receive_message`, `ipc_queue_full`, `ipc_queue_empty` |
| Shared memory | `src/uefi/runtime.c`, `boot.h` | the 2 MB region, `struct shared_memory_header` at its start, statistics | `setup_shared_memory`, `initialize_ipc_queues`, `preserve_runtime_services` |
| Runtime daemon | `src/uefi/daemon.c` | `g_daemon_running`, the loop's buffers and its message count | `start_runtime_daemon`, `daemon_message_loop`, `process_message`, four handlers |
| Boot sequence | `src/uefi/main.c`, `boot.c` | `boot_params` on the stack of `efi_main` | `efi_main`, `boot_params_init`, `load_kernel`, `jump_to_kernel`, `wait_for_keypress`; uncalled: `file_exists`, `get_memory_map`, `show_boot_menu`, `prepare_kernel_handoff`, `shutdown_system` |
| IPC self-tests | `src/uefi/ipc_test.c` | none | `run_ipc_tests` and its two tests |
| Kernel interface | `include/dos25_syscalls.h` | declarations only | the kernel itself is not in the repository |
| Graphics | `src/uefi/graphics.c` | `gGOP`, `gModeInfo` | `graphics_init`, the only function called; mode search and setting, framebuffer information, pixels, rectangles, text |
| Memory services | `src/uefi/memory.c` | the memory map and its key | map retrieval, `memory_exit_boot_services` with one retry; not in `UEFI_SOURCES` |
| Files | `src/uefi/file.c` | none of its own: handles and buffers of the firmware | `load_file`, `file_exists`; not in `UEFI_SOURCES` |
| Disk image tool | `tools/dos25-disk.c` | DSF images, the outputs of extract | create, verify, extract |
| Help Me Screen | `tools/hms.c` | `choice`, and what is unread of a line | a text menu over stdin |

**Interaction.** One thread runs `efi_main`. It asks for the size of the memory map,
allocates and initializes the shared memory, remembers the runtime services, looks for
graphics and allocates room for the kernel (`boot_params_init`); then runs the IPC tests,
which leave two requests in `kernel_to_daemon`; then `jump_to_kernel` posts one more and
calls the daemon's loop as a function. In this build nothing runs beside the loop. The
shared memory, its `volatile` counters and the syscall header are made for a kernel that
does: it is the producer of `kernel_to_daemon` and the consumer of `daemon_to_kernel`,
the daemon the other end of both, and no lock or atomic instruction is between them.
`graphics.c` (but for `graphics_init`), `memory.c` and `file.c` have no caller. The two
tools are host programs: what ties them to the bootloader is the image format, and to each
other only that the Help Me Screen prints the `dos25-disk` command it "would execute".

**What is hard.** The counter both ends of a queue update without a lock; the copy of a
message while its neighbours are written; full queues (a full reply queue drops answers);
handlers that fail; services that fail or never return (`ResetSystem`); a boot whose
every allocation may fail; requests left over from the tests; loops over unsigned numbers
that may wrap; handles and buffers to be released on every path out of a function; disks
that fill up, tools that are interrupted and images that rot; lines longer than the buffer
they are read into, and an input that ends. `PROJECT.json` lists each
hazard at its line, with the properties that cover it.

**What makes each part correct.**

* queue: messages arrive whole, once, in order; the counter never leaves
  `0 .. capacity` and says how many messages wait;
* daemon: answers in the order of the requests, each to the request it names; statistics
  that account for every message; a response that is sound whatever the firmware says;
  shutdown is final; the loop ends;
* boot: the daemon only ever sees initialized memory; the result of `efi_main` tells
  what happened; the boot ends;
* memory services: no dangling or leaked map, success reported exactly when boot services
  are gone, and the map handed over is the one the firmware accepted;
* files: every handle and buffer is released on every path;
* graphics: a selected mode exists, a pixel drawn lies in the framebuffer;
* disk image tool: what create writes verify accepts, and extract gives back;
* Help Me Screen: every dialog leads back to the main menu or waits for the user, and a
  restore is one the user has confirmed.

## 2. Modules

| Module | What it is |
|---|---|
| `IpcSharedQueue` | one queue, producer and consumer at the same time, one action per load and store |
| `IpcSharedQueueProofs` | theorems about it, for every capacity |
| `IpcQueue` | the same calls as operators on a queue record, each call one step |
| `BoundedFifo` | abstract: a first-in-first-out channel of at most `Bound` messages |
| `RuntimeDaemon` | the daemon's loop and handlers beside a kernel, on two `IpcQueue`s |
| `BootSequence` | extends `RuntimeDaemon` with the bootloader around it |
| `MemoryServices` | the memory map and the exit from boot services, against a firmware whose map changes |
| `FirmwareCalls` | the functions that hold handles and buffers of the firmware, any call of which may fail |
| `Graphics` | `graphics.c`, one query or one pixel a step |
| `BootLibrary` | extends both: a session with the functions nothing in the build calls |
| `DiskImage` | the DSF image, the disk image tool, its user and the medium |
| `HelpMeScreen` | the menus as a sequence of reads from a terminal |
| `RescueTools` | extends both: a session with one of the host tools |
| `IpcQueueProofs` | lemmas about the call-level queue: what a send and a receive do to its contents |
| `RuntimeDaemonProofs` | theorems about the daemon, for every capacity, limit and set of requests |
| `BootSequenceProofs` | theorems about the boot, on those about the daemon |
| `MemoryServicesProofs` | theorems about the memory map and the exit, for maps of any size |
| `FirmwareCallsProofs` | theorems about handles and buffers, for any number of calls |
| `GraphicsProofs` | theorems about `graphics.c`, for every firmware and word size |
| `RescueToolsProofs` | theorems about both host tools, for files, lines and checksums of any size |
| `MCIpcSharedQueue`, `MCRuntimeDaemon`, `MCBootSequence`, `MCMemoryServices`, `MCBootLibrary`, `MCRescueTools` | the instances TLC checks |

### IpcSharedQueue

`sender` and `receiver` are the statement each side runs next in `ipc_send_message` and
`ipc_receive_message`. `count++` is a load into `sendReg` and a store, `count--` a load
into `recvReg` and a store: `volatile` orders them but makes neither atomic. Each index
is written by one side only, so its update is one step. `CopyMem` is two steps, header and
data, which is enough to tell a torn copy from a whole one. A call that finds the queue
full or empty changes nothing and is a stuttering step. A message is the number of the
send that wrote it. Steps are interleaved in program order (sequential consistency):
reordering of the copy and the `volatile` stores by the processor is not modelled.

`overlaps` is a history variable: how often one side loaded `count` while the other was
between its own load and store. Every lost update needs such an overlap.

### IpcQueue and RuntimeDaemon

`IpcQueue` takes a whole call as one step. It is what the queue is in this build, where
both ends run on one thread, and what it would be if the updates were atomic as their
comments say; what a queue with overlapping updates does is the subject of
`IpcSharedQueue`. `BoundedFifo` is the bridge: without an overlap the statements implement
it (`RingIsFifo`), and so do the calls (`RequestsAreFifo`, `AnswersAreFifo`).

`RuntimeDaemon` cuts the loop where the kernel can act between: start, receive, handle,
send, count, account. `process_message` has one action per case and per outcome of the handler:
`ResetSystem` (does not return), `ResetReturns`, `ResetTooShort`, `GetTime`, `SetTime`,
`SetTimeTooShort`, `GetVariable`, `Shutdown`, `Unsupported`. `SendResponse`,
`ResponseLost` and `ResponseDropped` are the three ways past line 237, and after the first two
`CountSent` and `CountLost` add to the statistics: in between the kernel may see or take the
answer that is not counted yet. The firmware's
outcomes are chosen from the statuses a service can return; for `GetVariable` with what it
leaves in `data_size` and the uninitialized `attributes` ("stack"). The timestamp is echoed
just as the sequence number is and is left out. The kernel (`KernelPost`, `KernelTake`) is
external: it builds requests as `jump_to_kernel` and the tests do and may do so at any time.

### BootSequence

One action per step of `efi_main` and of the functions it calls; `RunDaemon` takes the
daemon's own steps, the rest of `start_runtime_daemon` is its guard. Pages from the
firmware are either clean or full of old messages (`RawQueue`). `SizeOfHeader` computes
`sizeof(struct shared_memory_header)`, with the padding in front of `timestamp`.
`run_ipc_tests` is one step: its checks read what the boot has just written, and nothing
runs beside it.

### MemoryServices

The globals of `memory.c` are variables; `pc` is the firmware call that comes next in
`memory_get_map` and `memory_exit_boot_services`, since between two of them an event
handler may change the map (`FirmwareEvent`). `caller` says whether `memory_get_map` was
called by the client or by the retry. The firmware is external: `GetMemoryMap` refuses
with `EFI_BUFFER_TOO_SMALL` when the size is too small and with `EFI_INVALID_PARAMETER`
when it is not but there is no buffer, as the UEFI specification says; where it says
nothing (the key after a failure, the pointer after a failed `AllocatePool`) every choice
is explored. Nothing in the build calls `memory.c`, so its caller is external as well:
any calls in any order, except that it fills the boot parameters only after a successful
fetch. `since` is a history variable: what has happened to the map since the parameters were
filled, another `memory_get_map` or the retry's release. `lastGet` names the error message of `memory_get_map`, all of which return
`BOOT_ERROR_MEMORY`.

### FirmwareCalls

A function is data: the sequence of its firmware calls, each with what it `gets` when it
succeeds and what the function gives back (`undo`) before it returns the call's failure;
`AtEnd` is what it gives back on success and `HandsOver` what its caller then owns. Two
actions, `CallSucceeds` and `CallFails`, run all of them, with `FunctionReturns` for the
last call. `held` is the firmware's ledger, `owned` the client's. `file_exists` of `file.c`
is `load_file` whose contents are freed at the end; the function of the same name in
`boot.c` is `boot_file_exists`. The client may free what it owns, at any time between calls.

### Graphics

Each turn of a loop is an action: `QueryMode` of the two loops of `graphics_find_best_mode`,
`DrawPixel` and `NextRow` of `graphics_draw_rect`, `NextChar` of `graphics_draw_string`.
All numbers are modulo `WordSize`, which stands for 2^32, and the instance is small enough
for a rectangle to pass it. `complete` says that the steps belong to
`graphics_initialize_complete`, which goes on whatever has become of one, except of
`SetMode`; `params.call` is a history of which call filled the boot parameters. The firmware offers one of `ModeLists`, each mode with a linear framebuffer
(`scan` pixels a row, at least the width); which modes `QueryMode` refuses (`broken`) is
chosen anew for each search and fixed during it. Drawn pixels are offsets from the
framebuffer's base; colours are left out.

### DiskImage

The file's header is a record and the bytes after it a sequence. A byte is the set of its
bits and the checksum a set of bits too: `<<` moves the members up, `^` is the symmetric
difference. `calculate_checksum` runs over the whole file in the code and over the bytes
after the header here: a byte further than `Window` from the end is shifted out of the sum,
and `FilesAssumption` says that the files are longer than that. Steps of the tool are
separated where the user may interrupt it or the disk be full: `WriteImage` leaves any
beginning of the image (`Begun`), `Writes` any beginning of an output. Between commands
`ByteChanges` and `TailIsLost` damage the body of the image. `UpdateChecksum` takes any sum: the
stream is open for writing only, so the buffer the code sums is uninitialized (`Heap` in
`ReadAt`, where extract reads past the end). Sizes stay below 2^32.

### HelpMeScreen

Every function of `hms.c` is the sequence of reads it makes; `After` gives the read that
follows, by what was read at a menu. A read takes at most `Room(prompt)` characters up to
the newline, and the next read gets the rest of the line. At the end of the input `fgets`
leaves its buffer as it was: `main` acts on its last choice, which before the first read is
uninitialized, and a dialog on whatever its stack holds (`ReadPastEnd`). `misfit` records
that a line was longer than its prompt reads, or typed at a `getchar`. The user types when
the program waits.

### BootLibrary, RescueTools

Neither pair shares state, in the code or here. A session chooses one of the two at the
start, so the compositions add no interleavings, and the run's properties are those of
both parts.

## 3. Runs

| Run | Expect | Instance | Shows |
|---|---|---|---|
| `queue_steps` | pass | 3 slots, 8 sends, counter modulo 8; 66,244 states | types, `CountInRange`, `DriftBounded`, `FifoUnlessOverlapped`, `FifoStepsUnlessOverlapped` |
| `queue_lost_count` | violation | the same | `CountIsOccupancy` fails: an update of the counter is lost |
| `daemon` | pass | queues of 2, loop limit 3, 4 posts, 8 kinds of request; 663,357 states | see below |
| `daemon_unanswered` | violation | well-formed requests only | `EveryRequestAnswered` fails: `SET_VARIABLE` is handled without an answer |
| `boot` | pass | queues of 4, loop limit 5; 388 states | see below |
| `boot_layout` | violation | queue size 256 | `HeaderFitsBuffer` fails: 2,113,632 > 2,097,152 bytes |
| `boot_demo_completes` | violation | as `boot` | `DemoCompletes` fails: the tests' `RESET_SYSTEM` is carried out |
| `memory` | pass | up to 4 descriptors, 4 versions of the map, 4 calls; 203,240 states | see below |
| `memory_retry` | violation | the same | `RetryGetsUpdatedMap` fails: the retry's size query is refused |
| `library` | pass | 4 calls with resources, or 3 of graphics on screens of up to 3 x 2, words modulo 32; 123,308 states | see below |
| `tools` | pass | 3 commands and 1 fault on images of 3 to 5 bytes of 2 bits, or 9 lines typed; 135,398 states | see below |
| `disk_create_verifies` | violation | the same | `CreatedImageVerifies` fails: the checksum is that of unread memory |

**queue_steps.** Lost updates happen in this instance (the second run shows one), and
still the counter stays in range: a side that has passed its check can only find that the
other has made more room. What a lost update does break is the meaning of the counter:
it is off by at most one for each overlap, and from then on messages may be overwritten
unread or read twice. Until the first overlap the ring is a `BoundedFifo`
(`FifoStepsUnlessOverlapped`, with `waiting <- Waiting`, the slots between the indices): the
move of an index is the enqueue or the dequeue, and every other step leaves what waits alone. Eight sends take both indices more than twice around the ring;
`Modulus` 8 keeps a wrapped counter outside `0 .. 3`.

**daemon.** `AnswersInOrder`: along the round trip, kernel to daemon to kernel, sequence
numbers only grow. `AccountsBalance`: the three statistics of the shared memory, the two
queues and the request in hand account for every request posted, at every step;
`messages_sent` is one behind between the send of an answer and its count, whatever the
kernel takes meanwhile, and at no other step.
`AnswersMatchRequests`: an answer is one to a request the daemon serves, of its type, and
addressed to who asked. `AnswerDataIsSound`: no answer claims more than 4096 bytes unless
it says the variable did not fit, and none without an error carries uninitialized data.
`ServedMeansAnswered`: served requests are answered or lost to a full reply queue; errors
counts the others. `ShutdownIsFinal`, an action property; `DaemonTerminates`, liveness.
`KernelToDaemonIsFifo`, `DaemonToKernelIsFifo`: refinement of `BoundedFifo` with
`waiting <- Contents(queue)`. Queues of two fill up in both directions, the loop's limit
of three is reached with a request left over, and the eight requests take every path
through `process_message`; the code's limit of five and its 256 slots add no new case.

**boot.** `StartsFromEmptyQueues`: whatever the pages held, the tests find empty queues
and the accounts balance from then on. `ResultMatchesBoot`: `EFI_SUCCESS` only after the
daemon's loop has returned, on initialized memory and with a kernel region; an abort has
posted nothing and holds no kernel pages. `LeftoversAnsweredFirst`: the requests of the
tests are answered before the kernel's own. `BootEnds`, liveness. The state space is small
because the program is one thread; it is complete for the firmware's outcomes.

**memory.** `MapBufferIsSound`: `gMemoryMap` never dangles and no map outgrows its buffer.
`LeaksOnlyByRefetching`: no failure path and no retry loses a buffer; only a second fetch
does. `ExitStatusIsTrue`: the exit reports success exactly when boot services are gone.
`HandoffIsCurrent`, of the parameters the kernel is handed: filled after the last
`memory_get_map`, they have the key of the map the firmware accepted; a later
`memory_get_map` may leave them behind, also one that fails and refreshes only the key, but
they still describe a map of an earlier time in a buffer that is live; after a retry they
never have the accepted key, since what the firmware then accepts is a later map. A map can grow by more than the margin of two in a fetch. Four
calls are room for a fetch, the parameters and the exit tried twice, or fetches in a row.

**library.** `HandlesAreClosed`: a function that has returned has closed its handles and
freed its file information, whichever call failed. `BuffersAreAccounted`: every other
buffer is the client's, but for one from each `Read` that failed. The type invariant adds
that nothing is released that is not held. `BestModeIsFound`: the search ends with the mode
its comment promises among those that can be queried. `PixelsStayInside`: nothing is
written outside the mode in effect, also by rectangles and text that leave the screen or
wrap. `RectangleIsWhole`: success means the whole rectangle, or nothing at all where its
end passes 2^32. `FramebufferMatchesMode`: `graphics_initialize_complete` fills the
boot parameters exactly when a mode could be set, with the size of that mode, and the
pitch leads to the pixels `graphics_draw_pixel` writes in every row if the mode has no
padding, in the first row only if it has. The last part contradicts the comment of
`graphics.c:236`, "bytes per scanline": the code takes the visible width. `CallsReturn`, liveness: no loop over unsigned coordinates runs on for ever. One
firmware offers the preferred modes in the wrong order, one of the right width and the
wrong height, and a scan line longer than the width; another offers none of them.

**tools.** `VerifiedIsComplete`: verify never accepts an image cut short by a full disk, an
interrupted create or a bad copy. `DamageIsDetected`, an action property: verify never
accepts, one after the other, two images that differ in one of the last bytes (nine in the
code; two here); further from the end the shift by three has dropped bits of a byte, which
is listed as a hazard. `ExtractGivesBack`: what extract writes are the files create was
given, the kernel only if the boot file fills its sector (`kernel_offset` does not depend on
`boot_size`), as long as no write was cut short and the medium has kept what it was given. `RestoreIsConfirmed`: a restore goes ahead on a "yes" typed for it, unless a
line did not fit its prompt or the input has ended. `DialogsComeBack`, liveness: each dialog leads back
to the main menu or waits for the user. Three commands are a create, a verify and a third
after a fault; the boot files fill the sector, leave room in it and overflow it; the lines
fit every prompt, paths only, or none, and one spills a "yes" into the next read.

**Violations.** Each run checks the statement of a comment, a declaration or a message of
the repository, quoted in `PROJECT.json` under "findings".

`CHECK_DEADLOCK FALSE` in every configuration: the kernel stops at its bound of posts, the
daemon after its loop, the machine after a reset.

**Bounds.** `MaxSends` and `MaxPosts` bound the sends and the posts; all other counters
follow from them. `MaxEntries`, `MaxKey`, `MaxCalls` and `MaxHeld` bound the memory map, its
changes, the client's calls and its allocations; `MaxRequests` and `MaxGfxCalls` the calls
of the library's clients; `MaxCommands`, `MaxFaults` and `MaxLines` the commands of the disk
tool's user, the changes of the medium and the lines typed at the Help Me Screen. In `boot`
there is no bound: the program posts three requests.

**Fairness.** `WF_vars(DaemonStep)`: the loop is a sequential program that never waits,
so it takes its next step as long as the machine is on. Of the kernel nothing is assumed.
`WF_allVars(Program)`: the same for the bootloader's thread; `KeyPressed` is not fair, no
one has to press a key. `LibSpec` and `ToolSpec` have the same for a call of `graphics.c`
and for `hms`, which waits for nothing but a line of the user; nothing is assumed of the
client, the user and the medium. `IpcSharedQueue` has safety properties only and no
fairness, nor have `MemoryServices`, `FirmwareCalls` and `DiskImage`: their calls are finite
sequences.

## 4. Proofs

Each theorem states a property of section 3 for every value of the constants that satisfies
the named assumptions; the four without a property bound the number of steps that are left.

| Module | Theorem: property | Assumed of the constants |
|---|---|---|
| `IpcSharedQueueProofs` | `TypeCorrect`: `TypeOK`, `CountNeverWraps`: `CountInRange`, `DriftIsBounded`: `DriftBounded`, `FifoWithoutOverlap`: `FifoUnlessOverlapped`, `RingIsFifo`: `FifoStepsUnlessOverlapped` | a capacity > 0, a modulus above it (256 and 2^32 in the code) |
| `RuntimeDaemonProofs` | `TypeCorrect`: `TypeOK`, `AccountsHold`: `AccountsBalance`, `RequestsAreFifo`: `KernelToDaemonIsFifo`, `AnswersAreFifo`: `DaemonToKernelIsFifo`, `ShutdownFinal`: `ShutdownIsFinal`, `AnswersMatch`: `AnswersMatchRequests`, `AnswerDataSound`: `AnswerDataIsSound`, `OrderKept`: `AnswersInOrder`, `ServedAnswered`: `ServedMeansAnswered`; `LoopIsBounded` | a capacity > 0; requests with a type of the enumeration and numbers for source and size |
| `BootSequenceProofs` | `BootTypesCorrect`: `BootTypeOK`, `CleanStart`: `StartsFromEmptyQueues`, `ResultTrue`: `ResultMatchesBoot`, `LeftoversFirst`: `LeftoversAnsweredFirst`; `BootIsBounded` | room for the bootloader's three requests, which are among the kernel's, and a loop limit of three (256 slots and a limit of five in the code) |
| `MemoryServicesProofs` | `TypeCorrect`: `TypeOK`, `BufferSound`: `MapBufferIsSound`, `ExitStatusTrue`: `ExitStatusIsTrue`, `HandoffCurrent`: `HandoffIsCurrent`, `LeaksOnlyByRefetch`: `LeaksOnlyByRefetching` | bounds that are numbers |
| `FirmwareCallsProofs` | `HandlesClosed`: `HandlesAreClosed`, `BuffersAccounted`: `BuffersAreAccounted` | a bound that is a number |
| `GraphicsProofs` | `LibTypesCorrect`: `LibTypeOK`, `PixelsInside`: `PixelsStayInside`, `SearchFindsBest`: `BestModeIsFound`, `RectanglesWhole`: `RectangleIsWhole`, `FramebufferDescribed`: `FramebufferMatchesMode`; `CallsAreBounded` | modes with a linear framebuffer that fits the word, at least one preferred mode |
| `RescueToolsProofs` | `VerifiedComplete`: `VerifiedIsComplete`, `ExtractedIsOriginal`: `ExtractGivesBack`, `DamageDetected`: `DamageIsDetected`, `RestoreConfirmed`: `RestoreIsConfirmed`, `ToolTypes`: `ToolTypeOK`; `DialogsAreShort` | files that are byte sequences and longer than the checksum's window, a shift > 0 and a byte no wider than the sum; lines with a newline at their end and nowhere else |

### The queue, statement by statement

None of these properties but the types is inductive. The argument is four layers, each
proved from those below it:

1. `TypeInv`: the types, and an accepted send is within the bound of the model.
2. `CountInv`: what a side still knows of the counter it checked. After the producer's
   check `count < Capacity` stays true until its store, since the consumer stores at
   most what it loaded minus one; the loaded register has the same bound. Symmetrically
   for the consumer. This is why lost updates cannot drive the counter out of range.
3. `DriftInv`: the counter, and each loaded register, is within `Settled` of the true
   occupancy; `Settled` discounts an overlap in progress, which has not lost its update yet.
4. `RingInv`, when there was no overlap: the producer's slot is `Pending` ahead of the
   consumer's (`ProducerPlaced`), all slots between hold their message (`SlotsFilled`),
   and both copies in progress are untorn (`CopyIn`, `CopyOut`). `ProducerSlotFree` is the
   lemma that the slot being written is never one still to be read.

For `RingIsFifo`, `SlotsFilled` makes what waits on the ring the sends from `Taken + 1` to `Put`
(`WaitingIsTheSends`), so only the two steps that move an index change it.

The ring arithmetic (`NextIndexWraps`) and that u32 arithmetic is ordinary arithmetic away
from its limits (`ModulusTransparent`) are lemmas of their own.

### The daemon

`IpcQueueProofs` shows once what the calls do to `Contents`: a send appends
(`SendAppends`), a receive takes the head (`ReceiveTakesHead`); both queues are FIFOs by
those two. The daemon's invariants are then layers again:

1. `HandlerAnswers`: what each case of `process_message` leaves in the response, the status
   and the flag. Everything later cites this instead of the nine actions.
2. `TypeInv`: the types, and that a request being handled is within the loop's limit.
3. `AccountsBalance`, which is inductive above the types.
4. `PlaceInv`: the accounts give each request its place. The k-th request waiting in
   `kernel_to_daemon` is the kernel's post number "received + k" (`RequestsPlaced`), the
   request buffer holds the last one received (`BuffersPlaced`), and the answers waiting
   are in the order of the posts they name (`AnswersPlaced`).
5. `AnswersInOrder` follows: the round trip is the concatenation of three rising sequences
   (`RisingConcat`). `ServedInv` counts the served requests among the posts up to the one in
   hand, which `ServedMeansAnswered` needs.

`LoopIsBounded`: `StepsLeft` is computed from `pc` and the turns of the loop that are left.
Every step of the daemon lowers it and no step of the kernel raises it.

The boot's invariant `BootInv` says what each stage has set up. From the initialization of
the queues on it contains the daemon's `TypeInv` and `AccountsBalance`, and since the
boot's `RunDaemon` is a step of the daemon they are kept by the daemon's own lemmas.
`LeftoversAnsweredFirst` cannot follow the requests by their sequence numbers, since the
first and the last have the same. `LineInv` follows them by their place: what waits, what is
in hand and what is answered are the three posts in the order they were made, none refused
or lost, and the loop cannot end before the third. `BootStepsLeft` adds the stages ahead to
the daemon's `StepsLeft`.

### The others

* Memory: `TypeInv`, `MapBufferIsSound` and `ExitInv` are inductive in this order;
  `FetchedInv` says what is known of the map and its buffer after a fetch, `KeysInv` how
  far the keys of the parameters, the globals and the firmware can be apart, `ParamsInv` what
  the parameters still describe by what has happened `since`; `LeakInv` says where each lost
  buffer comes from.
* Files: the tables of the functions are sound, that is, what each call undoes when it fails
  is what was `Acquired` before it; so the firmware's ledger is right at every call
  (`LedgerInv`), and not only between functions.
* Graphics: a pixel that `graphics_draw_pixel` accepts does not wrap (`OffsetIsExact`), so its
  offset is that of a pixel of the screen, and the mode does not change while it is drawn on.
  `SearchInv`: the preferences and modes the search has passed over hold no match, so the
  first match is the best. `RectangleInv`: what is drawn is the rows above and the row begun,
  up to the column. `FramebufferInv` ties the boot parameters to the mode from the step that
  fills them; `PitchFinds` is the arithmetic of the pitch, with and without padding. `CallLeft` counts the turns left of the loops of a call, over coordinates that may wrap.
* Disk image tool: a header always describes the files of the last create (`ImageInv`),
  whatever has become of the bytes after it; verify compares the length with it. Reading back
  a part that is there gives that part (`BootIsRead`, `KernelIsRead`).
  For `DamageIsDetected`, two images that differ in one byte have sums that differ, from that
  byte on, in its difference shifted once for each byte behind it (`OneByteIsNoticed`); in the
  window it never leaves the word. `Sums` is a recursive function, and the induction is over
  the set of the numbers at which the claim fails, which has a least element (`WFMin` of
  `WellFoundedInduction`).
* Help Me Screen: what is unread is always the end of one line (`LineEnd`), so a read of a
  line that fits takes all of it and leaves nothing to the next (`ConfirmInv`). `ReadsLeft`
  gives each prompt the most reads before the main menu, at most five.

### Model-checked only

Liveness under fairness is out of the prover's reach: `DaemonTerminates`, `BootEnds`,
`CallsReturn` and `DialogsComeBack` stay with TLC. The half of each that is safety is proved,
for every value of the constants: there is a number of steps left that every step of the
program lowers (`LoopIsBounded`, `BootIsBounded`, `CallsAreBounded`, `DialogsAreShort`). What
TLC adds is that the program always has a step to take and, being fair, takes it. No module
declares a `RECURSIVE` operator.

## 5. Not modelled, and why

* `init_file_system` and `prepare_kernel_handoff`: they only print.
* What is printed and drawn: wording, colours, fonts, screen layout.
* The fields of `boot_params` nobody in the build reads (memory map, framebuffer): they
  are left uninitialized, which is listed as a hazard. `Graphics` and `MemoryServices` model
  the functions that would fill them.
* The buffers `QueryMode` allocates, which nothing frees (a hazard without a property);
  modes without a linear framebuffer; a firmware that refuses a mode in one turn of the
  search and offers it in the next.
* Damage to the header of an image (its magic and its offsets) and images over 4 GB.
* The kernel and the firmware, but for the calls and requests the code in `src/` makes or
  answers; `dos25_syscalls.h` has declarations only.
* Weak memory order, caches, alignment of the shared region.
* Null-pointer checks of the calls: every caller passes addresses of fields of the
  shared memory. For the same reason `RunDaemon` has no branch for an error of
  `start_runtime_daemon`, which `boot.c:392` ignores: the checks that return one cannot fail
  once the shared memory and the runtime services are set up.
* The probe for `kernel.elf` in `load_kernel` (`boot.c:216-237`): whatever it finds, only what
  is printed changes. `FirmwareCalls` has the same calls as `boot_file_exists`.
* What some properties state as an exception, because it is what the code does and nothing
  in the repository says otherwise: the buffer of a failed `Read`, the rectangle past the end
  of the numbers, boot files of another size than a sector, bytes the checksum has shifted
  out, a main menu that repeats itself at the end of the input, lines too long for their
  prompt. Each is a hazard with a note in `PROJECT.json`. Nor is it stated that create
  reports a failed write: it does not look.
* Build files, configuration and data: no behaviour.

## 6. Plan

Done, in this order: the queue at statement level and its proofs; the call-level queue
and the abstract FIFO; the daemon; the boot around it; the memory services; the functions
without a caller (files, graphics); the host tools; the proofs of all of these.

Next: `AnswerDataIsSound` and `ServedMeansAnswered` of the daemon carried over to `BootSpec`,
where the requests are the bootloader's own; that the four measures are bounded by what one
call is given (done for the daemon, the boot and the dialogs, not for the drawing calls).
