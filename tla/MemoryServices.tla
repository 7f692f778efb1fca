--------------------------- MODULE MemoryServices ---------------------------
(***************************************************************************)
(* The memory map and the exit from boot services, src/uefi/memory.c: the  *)
(* file's globals, memory_get_map with its three firmware calls, the       *)
(* boot parameters filled from it, and memory_exit_boot_services with its  *)
(* one retry.  Between any two firmware calls an event handler of the      *)
(* firmware may change the memory map, and with it the map's key.          *)
(*                                                                         *)
(* The firmware is external: GetMemoryMap, AllocatePool, FreePool and      *)
(* ExitBootServices as the UEFI specification has them, their failures     *)
(* included.  The client that calls memory.c is external, too: it calls in *)
(* any order, but fills the boot parameters only when its last             *)
(* memory_get_map has succeeded, as boot_params_init treats every step.    *)
(*                                                                         *)
(* Sizes count descriptors.  The contents of a map are the key it had.  A  *)
(* buffer is known by the number of its allocation, so that one that was   *)
(* freed is never mistaken for a later one at the same address.            *)
(***************************************************************************)
EXTENDS Naturals, FiniteSets

CONSTANTS
  MaxEntries,  \* bound of the model: descriptors of the memory map
  MaxKey,      \* bound of the model: changes of the memory map
  MaxCalls,    \* bound of the model: calls of the client
  MaxHeld      \* bound of the model: allocations the client holds

ASSUME EntriesAssumption == MaxEntries \in Nat \ {0}
ASSUME KeyAssumption     == MaxKey \in Nat \ {0}
ASSUME CallsAssumption   == MaxCalls \in Nat
ASSUME HeldAssumption    == MaxHeld \in Nat

VARIABLES
  gMemoryMap, gMemoryMapSize, gMapKey,  \* the globals of memory.c
  key, entries,  \* firmware: the current map's key and its size
  live,          \* firmware: the map buffers allocated, with what they hold
  exited,        \* firmware: boot services are gone
  pc, caller,    \* the call in progress and, in memory_get_map, who made it
  lastGet,       \* how the last memory_get_map returned: its error messages
  exitStatus,    \* what the last memory_exit_boot_services has returned
  retried,       \* it has come to its second attempt
  params,        \* boot_params: the memory map fields
  since,         \* history: what has become of the map since they were filled
  held,          \* client: the pages and pools it has allocated
  calls,         \* history: the client's calls
  allocs,        \* history: the map buffers allocated so far
  refetches      \* history: memory_get_map calls that began with a map held

globals  == <<gMemoryMap, gMemoryMapSize, gMapKey>>
map      == <<key, entries>>
progress == <<pc, caller, lastGet, exitStatus, retried>>
client   == <<params, since, held, calls>>
counts   == <<allocs, refetches>>
vars     == <<globals, map, live, exited, progress, client, counts>>

NULL   == 0
Margin == 2     \* "Add safety margin as per UEFI specification"

Init ==
  /\ gMemoryMap = NULL /\ gMemoryMapSize = 0 /\ gMapKey = 0
  /\ key = 1 /\ entries \in 1 .. MaxEntries
  /\ live = [b \in {} |-> 0]
  /\ exited = FALSE
  /\ pc = "idle" /\ caller = "client" /\ lastGet = "none"
  /\ exitStatus = "none" /\ retried = FALSE
  /\ params = [addr |-> NULL, size |-> 0, key |-> 0] /\ since = {}
  /\ held = [kind \in {"pages", "pool"} |-> 0]
  /\ calls = 0 /\ allocs = 0 /\ refetches = 0

-----------------------------------------------------------------------------
(* The firmware.                                                           *)

\* The memory map has changed: a new key, and an entry more or less or two.
MapChanges ==
  /\ key < MaxKey
  /\ key' = key + 1
  /\ entries' \in {n \in 1 .. MaxEntries : n <= entries + 2 /\ entries <= n + 1}

\* An allocation or a release may change the map.
MapMayChange == MapChanges \/ UNCHANGED map

\* An event handler allocates or frees memory.
FirmwareEvent ==
  /\ ~exited /\ MapChanges
  /\ UNCHANGED <<globals, live, exited, progress, client, counts>>

\* GetMemoryMap with too small a buffer gives the size that is needed.  What
\* a call that fails leaves in the key is not specified: some firmware sets it.
KeyAfterFailure == gMapKey' \in {gMapKey, key}

Freed(b) == [c \in DOMAIN live \ {b} |-> live[c]]

-----------------------------------------------------------------------------
(* memory_get_map.                                                         *)

\* The client, which has boot services and no call in progress, makes a call.
Calls ==
  /\ ~exited /\ pc = "idle" /\ calls < MaxCalls
  /\ calls' = calls + 1

CallGetMap ==
  /\ Calls
  /\ pc' = "querySize" /\ caller' = "client"
  /\ refetches' = refetches + (IF gMemoryMap = NULL THEN 0 ELSE 1)
  /\ since' = since \cup {"get"}
  /\ UNCHANGED <<globals, map, live, exited, lastGet, exitStatus, retried, params, held, allocs>>

\* memory_get_map returns; in memory_exit_boot_services the retry goes on, or
\* gives up with BOOT_ERROR.
GetMapReturns(outcome) ==
  /\ lastGet' = outcome
  /\ LET retry == caller = "exit"
         ok    == outcome = "BOOT_SUCCESS"
     IN  /\ pc' = IF retry /\ ok THEN "secondAttempt" ELSE "idle"
         /\ exitStatus' = IF retry /\ ~ok THEN "BOOT_ERROR" ELSE exitStatus
  /\ UNCHANGED <<exited, caller, retried, client, refetches>>

\* The first call: whatever size an earlier map had left, and no buffer.
QuerySize ==
  /\ pc = "querySize" /\ gMemoryMapSize < entries
  /\ gMemoryMapSize' = entries + Margin
  /\ KeyAfterFailure
  /\ pc' = "allocate"
  /\ UNCHANGED <<gMemoryMap, map, live, exited, caller, lastGet, exitStatus, retried,
                 client, counts>>

\* The size given is large enough, but there is no buffer: the firmware answers
\* EFI_INVALID_PARAMETER, not EFI_BUFFER_TOO_SMALL.
SizeQueryRefused ==
  /\ pc = "querySize" /\ gMemoryMapSize >= entries
  /\ gMemoryMapSize' \in {gMemoryMapSize, entries}
  /\ KeyAfterFailure
  /\ GetMapReturns("noSize")
  /\ UNCHANGED <<gMemoryMap, map, live, allocs>>

\* A mutant: the buffer is allocated without the margin.
ForgetsMargin ==
  /\ pc = "allocate"
  /\ allocs' = allocs + 1
  /\ gMemoryMap' = allocs + 1
  /\ live' = [b \in DOMAIN live \cup {allocs + 1} |->
                IF b \in DOMAIN live THEN live[b]
                ELSE [room |-> gMemoryMapSize - Margin, size |-> 0, key |-> 0]]
  /\ MapMayChange
  /\ pc' = "fetch"
  /\ UNCHANGED <<gMemoryMapSize, gMapKey, exited, caller, lastGet, exitStatus, retried,
                 client, refetches>>

AllocateMapBuffer ==
  /\ pc = "allocate"
  /\ allocs' = allocs + 1
  /\ gMemoryMap' = allocs + 1
  /\ live' = [b \in DOMAIN live \cup {allocs + 1} |->
                IF b \in DOMAIN live THEN live[b]
                ELSE [room |-> gMemoryMapSize, size |-> 0, key |-> 0]]
  /\ MapMayChange
  /\ pc' = "fetch"
  /\ UNCHANGED <<gMemoryMapSize, gMapKey, exited, caller, lastGet, exitStatus, retried,
                 client, refetches>>

\* AllocatePool fails; what it leaves in the pointer is the firmware's choice.
NoMapBuffer ==
  /\ pc = "allocate"
  /\ gMemoryMap' \in {gMemoryMap, NULL}
  /\ GetMapReturns("noMemory")
  /\ UNCHANGED <<gMemoryMapSize, gMapKey, map, live, allocs>>

FetchMap ==
  /\ pc = "fetch" /\ gMemoryMapSize >= entries
  /\ live' = [live EXCEPT ![gMemoryMap].size = entries, ![gMemoryMap].key = key]
  /\ gMemoryMapSize' = entries /\ gMapKey' = key
  /\ GetMapReturns("BOOT_SUCCESS")
  /\ UNCHANGED <<gMemoryMap, map, allocs>>

\* A mutant: the buffer is forgotten without being freed.
LosesBuffer ==
  /\ pc = "fetch" /\ gMemoryMapSize < entries
  /\ gMemoryMapSize' = entries /\ KeyAfterFailure
  /\ gMemoryMap' = NULL
  /\ GetMapReturns("mapGrew")
  /\ UNCHANGED <<map, live, allocs>>

\* The map has outgrown the margin: the buffer is freed again.
MapOutgrewBuffer ==
  /\ pc = "fetch" /\ gMemoryMapSize < entries
  /\ gMemoryMapSize' = entries /\ KeyAfterFailure
  /\ live' = Freed(gMemoryMap) /\ gMemoryMap' = NULL
  /\ MapMayChange
  /\ GetMapReturns("mapGrew")
  /\ UNCHANGED allocs

-----------------------------------------------------------------------------
(* The boot parameters, and the client's own memory.                       *)

\* A mutant: the key is not brought up to date with the rest.
FillsWithoutKey ==
  /\ Calls /\ lastGet = "BOOT_SUCCESS" /\ gMemoryMap # NULL
  /\ params' = [params EXCEPT !.addr = gMemoryMap, !.size = gMemoryMapSize]
  /\ since' = {}
  /\ UNCHANGED <<globals, map, live, exited, progress, held, counts>>

\* memory_fill_boot_params; without a map it returns an error and does nothing.
FillBootParams ==
  /\ Calls /\ lastGet = "BOOT_SUCCESS" /\ gMemoryMap # NULL
  /\ params' = [addr |-> gMemoryMap, size |-> gMemoryMapSize, key |-> gMapKey]
  /\ since' = {}
  /\ UNCHANGED <<globals, map, live, exited, progress, held, counts>>

\* memory_allocate_pages and memory_allocate_pool, when there is memory.
AllocateMemory(kind) ==
  /\ Calls /\ held[kind] < MaxHeld
  /\ held' = [held EXCEPT ![kind] = held[kind] + 1]
  /\ MapMayChange
  /\ UNCHANGED <<globals, live, exited, progress, params, since, counts>>

\* memory_free_pages and memory_free_pool, of memory the client holds.
FreeMemory(kind) ==
  /\ Calls /\ held[kind] > 0
  /\ held' = [held EXCEPT ![kind] = held[kind] - 1]
  /\ MapMayChange
  /\ UNCHANGED <<globals, live, exited, progress, params, since, counts>>

-----------------------------------------------------------------------------
(* memory_exit_boot_services.                                              *)

FirstAttempt ==
  /\ Calls /\ gMapKey = key
  /\ exited' = TRUE /\ exitStatus' = "BOOT_SUCCESS" /\ retried' = FALSE
  /\ UNCHANGED <<globals, map, live, pc, caller, lastGet, params, since, held, counts>>

FirstAttemptFails ==
  /\ Calls /\ gMapKey # key
  /\ exitStatus' = "none" /\ retried' = FALSE
  /\ pc' = "dropMap"
  /\ UNCHANGED <<globals, map, live, exited, caller, lastGet, params, since, held, counts>>

\* A mutant: the pointer keeps its value.
KeepsPointer ==
  /\ pc = "dropMap"
  /\ live' = Freed(gMemoryMap)
  /\ (gMemoryMap # NULL /\ MapMayChange) \/ UNCHANGED map
  /\ pc' = "querySize" /\ caller' = "exit" /\ retried' = TRUE
  /\ since' = since \cup {"retry"}
  /\ UNCHANGED <<globals, exited, lastGet, exitStatus, params, held, calls, counts>>

\* The map held is freed, and memory_get_map called again.
DropMap ==
  /\ pc = "dropMap"
  /\ live' = Freed(gMemoryMap) /\ gMemoryMap' = NULL
  /\ (gMemoryMap # NULL /\ MapMayChange) \/ UNCHANGED map
  /\ pc' = "querySize" /\ caller' = "exit" /\ retried' = TRUE
  /\ since' = since \cup {"retry"}
  /\ UNCHANGED <<gMemoryMapSize, gMapKey, exited, lastGet, exitStatus, params, held, calls,
                 counts>>

SecondAttempt ==
  /\ pc = "secondAttempt" /\ gMapKey = key
  /\ exited' = TRUE /\ exitStatus' = "BOOT_SUCCESS"
  /\ pc' = "idle"
  /\ UNCHANGED <<globals, map, live, caller, lastGet, retried, client, counts>>

\* A mutant: the second attempt's status is not looked at.
IgnoresSecondFailure ==
  /\ pc = "secondAttempt" /\ gMapKey # key
  /\ exitStatus' = "BOOT_SUCCESS"
  /\ pc' = "idle"
  /\ UNCHANGED <<globals, map, live, exited, caller, lastGet, retried, client, counts>>

SecondAttemptFails ==
  /\ pc = "secondAttempt" /\ gMapKey # key
  /\ exitStatus' = "BOOT_ERROR"
  /\ pc' = "idle"
  /\ UNCHANGED <<globals, map, live, exited, caller, lastGet, retried, client, counts>>

GetMap == \/ QuerySize \/ SizeQueryRefused \/ AllocateMapBuffer \/ NoMapBuffer
          \/ FetchMap \/ MapOutgrewBuffer

Next ==
  \/ FirmwareEvent
  \/ CallGetMap \/ GetMap
  \/ FillBootParams
  \/ \E kind \in DOMAIN held : AllocateMemory(kind) \/ FreeMemory(kind)
  \/ FirstAttempt \/ FirstAttemptFails \/ DropMap \/ SecondAttempt \/ SecondAttemptFails

Spec == Init /\ [][Next]_vars

-----------------------------------------------------------------------------
(***************************************************************************)
(* Properties.                                                             *)
(***************************************************************************)

Outcomes == {"none", "BOOT_SUCCESS", "noSize", "noMemory", "mapGrew"}
Buffer   == [room : Nat, size : Nat, key : 0 .. MaxKey]

\* The types of all variables; while a map is being fetched the size passed to
\* the firmware is the room of the buffer passed with it.
TypeOK ==
  /\ gMemoryMap \in 0 .. allocs /\ gMemoryMapSize \in Nat /\ gMapKey \in 0 .. key
  /\ key \in 1 .. MaxKey /\ entries \in 1 .. MaxEntries
  /\ DOMAIN live \subseteq 1 .. allocs /\ \A b \in DOMAIN live : live[b] \in Buffer
  /\ exited \in BOOLEAN /\ retried \in BOOLEAN
  /\ pc \in {"idle", "querySize", "allocate", "fetch", "dropMap", "secondAttempt"}
  /\ caller \in {"client", "exit"}
  /\ lastGet \in Outcomes /\ exitStatus \in {"none", "BOOT_SUCCESS", "BOOT_ERROR"}
  /\ params \in [addr : 0 .. allocs, size : Nat, key : 0 .. MaxKey]
  /\ since \in SUBSET {"get", "retry"} /\ held \in [{"pages", "pool"} -> 0 .. MaxHeld]
  /\ pc = "fetch" => gMemoryMap \in DOMAIN live /\ live[gMemoryMap].room = gMemoryMapSize
  /\ calls \in 0 .. MaxCalls /\ allocs \in Nat /\ refetches \in 0 .. MaxCalls

\* gMemoryMap is NULL or a buffer that has not been freed, whichever of the
\* calls failed and however often the exit was tried; and no map is ever larger
\* than the buffer the firmware wrote it to.
MapBufferIsSound ==
  /\ gMemoryMap # NULL => gMemoryMap \in DOMAIN live
  /\ \A b \in DOMAIN live : live[b].size <= live[b].room

\* The only way a map buffer gets lost is memory_get_map's overwriting the
\* pointer to one it still holds: no failure path and no retry leaks.
LeaksOnlyByRefetching ==
  Cardinality(DOMAIN live \ {gMemoryMap}) <= refetches

\* memory_exit_boot_services returns BOOT_SUCCESS exactly when boot services are
\* gone: after the first attempt or the second, never after a failed retry.
ExitStatusIsTrue == pc = "idle" => (exitStatus = "BOOT_SUCCESS" <=> exited)

\* What the kernel is handed when boot services are gone.  Parameters filled
\* after the last memory_get_map have the key of the map the firmware accepted,
\* however often the map and the client's memory changed before or between.  A
\* later memory_get_map may leave them behind, also one that fails and refreshes
\* nothing but the key; they still describe a map as it once was, in a buffer that
\* is not freed.  A retry in memory_exit_boot_services always leaves them behind:
\* it frees the map it had, and whichever attempt succeeds, the map the firmware
\* accepts is a later one than the parameters tell.
HandoffIsCurrent ==
  (exited /\ params.addr # NULL) =>
    /\ since = {} => params.key = key
    /\ "retry" \notin since =>
         /\ params.addr \in DOMAIN live
         /\ live[params.addr].key = params.key /\ live[params.addr].size = params.size
    /\ "retry" \in since => params.key # key

\* memory.c:210 and memory.c:216: when the first attempt fails, the retry gets
\* the updated memory map.  So the exit gives up only for want of memory, for a
\* map that grew again, or at its second attempt, and not for the size query.
RetryGetsUpdatedMap ==
  (pc = "idle" /\ retried /\ exitStatus = "BOOT_ERROR") => lastGet # "noSize"

=============================================================================
