------------------------ MODULE MemoryServicesProofs ------------------------
(***************************************************************************)
(* What memory.c guarantees for memory maps of any size, however often     *)
(* they change and whatever its client calls.                              *)
(*                                                                         *)
(* The argument, bottom up: the types; the buffer the globals name; the    *)
(* status of the exit; what the globals, the buffer and the boot           *)
(* parameters say of one another; and where lost buffers come from.        *)
(***************************************************************************)
EXTENDS MemoryServices, FiniteSetTheorems, TLAPS

USE EntriesAssumption, KeyAssumption, CallsAssumption, HeldAssumption

\* Every refetch is a call.
TypeInv == TypeOK /\ refetches <= calls

ExitInv ==
  /\ exitStatus = "BOOT_SUCCESS" <=> exited
  /\ exited => pc = "idle"

-----------------------------------------------------------------------------
(* Types.                                                                  *)

\* A change of the memory map keeps its key and its size within their types.
LEMMA MapStaysTyped ==
  ASSUME TypeOK, MapMayChange
  PROVE  key' \in 1 .. MaxKey /\ entries' \in 1 .. MaxEntries /\ key <= key'
BY DEF TypeOK, MapMayChange, MapChanges, map

\* What a return from memory_get_map changes, typed.
LEMMA ReturnIsTyped ==
  ASSUME TypeOK, NEW outcome \in Outcomes, GetMapReturns(outcome)
  PROVE  /\ lastGet' \in Outcomes /\ exitStatus' \in {"none", "BOOT_SUCCESS", "BOOT_ERROR"}
         /\ pc' \in {"idle", "secondAttempt"}
         /\ UNCHANGED <<exited, caller, retried, client, refetches>>
BY DEF TypeOK, GetMapReturns

\* Before the first fetch there is no map.
LEMMA TypeInvInit == Init => TypeInv
<1> SUFFICES ASSUME Init  PROVE TypeInv
  OBVIOUS
<1>1. DOMAIN live = {} /\ held \in [{"pages", "pool"} -> 0 .. MaxHeld]
  BY DEF Init
<1>2. params \in [addr : 0 .. allocs, size : Nat, key : 0 .. MaxKey]
  BY DEF Init, NULL
<1>3. /\ gMemoryMap \in 0 .. allocs /\ gMapKey \in 0 .. key /\ key \in 1 .. MaxKey
      /\ calls \in 0 .. MaxCalls /\ refetches \in 0 .. MaxCalls /\ refetches <= calls
  BY DEF Init, NULL
<1>4. QED  BY <1>1, <1>2, <1>3 DEF Init, TypeInv, TypeOK, Outcomes

\* What the history of the parameters may say.
LEMMA SinceIsTyped ==
  ASSUME TypeOK, [Next]_vars
  PROVE  since' \in SUBSET {"get", "retry"}
<1>1. since \in SUBSET {"get", "retry"}
  BY DEF TypeOK
<1>2. since' \in {since, {}, since \cup {"get"}, since \cup {"retry"}}
  BY DEF Next, GetMap, FirmwareEvent, CallGetMap, QuerySize, SizeQueryRefused, AllocateMapBuffer,
         NoMapBuffer, FetchMap, MapOutgrewBuffer, GetMapReturns, FillBootParams, AllocateMemory,
         FreeMemory, FirstAttempt, FirstAttemptFails, DropMap, SecondAttempt, SecondAttemptFails,
         client, vars
<1>3. QED  BY <1>1, <1>2

\* Every firmware call, and every change of the map, keeps the types.
LEMMA TypeInvStep ==
  ASSUME TypeInv, [Next]_vars
  PROVE  TypeInv'
<1> USE DEF TypeInv, NULL
<1>0. since' \in SUBSET {"get", "retry"}
  BY SinceIsTyped
<1>1. CASE FirmwareEvent
  BY <1>0, <1>1, MapStaysTyped
   DEF FirmwareEvent, MapMayChange, TypeOK, globals, progress, client, counts
<1>2. CASE CallGetMap
  BY <1>0, <1>2 DEF CallGetMap, Calls, TypeOK, globals, map
<1>3. CASE QuerySize
  BY <1>0, <1>3 DEF QuerySize, KeyAfterFailure, Margin, TypeOK, map, client, counts
<1>4. CASE SizeQueryRefused
  BY <1>0, <1>4, ReturnIsTyped DEF SizeQueryRefused, KeyAfterFailure, Outcomes, TypeOK, map, client
<1>5. CASE AllocateMapBuffer
  <2>1. live' = [b \in DOMAIN live \cup {allocs + 1} |->
                   IF b \in DOMAIN live THEN live[b]
                   ELSE [room |-> gMemoryMapSize, size |-> 0, key |-> 0]]
    BY <1>5 DEF AllocateMapBuffer
  <2>2. DOMAIN live' \subseteq 1 .. allocs' /\ \A b \in DOMAIN live' : live'[b] \in Buffer
    BY <1>5, <2>1 DEF AllocateMapBuffer, TypeOK, Buffer
  <2>3. gMemoryMap' \in DOMAIN live' /\ live'[gMemoryMap'].room = gMemoryMapSize'
    BY <1>5, <2>1 DEF AllocateMapBuffer, TypeOK
  <2>4. QED
    BY <1>0, <1>5, <2>2, <2>3, MapStaysTyped DEF AllocateMapBuffer, TypeOK, client
<1>6. CASE NoMapBuffer
  BY <1>0, <1>6, ReturnIsTyped DEF NoMapBuffer, Outcomes, TypeOK, map, client
<1>7. CASE FetchMap
  BY <1>0, <1>7, ReturnIsTyped DEF FetchMap, Outcomes, TypeOK, Buffer, map, client
<1>8. CASE MapOutgrewBuffer
  BY <1>0, <1>8, ReturnIsTyped, MapStaysTyped
   DEF MapOutgrewBuffer, KeyAfterFailure, Freed, Outcomes, TypeOK, client
<1>9. CASE FillBootParams
  BY <1>0, <1>9 DEF FillBootParams, Calls, TypeOK, globals, map, progress, counts
<1>10. ASSUME NEW kind \in DOMAIN held, AllocateMemory(kind) \/ FreeMemory(kind)
       PROVE  TypeInv'
  BY <1>0, <1>10, MapStaysTyped
   DEF AllocateMemory, FreeMemory, Calls, TypeOK, globals, progress, counts
<1>11. CASE FirstAttempt \/ FirstAttemptFails
  <2>1. CASE FirstAttempt
    <3>1. calls' \in 0 .. MaxCalls /\ refetches' <= calls'
      BY <2>1 DEF FirstAttempt, Calls, TypeOK, counts
    <3>2. QED  BY <1>0, <2>1, <3>1 DEF FirstAttempt, TypeOK, globals, map, counts
  <2>2. CASE FirstAttemptFails
    <3>1. calls' \in 0 .. MaxCalls /\ refetches' <= calls'
      BY <2>2 DEF FirstAttemptFails, Calls, TypeOK, counts
    <3>2. QED  BY <1>0, <2>2, <3>1 DEF FirstAttemptFails, TypeOK, globals, map, counts
  <2>3. QED  BY <1>11, <2>1, <2>2
<1>12. CASE DropMap
  BY <1>0, <1>12, MapStaysTyped DEF DropMap, Freed, MapMayChange, TypeOK, map, client, counts
<1>13. CASE SecondAttempt \/ SecondAttemptFails
  BY <1>0, <1>13 DEF SecondAttempt, SecondAttemptFails, TypeOK, globals, map, client, counts
<1>14. CASE UNCHANGED vars
  BY <1>0, <1>14 DEF vars, globals, map, progress, client, counts, TypeOK
<1>15. QED
  BY <1>1, <1>2, <1>3, <1>4, <1>5, <1>6, <1>7, <1>8, <1>9, <1>10, <1>11, <1>12, <1>13, <1>14
   DEF Next, GetMap

\* For every bound, the types, and during a fetch the room of the buffer that the
\* firmware is given.
THEOREM TypeCorrect == Spec => []TypeOK
<1>1. TypeInv => TypeOK
  BY DEF TypeInv
<1>2. QED  BY <1>1, TypeInvInit, TypeInvStep, PTL DEF Spec

-----------------------------------------------------------------------------
(* The buffer and the exit.                                                *)

\* After every firmware call the pointer is NULL or an allocated buffer, and every map fits.
LEMMA BufferStep ==
  ASSUME TypeOK, MapBufferIsSound, [Next]_vars
  PROVE  MapBufferIsSound'
<1> USE DEF MapBufferIsSound, NULL
<1>1. CASE UNCHANGED <<gMemoryMap, live>>
  BY <1>1
<1>2. CASE AllocateMapBuffer
  <2>1. live' = [b \in DOMAIN live \cup {allocs + 1} |->
                   IF b \in DOMAIN live THEN live[b]
                   ELSE [room |-> gMemoryMapSize, size |-> 0, key |-> 0]]
    BY <1>2 DEF AllocateMapBuffer
  <2>2. gMemoryMap' \in DOMAIN live'
    BY <1>2, <2>1 DEF AllocateMapBuffer
  <2>3. QED  BY <2>1, <2>2 DEF TypeOK
<1>3. CASE NoMapBuffer
  BY <1>3 DEF NoMapBuffer
<1>4. CASE FetchMap
  BY <1>4 DEF FetchMap, TypeOK, Buffer
<1>5. CASE MapOutgrewBuffer \/ DropMap
  BY <1>5 DEF MapOutgrewBuffer, DropMap, Freed
<1>6. QED
  BY <1>1, <1>2, <1>3, <1>4, <1>5
   DEF Next, GetMap, FirmwareEvent, CallGetMap, QuerySize, SizeQueryRefused, FillBootParams,
       AllocateMemory, FreeMemory, FirstAttempt, FirstAttemptFails, SecondAttempt,
       SecondAttemptFails, globals, vars

\* However often the map changes and the exit is tried, gMemoryMap never dangles
\* and the firmware never writes past a buffer.
THEOREM BufferSound == Spec => []MapBufferIsSound
<1>1. Init => MapBufferIsSound
  BY DEF Init, MapBufferIsSound, NULL
<1>2. QED  BY <1>1, BufferStep, TypeCorrect, PTL DEF Spec

\* Boot services end in the call that reports it.
LEMMA ExitInvStep ==
  ASSUME TypeOK, ExitInv, [Next]_vars
  PROVE  ExitInv'
<1> USE DEF ExitInv
<1>1. CASE UNCHANGED <<exitStatus, exited, pc>>
  BY <1>1
<1>2. CASE GetMap
  BY <1>2 DEF GetMap, QuerySize, SizeQueryRefused, AllocateMapBuffer, NoMapBuffer, FetchMap,
              MapOutgrewBuffer, GetMapReturns
<1>3. CASE CallGetMap \/ FirstAttempt \/ FirstAttemptFails \/ DropMap \/ SecondAttempt
           \/ SecondAttemptFails
  BY <1>3 DEF CallGetMap, FirstAttempt, FirstAttemptFails, DropMap, SecondAttempt,
              SecondAttemptFails, Calls
<1>4. QED
  BY <1>1, <1>2, <1>3
   DEF Next, FirmwareEvent, FillBootParams, AllocateMemory, FreeMemory, progress, vars

\* Whatever fails: success is reported exactly when boot services are gone.
THEOREM ExitStatusTrue == Spec => []ExitStatusIsTrue
<1>1. Init => ExitInv
  BY DEF Init, ExitInv
<1>2. ExitInv => ExitStatusIsTrue
  BY DEF ExitInv, ExitStatusIsTrue
<1>3. QED  BY <1>1, <1>2, ExitInvStep, TypeCorrect, PTL DEF Spec

-----------------------------------------------------------------------------
(* The hand-over of the map.                                               *)

\* memory_get_map has returned; it may be the one of a retry.
Returned == pc \in {"idle", "secondAttempt"}

\* After a fetch the globals describe the buffer.
FetchedInv ==
  (Returned /\ lastGet = "BOOT_SUCCESS") =>
    /\ gMemoryMap # NULL
    /\ live[gMemoryMap].key = gMapKey /\ live[gMemoryMap].size = gMemoryMapSize

\* No key is ever taken back: the parameters' is not later than the globals', and
\* not as late as the firmware's once a retry has begun; until memory_get_map is
\* called again it is the globals', and the firmware accepts no other than those.
KeysInv ==
  /\ params.key <= gMapKey
  /\ params.addr # NULL /\ since = {} => params.key = gMapKey
  /\ pc \notin {"idle", "dropMap"} => since # {}
  /\ pc = "dropMap" => gMapKey < key
  /\ "retry" \in since => params.key < key
  /\ exited => gMapKey = key

\* Until a retry frees a buffer the parameters name one that is filled, and never
\* the one that is still to be filled.
ParamsInv ==
  /\ params.addr # NULL /\ "retry" \notin since =>
       /\ params.addr \in DOMAIN live
       /\ live[params.addr].key = params.key /\ live[params.addr].size = params.size
  /\ pc = "fetch" => params.addr # gMemoryMap

\* The keys and addresses, as numbers.
LEMMA KeysAreNumbers ==
  ASSUME TypeOK
  PROVE  /\ gMapKey \in Nat /\ key \in Nat /\ params.key \in Nat /\ gMapKey <= key
         /\ allocs \in Nat /\ params.addr \in 0 .. allocs /\ gMemoryMap \in 0 .. allocs
BY DEF TypeOK

\* Every firmware call keeps the globals and the buffer in agreement.
LEMMA FetchedInvStep ==
  ASSUME TypeOK, MapBufferIsSound, ExitInv, FetchedInv, [Next]_vars
  PROVE  FetchedInv'
<1> USE DEF FetchedInv, Returned, NULL
<1>1. CASE FetchMap
  <2>1. /\ gMemoryMap \in DOMAIN live /\ live[gMemoryMap] \in Buffer /\ gMemoryMap' = gMemoryMap
        /\ gMemoryMap # NULL
    BY <1>1 DEF FetchMap, TypeOK
  <2>2. live'[gMemoryMap].key = gMapKey' /\ live'[gMemoryMap].size = gMemoryMapSize'
    BY <1>1, <2>1 DEF FetchMap, Buffer
  <2>3. QED  BY <1>1, <2>1, <2>2
<1>2. CASE SizeQueryRefused \/ NoMapBuffer \/ MapOutgrewBuffer
  BY <1>2 DEF SizeQueryRefused, NoMapBuffer, MapOutgrewBuffer, GetMapReturns
<1>3. CASE CallGetMap \/ QuerySize \/ AllocateMapBuffer \/ FirstAttemptFails \/ DropMap
  BY <1>3 DEF CallGetMap, QuerySize, AllocateMapBuffer, FirstAttemptFails, DropMap
<1>4. CASE UNCHANGED <<globals, live, lastGet>> /\ (Returned' => Returned)
  BY <1>4 DEF globals
<1>5. QED
  BY <1>1, <1>2, <1>3, <1>4
   DEF Next, GetMap, FirmwareEvent, FillBootParams, AllocateMemory, FreeMemory, FirstAttempt,
       SecondAttempt, SecondAttemptFails, progress, vars

\* Every step keeps the order of the keys.
LEMMA KeysInvStep ==
  ASSUME TypeOK, ExitInv, KeysInv, [Next]_vars
  PROVE  KeysInv'
<1> USE DEF KeysInv, NULL
<1>0. /\ gMapKey \in Nat /\ key \in Nat /\ params.key \in Nat /\ gMapKey <= key
  BY KeysAreNumbers
<1>1. CASE FirmwareEvent
  BY <1>0, <1>1 DEF FirmwareEvent, MapChanges, globals, progress, client
<1>2. CASE CallGetMap
  BY <1>0, <1>2 DEF CallGetMap, Calls, globals, map
<1>3. CASE QuerySize
  BY <1>0, <1>3 DEF QuerySize, KeyAfterFailure, map, client, ExitInv
<1>4. CASE SizeQueryRefused
  BY <1>0, <1>4 DEF SizeQueryRefused, GetMapReturns, KeyAfterFailure, map, client, ExitInv
<1>5. CASE AllocateMapBuffer
  <2>1. key <= key' /\ key' \in Nat
    BY <1>5, MapStaysTyped DEF AllocateMapBuffer
  <2>2. QED  BY <1>0, <1>5, <2>1 DEF AllocateMapBuffer, client, ExitInv
<1>6. CASE NoMapBuffer
  BY <1>0, <1>6 DEF NoMapBuffer, GetMapReturns, map, client, ExitInv
<1>7. CASE FetchMap
  BY <1>0, <1>7 DEF FetchMap, GetMapReturns, map, client, ExitInv
<1>8. CASE MapOutgrewBuffer
  <2>1. key <= key' /\ key' \in Nat
    BY <1>8, MapStaysTyped DEF MapOutgrewBuffer
  <2>2. QED
    BY <1>0, <1>8, <2>1 DEF MapOutgrewBuffer, GetMapReturns, KeyAfterFailure, client, ExitInv
<1>9. CASE FillBootParams
  BY <1>0, <1>9 DEF FillBootParams, Calls, globals, map, progress
<1>10. ASSUME NEW kind \in DOMAIN held, AllocateMemory(kind) \/ FreeMemory(kind)
       PROVE  KeysInv'
  <2>1. key <= key' /\ key' \in Nat
    BY <1>10, MapStaysTyped DEF AllocateMemory, FreeMemory
  <2>2. ~exited /\ pc = "idle" /\ UNCHANGED <<globals, exited, pc, params, since>>
    BY <1>10 DEF AllocateMemory, FreeMemory, Calls, progress
  <2>3. QED  BY <1>0, <2>1, <2>2 DEF globals
<1>11. CASE FirstAttempt
  BY <1>0, <1>11 DEF FirstAttempt, Calls, globals, map
<1>12. CASE FirstAttemptFails
  BY <1>0, <1>12 DEF FirstAttemptFails, Calls, globals, map
<1>13. CASE DropMap
  <2>1. key <= key' /\ key' \in Nat
    BY <1>0, <1>13, MapStaysTyped DEF DropMap, map
  <2>2. /\ pc = "dropMap" /\ pc' = "querySize" /\ "retry" \in since' /\ ~exited /\ ~exited'
        /\ UNCHANGED <<gMapKey, params>>
    BY <1>13 DEF DropMap, ExitInv
  <2>3. QED  BY <1>0, <2>1, <2>2
<1>14. CASE SecondAttempt \/ SecondAttemptFails
  BY <1>0, <1>14 DEF SecondAttempt, SecondAttemptFails, ExitInv, globals, map, client
<1>15. CASE UNCHANGED vars
  BY <1>15 DEF vars, globals, map, progress, client
<1>16. QED
  BY <1>1, <1>2, <1>3, <1>4, <1>5, <1>6, <1>7, <1>8, <1>9, <1>10, <1>11, <1>12, <1>13, <1>14,
     <1>15 DEF Next, GetMap

\* Only a retry frees what the parameters name.
LEMMA ParamsInvStep ==
  ASSUME TypeOK, MapBufferIsSound, FetchedInv, ParamsInv, [Next]_vars
  PROVE  ParamsInv'
<1> USE DEF ParamsInv, NULL
<1>0. params.addr \in 0 .. allocs /\ allocs \in Nat
  BY KeysAreNumbers
<1>1. CASE AllocateMapBuffer
  <2>1. live' = [b \in DOMAIN live \cup {allocs + 1} |->
                   IF b \in DOMAIN live THEN live[b]
                   ELSE [room |-> gMemoryMapSize, size |-> 0, key |-> 0]]
    BY <1>1 DEF AllocateMapBuffer
  <2>2. /\ gMemoryMap' = allocs + 1 /\ UNCHANGED <<params, since>>
    BY <1>1 DEF AllocateMapBuffer, client
  <2>3. \A b \in DOMAIN live : b \in DOMAIN live' /\ live'[b] = live[b]
    BY <2>1
  <2>4. QED  BY <1>0, <2>2, <2>3
<1>2. CASE FetchMap
  <2>1. params.addr # gMemoryMap /\ pc' # "fetch" /\ UNCHANGED <<params, since>>
    BY <1>2 DEF FetchMap, GetMapReturns, client
  <2>2. DOMAIN live' = DOMAIN live /\ \A b \in DOMAIN live : b # gMemoryMap => live'[b] = live[b]
    BY <1>2 DEF FetchMap
  <2>3. QED  BY <2>1, <2>2
<1>3. CASE MapOutgrewBuffer
  <2>1. params.addr # gMemoryMap /\ pc' # "fetch" /\ UNCHANGED <<params, since>>
    BY <1>3 DEF MapOutgrewBuffer, GetMapReturns, client
  <2>2. /\ DOMAIN live' = DOMAIN live \ {gMemoryMap}
        /\ \A b \in DOMAIN live' : live'[b] = live[b]
    BY <1>3 DEF MapOutgrewBuffer, Freed
  <2>3. QED  BY <2>1, <2>2
<1>4. CASE DropMap
  BY <1>4 DEF DropMap
<1>5. CASE FillBootParams
  <2>1. /\ params' = [addr |-> gMemoryMap, size |-> gMemoryMapSize, key |-> gMapKey]
        /\ UNCHANGED live /\ pc = "idle" /\ pc' = "idle"
    BY <1>5 DEF FillBootParams, Calls, progress
  <2>2. /\ gMemoryMap \in DOMAIN live
        /\ live[gMemoryMap].key = gMapKey /\ live[gMemoryMap].size = gMemoryMapSize
    BY <1>5, <2>1 DEF FillBootParams, FetchedInv, Returned, MapBufferIsSound
  <2>3. QED  BY <2>1, <2>2
<1>6. CASE UNCHANGED <<live, params>> /\ since \subseteq since' /\ pc' # "fetch"
  BY <1>6
<1>7. CASE UNCHANGED <<live, params, since, gMemoryMap, pc>>
  BY <1>7
<1>8. QED
  BY <1>1, <1>2, <1>3, <1>4, <1>5, <1>6, <1>7
   DEF Next, GetMap, FirmwareEvent, CallGetMap, QuerySize, SizeQueryRefused, NoMapBuffer,
       GetMapReturns, AllocateMemory, FreeMemory, FirstAttempt, FirstAttemptFails, SecondAttempt,
       SecondAttemptFails, Calls, globals, progress, client, vars

\* For maps of any size that change any number of times, and calls in any order:
\* parameters filled after the last memory_get_map have the key of the map the
\* firmware accepts, only a retry frees the map they name, and after a retry they
\* are never current.
THEOREM HandoffCurrent == Spec => []HandoffIsCurrent
<1>1. Init => ExitInv /\ FetchedInv /\ KeysInv /\ ParamsInv
  BY DEF Init, ExitInv, FetchedInv, KeysInv, ParamsInv, Returned, NULL
<1>2. TypeOK /\ KeysInv /\ ParamsInv => HandoffIsCurrent
  BY KeysAreNumbers DEF KeysInv, ParamsInv, HandoffIsCurrent
<1>3. QED
  BY <1>1, <1>2, ExitInvStep, FetchedInvStep, KeysInvStep, ParamsInvStep, TypeCorrect,
     BufferSound, PTL DEF Spec

-----------------------------------------------------------------------------
(* Lost buffers.                                                           *)

\* memory_get_map has been called with a map held, whose pointer it will overwrite.
AboutToLose == IF pc \in {"querySize", "allocate"} /\ gMemoryMap # NULL THEN 1 ELSE 0

LeakInv == Cardinality(DOMAIN live \ {gMemoryMap}) + AboutToLose <= refetches

\* The buffers allocated are finitely many.
LEMMA LiveIsFinite ==
  ASSUME TypeOK
  PROVE  /\ IsFiniteSet(DOMAIN live) /\ NULL \notin DOMAIN live
         /\ Cardinality(DOMAIN live \ {gMemoryMap}) \in Nat /\ Cardinality(DOMAIN live) \in Nat
<1>1. IsFiniteSet(1 .. allocs)
  <2>1. 1 \in Int /\ allocs \in Int
    BY DEF TypeOK
  <2>2. QED  BY ONLY <2>1, FS_Interval
<1>2. IsFiniteSet(DOMAIN live) /\ IsFiniteSet(DOMAIN live \ {gMemoryMap})
  BY <1>1, FS_Subset DEF TypeOK
<1>3. QED  BY <1>2, FS_CardinalityType DEF TypeOK, NULL

\* No firmware call loses a buffer but in a second fetch.
LEMMA LeakInvStep ==
  ASSUME TypeOK, LeakInv, [Next]_vars
  PROVE  LeakInv'
<1> USE DEF LeakInv, AboutToLose, NULL
<1> DEFINE Lost == Cardinality(DOMAIN live \ {gMemoryMap})
<1>n. Lost \in Nat /\ refetches \in Nat
  BY LiveIsFinite DEF TypeOK
<1>1. CASE CallGetMap
  BY <1>1, <1>n DEF CallGetMap, globals
<1>2. CASE QuerySize
  BY <1>2, <1>n DEF QuerySize, counts
<1>3. CASE SizeQueryRefused
  BY <1>3, <1>n DEF SizeQueryRefused, GetMapReturns
<1>4. CASE AllocateMapBuffer
  <2>1. DOMAIN live' \ {gMemoryMap'} = DOMAIN live /\ refetches' = refetches /\ pc' = "fetch"
    <3>1. /\ gMemoryMap' = allocs + 1 /\ DOMAIN live' = DOMAIN live \cup {allocs + 1}
          /\ refetches' = refetches /\ pc' = "fetch"
      BY <1>4 DEF AllocateMapBuffer
    <3>2. allocs \in Nat /\ DOMAIN live \subseteq 1 .. allocs
      BY DEF TypeOK
    <3>3. QED  BY <3>1, <3>2
  <2>2. Cardinality(DOMAIN live) <= Lost + (IF gMemoryMap # NULL THEN 1 ELSE 0)
    <3>1. CASE gMemoryMap \in DOMAIN live
      BY <3>1, <1>n, LiveIsFinite, FS_RemoveElement
    <3>2. CASE gMemoryMap \notin DOMAIN live
      <4>1. DOMAIN live \ {gMemoryMap} = DOMAIN live
        BY <3>2
      <4>2. QED  BY <4>1, <1>n
    <3>3. QED  BY <3>1, <3>2
  <2>3. QED  BY <1>4, <1>n, <2>1, <2>2, LiveIsFinite DEF AllocateMapBuffer
<1>5. CASE NoMapBuffer
  <2>1. CASE gMemoryMap' = gMemoryMap
    BY <1>5, <1>n, <2>1 DEF NoMapBuffer, GetMapReturns
  <2>2. CASE gMemoryMap' = NULL /\ gMemoryMap # NULL
    <3>1. Cardinality(DOMAIN live) <= Lost + 1
      BY <1>n, LiveIsFinite, FS_RemoveElement
    <3>2. DOMAIN live' \ {gMemoryMap'} = DOMAIN live
      BY <1>5, <2>2, LiveIsFinite DEF NoMapBuffer
    <3>3. QED  BY <1>5, <1>n, <2>2, <3>1, <3>2, LiveIsFinite DEF NoMapBuffer, GetMapReturns
  <2>3. QED  BY <1>5, <2>1, <2>2 DEF NoMapBuffer
<1>6. CASE FetchMap
  <2>1. DOMAIN live' = DOMAIN live
    BY <1>6 DEF FetchMap
  <2>2. QED  BY <1>6, <1>n, <2>1 DEF FetchMap, GetMapReturns
<1>7. CASE MapOutgrewBuffer \/ DropMap
  <2>1. DOMAIN live' \ {gMemoryMap'} = DOMAIN live \ {gMemoryMap}
    BY <1>7, LiveIsFinite DEF MapOutgrewBuffer, DropMap, Freed
  <2>2. refetches' = refetches /\ gMemoryMap' = NULL
    BY <1>7 DEF MapOutgrewBuffer, DropMap, GetMapReturns, counts
  <2>3. QED  BY <1>n, <2>1, <2>2
<1>8. CASE UNCHANGED <<gMemoryMap, live, refetches>> /\ pc \notin {"querySize", "allocate"}
           /\ pc' \notin {"querySize", "allocate"}
  BY <1>8
<1>9. CASE UNCHANGED <<gMemoryMap, live, refetches, pc>>
  BY <1>9
<1>10. QED
  BY <1>1, <1>2, <1>3, <1>4, <1>5, <1>6, <1>7, <1>8, <1>9
   DEF Next, GetMap, FirmwareEvent, FillBootParams, AllocateMemory, FreeMemory, FirstAttempt,
       FirstAttemptFails, SecondAttempt, SecondAttemptFails, Calls, globals, progress, counts, vars

\* However long the client goes on: every lost buffer is one that a second fetch
\* has overwritten the pointer to.
THEOREM LeaksOnlyByRefetch == Spec => []LeaksOnlyByRefetching
<1>1. Init => LeakInv
  <2>1. Init => DOMAIN live \ {gMemoryMap} = {}
    BY DEF Init
  <2>2. QED  BY <2>1, FS_EmptySet DEF Init, LeakInv, AboutToLose
<1>2. TypeOK /\ LeakInv => LeaksOnlyByRefetching
  BY LiveIsFinite DEF LeakInv, AboutToLose, LeaksOnlyByRefetching, TypeOK
<1>3. QED  BY <1>1, <1>2, LeakInvStep, TypeCorrect, PTL DEF Spec

=============================================================================
