---------------------------- MODULE FirmwareCalls ----------------------------
(***************************************************************************)
(* The functions of src/uefi that open files or allocate buffers and must  *)
(* give them back: load_file and file_exists of file.c, and file_exists,   *)
(* get_memory_map and show_boot_menu of boot.c.  The build calls none of   *)
(* them, so their caller is external: any calls, one after the other.      *)
(*                                                                         *)
(* A function is the sequence of its calls of the firmware.  Each call may *)
(* fail; "gets" is what it obtains when it does not, "undo" what the       *)
(* function gives back before it returns the failure.                      *)
(***************************************************************************)
EXTENDS Naturals, Sequences

CONSTANT MaxRequests  \* bound of the model: calls of the client

ASSUME RequestsAssumption == MaxRequests \in Nat

VARIABLES
  function, step,  \* the function in progress and its next call; "none": none
  held,            \* how many of each resource the firmware has given out
  owned,           \* the client: buffers handed to it and not yet freed
  machine,         \* "on" or, after shutdown_system, "off"
  failedReads,     \* history: loads whose Read has failed
  requests

callVars == <<function, step, held, owned, machine, failedReads, requests>>

Handles   == {"root", "file"}
Buffers   == {"content", "map"}
Resources == Handles \cup Buffers \cup {"info"}

CallInit ==
  /\ function = "none" /\ step = 1
  /\ held = [r \in Resources |-> 0] /\ owned = [b \in Buffers |-> 0]
  /\ machine = "on" /\ failedReads = 0 /\ requests = 0

-----------------------------------------------------------------------------
(* The functions.                                                          *)

Firmware(gets, undo) == [gets |-> {gets} \ {"nothing"}, undo |-> undo]

\* A mutant: a file whose size cannot be told stays open.
ForgetsFile ==
  << Firmware("nothing", {}), Firmware("root", {}), Firmware("file", {"root"}),
     Firmware("nothing", {"root"}), Firmware("info", {"file", "root"}),
     Firmware("nothing", {"info", "file", "root"}),
     Firmware("content", {"info", "file", "root"}),
     Firmware("nothing", {"info", "file", "root"}) >>

load_file ==
  << Firmware("nothing", {}),                          \* LocateProtocol
     Firmware("root",    {}),                          \* OpenVolume
     Firmware("file",    {"root"}),                    \* Open
     Firmware("nothing", {"file", "root"}),            \* GetInfo, for its size
     Firmware("info",    {"file", "root"}),            \* AllocatePool
     Firmware("nothing", {"info", "file", "root"}),    \* GetInfo
     Firmware("content", {"info", "file", "root"}),    \* AllocatePool
     Firmware("nothing", {"info", "file", "root"}) >>  \* Read

boot_file_exists ==
  << Firmware("nothing", {}),                          \* HandleProtocol, the image
     Firmware("nothing", {}),                          \* HandleProtocol, its device
     Firmware("root",    {}),                          \* OpenVolume
     Firmware("file",    {"root"}) >>                  \* Open

\* A mutant: the buffer is freed when it could not be allocated, too.
FreesTooMuch ==
  << Firmware("nothing", {}), Firmware("map", {"map"}), Firmware("nothing", {"map"}) >>

get_memory_map ==
  << Firmware("nothing", {}),                          \* GetMemoryMap, for its size
     Firmware("map",     {}),                          \* AllocatePool
     Firmware("nothing", {"map"}) >>                   \* GetMemoryMap

Body == [load_file |-> load_file, file_exists |-> load_file,
         boot_file_exists |-> boot_file_exists, get_memory_map |-> get_memory_map]

\* A mutant: file_exists keeps the contents of the file it found.
KeepsContent == [load_file |-> {"info", "file", "root"}, file_exists |-> {"info", "file", "root"},
                 boot_file_exists |-> {"file", "root"}, get_memory_map |-> {}]

\* What a function gives back at its end; file_exists of file.c frees the buffer.
AtEnd == [load_file        |-> {"info", "file", "root"},
          file_exists      |-> {"info", "file", "root", "content"},
          boot_file_exists |-> {"file", "root"},
          get_memory_map   |-> {}]

\* What it hands to the client.
HandsOver == [load_file |-> {"content"}, file_exists |-> {}, boot_file_exists |-> {},
              get_memory_map |-> {"map"}]

Plus(count, set)  == [r \in DOMAIN count |-> IF r \in set THEN count[r] + 1 ELSE count[r]]
Minus(count, set) == [r \in DOMAIN count |-> IF r \in set THEN count[r] - 1 ELSE count[r]]

-----------------------------------------------------------------------------

Requests ==
  /\ machine = "on" /\ function = "none" /\ requests < MaxRequests
  /\ requests' = requests + 1

CallFunction(f) ==
  /\ Requests
  /\ function' = f /\ step' = 1
  /\ UNCHANGED <<held, owned, machine, failedReads>>

Current == Body[function][step]

CallSucceeds ==
  /\ function # "none" /\ step < Len(Body[function])
  /\ held' = Plus(held, Current.gets)
  /\ step' = step + 1
  /\ UNCHANGED <<function, owned, machine, failedReads, requests>>

\* The last call succeeds and the function returns.
FunctionReturns ==
  /\ function # "none" /\ step = Len(Body[function])
  /\ held' = Minus(Plus(held, Current.gets), AtEnd[function])
  /\ owned' = Plus(owned, HandsOver[function])
  /\ function' = "none" /\ step' = 1
  /\ UNCHANGED <<machine, failedReads, requests>>

\* A call fails; the functions return the error, or FALSE.
CallFails ==
  /\ function # "none"
  /\ held' = Minus(held, Current.undo)
  /\ failedReads' = IF function \in {"load_file", "file_exists"} /\ step = Len(load_file)
                    THEN failedReads + 1 ELSE failedReads
  /\ function' = "none" /\ step' = 1
  /\ UNCHANGED <<owned, machine, requests>>

ClientFrees(b) ==
  /\ machine = "on" /\ function = "none" /\ owned[b] > 0
  /\ owned' = Minus(owned, {b}) /\ held' = Minus(held, {b})
  /\ UNCHANGED <<function, step, machine, failedReads, requests>>

\* A key is pressed; all but '4' go on with the boot, and so does a shutdown
\* from which ResetSystem returns.
show_boot_menu(key) ==
  /\ Requests
  /\ machine' \in IF key = "4" THEN {"off", "on"} ELSE {"on"}
  /\ UNCHANGED <<function, step, held, owned, failedReads>>

CallProgram == CallSucceeds \/ FunctionReturns \/ CallFails

CallNext ==
  \/ CallProgram
  \/ \E f \in DOMAIN Body : CallFunction(f)
  \/ \E b \in Buffers : ClientFrees(b)
  \/ \E key \in {"1", "4"} : show_boot_menu(key)

-----------------------------------------------------------------------------
(***************************************************************************)
(* Properties.                                                             *)
(***************************************************************************)

\* The types of all variables: nothing is closed or freed that is not held, on
\* any of the paths out of a function, as the counts never fall below zero.
CallTypeOK ==
  /\ function \in DOMAIN Body \cup {"none"} /\ step \in 1 .. Len(load_file)
  /\ held \in [Resources -> Nat] /\ owned \in [Buffers -> Nat]
  /\ machine \in {"on", "off"}
  /\ failedReads \in 0 .. requests /\ requests \in 0 .. MaxRequests

\* Whichever call failed, and however often: a function that has returned has
\* closed its handles and freed its file info.
HandlesAreClosed ==
  function = "none" => \A r \in Handles \cup {"info"} : held[r] = 0

\* Every buffer that is still allocated belongs to the client, but for one from
\* each Read that failed: file.c frees the contents on no path that fails.
BuffersAreAccounted ==
  function = "none" =>
    /\ held["content"] = owned["content"] + failedReads
    /\ held["map"] = owned["map"]

=============================================================================
