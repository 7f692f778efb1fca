------------------------- MODULE FirmwareCallsProofs -------------------------
(***************************************************************************)
(* What the functions of FirmwareCalls guarantee for any number of calls:  *)
(* no path out of a function leaks or frees twice.                         *)
(*                                                                         *)
(* The argument: the tables of the functions are sound, that is, what each *)
(* call undoes when it fails is what was Acquired before it; so the ledger *)
(* of the firmware is right at every call, and not only between functions. *)
(***************************************************************************)
EXTENDS BootLibrary, TLAPS

Loading == {"load_file", "file_exists"}

\* What function f has obtained when it makes call s.
Acquired(f, s) ==
  {r \in Resources :
     \/ f \in Loading /\ r = "root" /\ s > 2
     \/ f \in Loading /\ r = "file" /\ s > 3
     \/ f \in Loading /\ r = "info" /\ s > 5
     \/ f \in Loading /\ r = "content" /\ s > 7
     \/ f = "boot_file_exists" /\ r = "root" /\ s > 3
     \/ f = "get_memory_map" /\ r = "map" /\ s > 2}

Has(f, s, r) == IF f # "none" /\ r \in Acquired(f, s) THEN 1 ELSE 0

\* The ledger of the firmware at every call, not only between functions.
LedgerInv ==
  /\ \A r \in Handles \cup {"info"} : held[r] = Has(function, step, r)
  /\ held["content"] = owned["content"] + failedReads + Has(function, step, "content")
  /\ held["map"] = owned["map"] + Has(function, step, "map")

CallInv ==
  /\ CallTypeOK
  /\ function # "none" => step \in 1 .. Len(Body[function]) /\ failedReads < requests
  /\ LedgerInv

\* What the tables of the functions say of one of their calls.
Sound(f, s) ==
  /\ Acquired(f, s) \cap Body[f][s].gets = {}
  /\ s < Len(Body[f]) => Acquired(f, s + 1) = Acquired(f, s) \cup Body[f][s].gets
  /\ s = Len(Body[f]) => /\ AtEnd[f] \cup HandsOver[f] = Acquired(f, s) \cup Body[f][s].gets
                         /\ AtEnd[f] \cap HandsOver[f] = {}
  /\ Body[f][s].undo = Acquired(f, s) \ {"content"}
  /\ "content" \in Acquired(f, s) <=> f \in Loading /\ s = Len(load_file)
  /\ Body[f][s].gets \subseteq Resources /\ HandsOver[f] \subseteq Buffers
  /\ Acquired(f, 1) = {}

\* Each call of load_file, and so of the file_exists that calls it, gives back on
\* failure what was obtained before it, but for the contents; what the last one
\* leaves is released or handed over.
LEMMA LoadIsSound ==
  ASSUME NEW f \in Loading, NEW s \in 1 .. Len(Body[f])
  PROVE  Sound(f, s) /\ Len(Body[f]) = 8 /\ Len(load_file) = 8
<1>1. Body[f] = load_file
  BY DEF Body, Loading
<1>2. Len(load_file) = 8
  BY DEF load_file
<1>3. AtEnd[f] \cup HandsOver[f] = {"info", "file", "root", "content"}
      /\ AtEnd[f] \cap HandsOver[f] = {} /\ HandsOver[f] \subseteq Buffers
  <2>1. CASE f = "load_file"
    BY <2>1 DEF AtEnd, HandsOver, Buffers
  <2>2. CASE f = "file_exists"
    BY <2>2 DEF AtEnd, HandsOver, Buffers
  <2>3. QED  BY <2>1, <2>2 DEF Loading
<1>4. Acquired(f, 1) = {}
  BY DEF Acquired, Loading
<1> DEFINE Holds(n) ==
      {r \in Resources : \/ r = "root" /\ n > 2
                         \/ r = "file" /\ n > 3
                         \/ r = "info" /\ n > 5
                         \/ r = "content" /\ n > 7}
<1>5. \A n \in Nat : Acquired(f, n) = Holds(n)
  BY DEF Acquired, Loading
<1>6. CASE s = 1
  BY <1>1, <1>2, <1>3, <1>4, <1>5, <1>6
     DEF Sound, load_file, Firmware, Resources, Handles, Buffers
<1>7. CASE s = 2
  BY <1>1, <1>2, <1>3, <1>4, <1>5, <1>7
     DEF Sound, load_file, Firmware, Resources, Handles, Buffers
<1>8. CASE s = 3
  BY <1>1, <1>2, <1>3, <1>4, <1>5, <1>8
     DEF Sound, load_file, Firmware, Resources, Handles, Buffers
<1>9. CASE s = 4
  BY <1>1, <1>2, <1>3, <1>4, <1>5, <1>9
     DEF Sound, load_file, Firmware, Resources, Handles, Buffers
<1>10. CASE s = 5
  BY <1>1, <1>2, <1>3, <1>4, <1>5, <1>10
     DEF Sound, load_file, Firmware, Resources, Handles, Buffers
<1>11. CASE s = 6
  BY <1>1, <1>2, <1>3, <1>4, <1>5, <1>11
     DEF Sound, load_file, Firmware, Resources, Handles, Buffers
<1>12. CASE s = 7
  BY <1>1, <1>2, <1>3, <1>4, <1>5, <1>12
     DEF Sound, load_file, Firmware, Resources, Handles, Buffers
<1>13. CASE s = 8
  BY <1>1, <1>2, <1>3, <1>4, <1>5, <1>13
     DEF Sound, load_file, Firmware, Resources, Handles, Buffers
<1>14. QED  BY <1>1, <1>2, <1>6, <1>7, <1>8, <1>9, <1>10, <1>11, <1>12, <1>13

\* The same of every function.
LEMMA TablesAreSound ==
  ASSUME NEW f \in DOMAIN Body, NEW s \in 1 .. Len(Body[f])
  PROVE  Sound(f, s) /\ Len(Body[f]) \in 1 .. Len(load_file) /\ Len(load_file) = 8
<1>1. Len(load_file) = 8
  BY DEF load_file
<1>2. CASE f \in Loading
  BY <1>2, LoadIsSound
<1>3. CASE f = "boot_file_exists"
  BY <1>1, <1>3 DEF boot_file_exists, Body, Firmware, AtEnd, HandsOver, Sound, Acquired, Loading,
                    Resources, Handles, Buffers
<1>4. CASE f = "get_memory_map"
  BY <1>1, <1>4 DEF get_memory_map, Body, Firmware, AtEnd, HandsOver, Sound, Acquired, Loading,
                    Resources, Handles, Buffers
<1>5. QED  BY <1>2, <1>3, <1>4 DEF Body, Loading

\* Before the first call nothing is held.
LEMMA CallInvInit == CallInit => CallInv
BY TablesAreSound, RequestsAssumption
   DEF CallInit, CallInv, CallTypeOK, LedgerInv, Has, Resources, Handles, Buffers, load_file

\* Every call of the firmware, and every return, keeps the ledger right.
LEMMA CallInvStep ==
  ASSUME CallInv, [CallNext]_callVars
  PROVE  CallInv'
<1>t. CallTypeOK /\ LedgerInv
  BY DEF CallInv
<1>n. /\ failedReads \in Nat /\ requests \in Nat /\ Buffers \subseteq Resources
      /\ \A b \in Buffers : held[b] \in Nat /\ owned[b] \in Nat
  BY <1>t DEF CallTypeOK, Resources
<1>s. Handles \cup {"info"} \subseteq Resources /\ (Handles \cup {"info"}) \cap Buffers = {}
  BY DEF Resources, Handles, Buffers
<1> DEFINE Now  == Acquired(function, step)
           Gets == Body[function][step].gets
<1>0. ASSUME function # "none"
      PROVE  /\ Sound(function, step) /\ Now \subseteq Resources /\ failedReads < requests
             /\ step \in 1 .. Len(Body[function])
             /\ function \in DOMAIN Body /\ Len(Body[function]) \in 1 .. 8 /\ Len(load_file) = 8
             /\ \A r \in Resources : Has(function, step, r) = IF r \in Now THEN 1 ELSE 0
  BY <1>t, <1>0, TablesAreSound DEF CallTypeOK, CallInv, Acquired, Has
<1>1. CASE CallSucceeds
  <2>1. Acquired(function, step + 1) = Now \cup Gets /\ Now \cap Gets = {} /\ Gets \subseteq Resources
    BY <1>1, <1>0 DEF CallSucceeds, Sound
  <2>2. \A r \in Resources : held'[r] = held[r] + IF r \in Gets THEN 1 ELSE 0
    BY <1>t, <1>1 DEF CallSucceeds, Plus, Current, CallTypeOK
  <2>3. \A r \in Resources : Has(function', step', r) = Has(function, step, r) + IF r \in Gets THEN 1 ELSE 0
    BY <1>1, <1>0, <2>1 DEF CallSucceeds, Has
  <2>4. LedgerInv'
    <3>1. \A r \in Handles \cup {"info"} : held'[r] = Has(function', step', r)
      BY <1>t, <2>2, <2>3, <1>0, <1>1 DEF LedgerInv, Resources, CallSucceeds
    <3>2. \A b \in Buffers : held'[b] - Has(function', step', b) = held[b] - Has(function, step, b)
      <4> SUFFICES ASSUME NEW b \in Buffers
                   PROVE  held'[b] - Has(function', step', b) = held[b] - Has(function, step, b)
        OBVIOUS
      <4>1. b \in Resources /\ held[b] \in Nat /\ Has(function, step, b) \in {0, 1}
        BY <1>n, <1>0, <1>1 DEF CallSucceeds
      <4>2. QED  BY <4>1, <2>2, <2>3
    <3>3. \A b \in Buffers : held'[b] \in Nat /\ Has(function', step', b) \in Nat /\ Has(function, step, b) \in Nat
      BY <1>n, <1>0, <1>1, <2>2, <2>3 DEF CallSucceeds
    <3>4. /\ held["content"] - Has(function, step, "content") = owned["content"] + failedReads
          /\ held["map"] - Has(function, step, "map") = owned["map"]
      BY <1>t, <1>n, <3>3 DEF LedgerInv, Buffers
    <3>5. /\ held'["content"] = owned["content"] + failedReads + Has(function', step', "content")
          /\ held'["map"] = owned["map"] + Has(function', step', "map")
      <4>1. \A a, b, c, d \in Nat, e \in Nat : a - b = c - d /\ c - d = e => a = e + b
        OBVIOUS
      <4>2. "content" \in Buffers /\ "map" \in Buffers
        BY DEF Buffers
      <4>3. held["content"] \in Nat /\ held["map"] \in Nat
            /\ owned["content"] + failedReads \in Nat /\ owned["map"] \in Nat
        BY <1>n, <4>2
      <4>4. QED  BY <3>2, <3>3, <3>4, <4>1, <4>2, <4>3
    <3>6. QED  BY <1>1, <3>1, <3>5 DEF LedgerInv, CallSucceeds
  <2>5. held' \in [Resources -> Nat]
    BY <1>t, <1>1 DEF CallSucceeds, CallTypeOK, Plus
  <2>6. step' \in 1 .. Len(Body[function']) /\ step' \in 1 .. 8
    <3> DEFINE n == Len(Body[function])
    <3>1. step \in 1 .. n /\ n \in 1 .. 8 /\ step < n
      BY <1>1, <1>0 DEF CallSucceeds
    <3> HIDE DEF n
    <3>2. step + 1 \in 1 .. n /\ step + 1 \in 1 .. 8
      BY <3>1
    <3>3. QED  BY <1>1, <3>2 DEF CallSucceeds, n
  <2>7. QED  BY <1>t, <1>1, <1>0, <2>4, <2>5, <2>6 DEF CallSucceeds, CallTypeOK, CallInv
<1>2. CASE FunctionReturns
  <2> DEFINE Ends  == AtEnd[function]
             Hands == HandsOver[function]
  <2>1. /\ Ends \cup Hands = Now \cup Gets /\ Ends \cap Hands = {} /\ Now \cap Gets = {}
        /\ Hands \subseteq Buffers
    BY <1>2, <1>0 DEF FunctionReturns, Sound
  <2>2. \A r \in Resources :
           held'[r] = held[r] + (IF r \in Gets THEN 1 ELSE 0) - (IF r \in Ends THEN 1 ELSE 0)
    BY <1>t, <1>2 DEF FunctionReturns, Plus, Minus, Current, CallTypeOK
  <2>3. \A b \in Buffers : owned'[b] = owned[b] + IF b \in Hands THEN 1 ELSE 0
    BY <1>t, <1>2 DEF FunctionReturns, Plus, CallTypeOK
  <2>4. \A r \in Resources : Has(function', step', r) = 0
    BY <1>2 DEF FunctionReturns, Has
  <2> DEFINE One(r, S) == IF r \in S THEN 1 ELSE 0
  <2>a. \A r \in Resources : Has(function, step, r) = One(r, Now)
    BY <1>2, <1>0 DEF FunctionReturns
  <2>b. \A r : One(r, Now) + One(r, Gets) - One(r, Ends) = One(r, Hands)
    BY <2>1
  <2>5. \A r \in Handles \cup {"info"} : held'[r] = 0
    <3> SUFFICES ASSUME NEW r \in Handles \cup {"info"}  PROVE held'[r] = 0
      OBVIOUS
    <3>1. r \in Resources /\ r \notin Hands
      BY <1>s, <2>1
    <3>2. held[r] = One(r, Now)
      BY <1>t, <3>1, <2>a DEF LedgerInv
    <3>3. QED  BY <3>1, <3>2, <2>b, <2>2
  <2>6. \A b \in Buffers : held'[b] = held[b] - Has(function, step, b) + owned'[b] - owned[b]
    <3> SUFFICES ASSUME NEW b \in Buffers
                 PROVE  held'[b] = held[b] - Has(function, step, b) + owned'[b] - owned[b]
      OBVIOUS
    <3>1. b \in Resources /\ held[b] \in Nat /\ owned[b] \in Nat
      BY <1>t DEF Resources, CallTypeOK
    <3>2. QED  BY <3>1, <2>a, <2>b, <2>2, <2>3
  <2>7. LedgerInv'
    <3>1. \A b \in Buffers : /\ held[b] \in Nat /\ owned[b] \in Nat /\ failedReads \in Nat
                            /\ owned'[b] \in Nat /\ Has(function, step, b) \in Nat
      BY <1>t, <2>a, <2>3 DEF Resources, CallTypeOK
    <3>2. held'["content"] = owned'["content"] + failedReads /\ held'["map"] = owned'["map"]
      BY <1>t, <3>1, <2>6 DEF LedgerInv, Buffers
    <3>3. function' = "none" /\ UNCHANGED failedReads
      BY <1>2 DEF FunctionReturns
    <3>4. \A r : Has(function', step', r) = 0
      BY ONLY <3>3 DEF Has
    <3>5. QED  BY ONLY <2>5, <3>1, <3>2, <3>3, <3>4 DEF LedgerInv, Buffers
  <2>8. owned' \in [Buffers -> Nat]
    BY <1>t, <1>2 DEF FunctionReturns, CallTypeOK, Plus
  <2>9. held' \in [Resources -> Nat]
    <3>1. DOMAIN held' = Resources /\ held' = [r \in Resources |-> held'[r]]
      BY <1>t, <1>2 DEF FunctionReturns, CallTypeOK, Plus, Minus
    <3>2. \A r \in Resources : held'[r] \in Nat
      BY <1>t, <1>2, <2>5, <2>7, <2>8, <2>4
       DEF FunctionReturns, LedgerInv, Resources, Buffers, CallTypeOK
    <3>3. QED  BY <3>1, <3>2
  <2>10. QED  BY <1>t, <1>2, <1>0, <2>7, <2>8, <2>9 DEF FunctionReturns, CallTypeOK, CallInv
<1>3. CASE CallFails
  <2> DEFINE Undo == Body[function][step].undo
  <2>1. /\ Undo = Now \ {"content"}
        /\ "content" \in Now <=> function \in Loading /\ step = Len(load_file)
    BY <1>3, <1>0 DEF CallFails, Sound
  <2>2. \A r \in Resources : held'[r] = held[r] - (IF r \in Undo THEN 1 ELSE 0)
    BY <1>t, <1>3 DEF CallFails, Minus, Current, CallTypeOK
  <2>3. \A r \in Resources : Has(function', step', r) = 0
    BY <1>3 DEF CallFails, Has
  <2>4. failedReads' = failedReads + Has(function, step, "content")
    BY <1>t, <1>3, <1>0, <2>1 DEF CallFails, Loading, Resources, Buffers, CallTypeOK
  <2>5. \A r \in Handles \cup {"info"} : held'[r] = 0
    BY <1>t, <1>0, <1>3, <2>1, <2>2
     DEF CallFails, LedgerInv, Resources, Handles, Buffers, CallTypeOK
  <2>6. held'["content"] = held["content"] /\ held'["map"] = owned["map"]
    BY <1>t, <1>0, <1>3, <2>1, <2>2 DEF CallFails, LedgerInv, Resources, Buffers, CallTypeOK
  <2>7. LedgerInv'
    <3>1. \A b \in Buffers : Has(function, step, b) \in Nat
      BY <1>n, <1>0, <1>3 DEF CallFails
    <3>2. held["content"] = owned["content"] + failedReads'
      BY <1>t, <1>n, <2>4, <3>1 DEF LedgerInv, Buffers
    <3>3. QED  BY <1>n, <1>3, <2>3, <2>4, <2>5, <2>6, <3>1, <3>2
                DEF CallFails, LedgerInv, Resources, Buffers
  <2>8. held' \in [Resources -> Nat]
    <3>1. DOMAIN held' = Resources /\ held' = [r \in Resources |-> held'[r]]
      BY <1>t, <1>3 DEF CallFails, CallTypeOK, Minus
    <3>2. \A r \in Resources : held'[r] \in Nat
      BY <1>t, <1>3, <2>5, <2>6 DEF CallFails, Resources, Buffers, CallTypeOK
    <3>3. QED  BY <3>1, <3>2
  <2>9. failedReads' \in 0 .. requests'
    BY <1>t, <1>3, <1>0, <2>4 DEF CallFails, Resources, Buffers, CallTypeOK
  <2>10. QED  BY <1>t, <1>3, <1>0, <2>7, <2>8, <2>9 DEF CallFails, CallTypeOK, CallInv
<1>4. ASSUME NEW f \in DOMAIN Body, CallFunction(f)
      PROVE  CallInv'
  <2>1. Acquired(f, 1) = {} /\ 1 \in 1 .. Len(Body[f]) /\ 1 \in 1 .. Len(load_file)
    <3>1. Len(Body[f]) \in 1 .. 8 /\ Len(load_file) = 8
      BY DEF Body, boot_file_exists, get_memory_map, load_file
    <3> DEFINE n == Len(Body[f])
    <3>2. n \in 1 .. 8 /\ 1 \in 1 .. Len(load_file)
      BY <3>1
    <3> HIDE DEF n
    <3>3. 1 \in 1 .. n
      BY <3>2
    <3>4. QED  BY <3>2, <3>3, TablesAreSound DEF Sound, n
  <2>2. \A r \in Resources : Has(function, step, r) = 0 /\ Has(function', step', r) = 0
    BY <1>4, <2>1 DEF CallFunction, Requests, Has
  <2>3. LedgerInv'
    BY <1>t, <1>4, <2>2 DEF CallFunction, LedgerInv, Resources, Buffers
  <2>4. CallTypeOK'
    BY <1>t, <1>n, <1>4, <2>1, RequestsAssumption DEF CallFunction, Requests, CallTypeOK
  <2>5. step' \in 1 .. Len(Body[function']) /\ failedReads' < requests'
    BY <1>t, <1>n, <1>4, <2>1 DEF CallFunction, Requests, CallTypeOK
  <2>6. QED  BY <2>3, <2>4, <2>5 DEF CallInv
<1>5. ASSUME NEW b \in Buffers, ClientFrees(b)
      PROVE  CallInv'
  <2>1. /\ owned' = [owned EXCEPT ![b] = owned[b] - 1] /\ held' = [held EXCEPT ![b] = held[b] - 1]
    BY <1>t, <1>5 DEF ClientFrees, Minus, CallTypeOK, Resources
  <2>2. \A r \in Resources : Has(function, step, r) = 0 /\ Has(function', step', r) = 0
    BY <1>5 DEF ClientFrees, Has
  <2>3. held[b] > 0
    BY <1>t, <1>5, <2>2 DEF ClientFrees, LedgerInv, Resources, Buffers, CallTypeOK
  <2>4. LedgerInv'
    <3>1. CASE b = "content"
      BY <1>t, <1>5, <2>1, <2>2, <3>1 DEF ClientFrees, LedgerInv, Resources, Handles, Buffers, CallTypeOK
    <3>2. CASE b = "map"
      BY <1>t, <1>5, <2>1, <2>2, <3>2 DEF ClientFrees, LedgerInv, Resources, Handles, Buffers, CallTypeOK
    <3>3. QED  BY <3>1, <3>2 DEF Buffers
  <2>5. owned' \in [Buffers -> Nat] /\ held' \in [Resources -> Nat]
    <3>1. owned[b] - 1 \in Nat /\ held[b] - 1 \in Nat
      BY <1>n, <1>5, <2>3 DEF ClientFrees
    <3>2. QED  BY <1>t, <2>1, <3>1 DEF CallTypeOK
  <2>6. QED  BY <1>t, <1>5, <2>4, <2>5 DEF ClientFrees, CallTypeOK, CallInv
<1>6. ASSUME NEW key \in {"1", "4"}, show_boot_menu(key)
      PROVE  CallInv'
  <2>1. LedgerInv'
    BY <1>t, <1>6 DEF show_boot_menu, LedgerInv, Has
  <2>2. CallTypeOK'
    BY <1>t, <1>n, <1>6, RequestsAssumption DEF show_boot_menu, Requests, CallTypeOK
  <2>3. QED  BY <1>6, <2>1, <2>2 DEF show_boot_menu, Requests, CallInv
<1>7. CASE UNCHANGED callVars
  BY <1>t, <1>7 DEF callVars, CallTypeOK, LedgerInv, Has, CallInv
<1>8. QED
  BY <1>1, <1>2, <1>3, <1>4, <1>5, <1>6, <1>7 DEF CallNext, CallProgram

\* A session keeps the invariant, whichever functions it is with.
LEMMA CallInvHolds == LibSpec => []CallInv
<1>1. LibInit => CallInv
  BY CallInvInit DEF LibInit
<1>2. CallInv /\ [LibNext]_libVars => CallInv'
  <2> SUFFICES ASSUME CallInv, [LibNext]_libVars  PROVE CallInv'
    OBVIOUS
  <2>1. [CallNext]_callVars
    BY DEF LibNext, CallStep, GraphicsStep, libVars
  <2>2. QED  BY <2>1, CallInvStep
<1>3. QED  BY <1>1, <1>2, PTL DEF LibSpec

\* Whichever call of the firmware fails, and however often the functions are
\* called: one that has returned has closed its handles and freed its file info.
THEOREM HandlesClosed == LibSpec => []HandlesAreClosed
<1>1. CallInv => HandlesAreClosed
  BY DEF CallInv, LedgerInv, HandlesAreClosed, Has
<1>2. QED  BY <1>1, CallInvHolds, PTL

\* For any number of calls, every buffer still allocated is the client's or that
\* of a Read that failed.
THEOREM BuffersAccounted == LibSpec => []BuffersAreAccounted
<1>1. CallInv => BuffersAreAccounted
  <2> SUFFICES ASSUME CallInv, function = "none"
               PROVE  held["content"] = owned["content"] + failedReads /\ held["map"] = owned["map"]
    BY DEF BuffersAreAccounted
  <2>1. owned["content"] \in Nat /\ owned["map"] \in Nat /\ failedReads \in Nat
    BY DEF CallInv, CallTypeOK, Buffers
  <2>2. QED  BY <2>1 DEF CallInv, LedgerInv, Has
<1>2. QED  BY <1>1, CallInvHolds, PTL

=============================================================================
