----------------------------- MODULE BootLibrary -----------------------------
(* The functions of src/uefi that the build never calls, some of which it    *)
(* does not even compile: those that hold resources of the firmware and      *)
(* those for graphics.  They share no state: a session is with one kind.     *)
EXTENDS FirmwareCalls, Graphics

VARIABLE session

libVars == <<session, callVars, gfxVars>>

\* The modes are of no interest to the functions with resources.
LibInit ==
  /\ CallInit /\ GfxInit
  /\ session \in {"calls", "graphics"} /\ (session = "calls" => mode = 0)

CallStep     == session = "calls" /\ CallNext /\ UNCHANGED <<session, gfxVars>>
GraphicsStep == session = "graphics" /\ GfxNext /\ UNCHANGED <<session, callVars>>

LibNext == CallStep \/ GraphicsStep

\* A call of graphics.c is sequential code that waits for nothing.
LibSpec ==
  /\ LibInit /\ [][LibNext]_libVars
  /\ WF_libVars(session = "graphics" /\ GfxProgram /\ UNCHANGED <<session, callVars>>)

\* The types of the variables of both parts, and that nothing is released that is
\* not held.
LibTypeOK == CallTypeOK /\ GfxTypeOK

=============================================================================
