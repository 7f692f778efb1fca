----------------------------- MODULE RescueTools -----------------------------
(* The two tools of src/tools at one terminal.  They share nothing: the Help *)
(* Me Screen only prints the dos25-disk commands it "would execute".  So a   *)
(* session is with one of them.                                              *)
EXTENDS DiskImage, HelpMeScreen

VARIABLE tool

toolVars == <<tool, diskVars, hmsVars>>

\* main's uninitialized choice is of no interest to the other tool.
ToolInit ==
  /\ DiskInit /\ HmsInit
  /\ tool \in {"dos25-disk", "hms"} /\ (tool = "dos25-disk" => choice = "x")

DiskStep == tool = "dos25-disk" /\ DiskNext /\ UNCHANGED <<tool, hmsVars>>
HmsStep  == tool = "hms" /\ HmsNext /\ UNCHANGED <<tool, diskVars>>

ToolNext == DiskStep \/ HmsStep

\* hms is a sequential program: it goes on as long as it need not wait for the user.
ToolSpec ==
  /\ ToolInit /\ [][ToolNext]_toolVars
  /\ WF_toolVars(tool = "hms" /\ HmsProgram /\ UNCHANGED <<tool, diskVars>>)

\* The types of the variables of both tools, and that an image never holds more
\* than its header says.
ToolTypeOK == DiskTypeOK /\ HmsTypeOK

=============================================================================
