---------------------------- MODULE HelpMeScreen -----------------------------
(***************************************************************************)
(* The Help Me Screen, src/tools/hms.c: its menus and dialogs as the       *)
(* sequence of reads they make from the terminal, fgets into a buffer of   *)
(* fixed size or getchar at "Press Enter".  A read takes no more than its  *)
(* buffer holds, and what is left of a line goes to the next read.         *)
(*                                                                         *)
(* The characters of a line are abstract; "yes" stands for its three.      *)
(* What the dialogs print, and the paths they print, are left out.         *)
(***************************************************************************)
EXTENDS Naturals, FiniteSets, Sequences, SequencesExt

CONSTANTS
  ChoiceRoom,  \* what fgets reads of a line at a menu, sizeof - 1: 9
  PathRoom,    \* and of a path: 255
  Lines,       \* the lines the user may type, newline included
  MaxLines     \* bound of the model: lines typed

ASSUME RoomAssumption  == ChoiceRoom \in Nat \ {0} /\ PathRoom \in Nat \ {0}
\* A line ends with its newline and holds no other.
ASSUME LinesAssumption ==
  \A line \in Lines :
     /\ line \in Seq(STRING) /\ line # <<>>
     /\ \A i \in 1 .. Len(line) : line[i] = "\n" <=> i = Len(line)
ASSUME TypedAssumption == MaxLines \in Nat

VARIABLES
  prompt,     \* the read that comes next, or "exit"
  input,      \* typed and not yet read
  ended,      \* the end of the input: the terminal is closed
  choice,     \* the buffer of main, which a failed read leaves as it was
  restored,   \* how the restores were confirmed: by a line typed for it or not
  asked,      \* history: the line typed at this prompt, if any
  misfit,     \* history: a line was typed that its prompt would not read whole
  typed

hmsVars == <<prompt, input, ended, choice, restored, asked, misfit, typed>>

Getchars == {"boot", "pause"}
Paths    == {"restorePath", "restoreDevice", "createBoot", "createKernel", "createOutput",
             "verifyPath"}
Menus    == {"main", "recovery", "tool", "confirm"}
Dialogs  == Paths \cup Menus \cup Getchars
Chars    == {"x"} \cup UNION {ToSet(line) : line \in Lines}

HmsInit ==
  /\ prompt = "boot" /\ input = <<>> /\ ended = FALSE
  /\ choice \in Chars                    \* uninitialized
  /\ restored = {} /\ asked = <<>> /\ misfit = FALSE /\ typed = 0

-----------------------------------------------------------------------------
(* Reading.                                                                *)

Room(p) == CASE p \in Getchars -> 1 [] p \in Paths -> PathRoom [] OTHER -> ChoiceRoom

\* A line fits a prompt that reads it whole.
Fits(line, p) == Len(line) <= Room(p)

\* What fgets or getchar takes of the input: up to the newline or its room.
Taken(p) ==
  LET lineEnd == SelectInSeq(input, LAMBDA c : c = "\n")
  IN  SubSeq(input, 1, IF lineEnd = 0 \/ lineEnd > Room(p) THEN Room(p) ELSE lineEnd)

\* getchar takes one character of the three of "yes".
Rest(p) ==
  IF p \in Getchars /\ Head(input) = "yes" THEN <<"x">> \o Tail(input)
  ELSE SubSeq(input, Len(Taken(p)) + 1, Len(input))

-----------------------------------------------------------------------------
(* The dialogs: the prompt that follows each, by what was read at a menu.  *)

MainMenu(c) ==
  CASE c = "1"             -> "recovery"
    [] c \in {"2", "3", "4"} -> "tool"     \* diagnostics, repair, installation
    [] c = "6"             -> "exit"
    [] OTHER               -> "pause"      \* the logs, or "Invalid option"

system_recovery_menu(c) ==
  CASE c = "1" -> "restorePath"
    [] c = "2" -> "createBoot"
    [] c = "3" -> "verifyPath"
    [] c = "4" -> "main"
    [] OTHER   -> "pause"

restore_from_backup ==
  [restorePath |-> "restoreDevice", restoreDevice |-> "confirm", confirm |-> "pause"]

\* A mutant: the dialog starts again when it has got everything.
StartsAgain ==
  [createBoot |-> "createKernel", createKernel |-> "createOutput", createOutput |-> "createBoot"]

create_backup ==
  [createBoot |-> "createKernel", createKernel |-> "createOutput", createOutput |-> "pause"]

verify_backup == [verifyPath |-> "pause"]

\* The menus of diagnostics, repair and installation run nothing.
ToolMenu == [tool |-> "pause"]

PressEnter == [boot |-> "main", pause |-> "main"]

After(p, c) ==
  CASE p = "main"                       -> MainMenu(c)
    [] p = "recovery"                   -> system_recovery_menu(c)
    [] p \in DOMAIN restore_from_backup -> restore_from_backup[p]
    [] p \in DOMAIN create_backup       -> create_backup[p]
    [] p \in DOMAIN verify_backup       -> verify_backup[p]
    [] p \in DOMAIN ToolMenu            -> ToolMenu[p]
    [] OTHER                            -> PressEnter[p]

\* A mutant: anything but a refusal will do.
AnythingGoes(text) == Head(text) # "x"

\* strcmp with "yes", once the newline is gone.
Confirmed(text) == text \in {<<"yes">>, <<"yes", "\n">>}

Goes(text) ==
  /\ prompt' = After(prompt, Head(text))
  /\ restored' = restored \cup
       (IF prompt = "confirm" /\ Confirmed(text) THEN {asked = <<"yes", "\n">>} ELSE {})

\* A read of the terminal gets text.
Read ==
  /\ prompt # "exit" /\ input # <<>>
  /\ Goes(Taken(prompt))
  /\ input' = Rest(prompt)
  /\ choice' = IF prompt = "main" THEN Head(input) ELSE choice
  /\ asked' = <<>>
  /\ UNCHANGED <<ended, misfit, typed>>

\* A read at the end of the input leaves its buffer as it was: main goes by its
\* last choice, every dialog by what the stack holds.  getchar does not wait.
ReadPastEnd ==
  /\ prompt # "exit" /\ input = <<>> /\ ended
  /\ IF prompt = "main" THEN Goes(<<choice>>) ELSE \E c \in Chars : Goes(<<c>>)
  /\ UNCHANGED <<input, ended, choice, asked, misfit, typed>>

-----------------------------------------------------------------------------
(* The user, who types a line when the program waits for one.              *)

Waiting == prompt # "exit" /\ input = <<>> /\ ~ended

TypeLine(line) ==
  /\ Waiting /\ typed < MaxLines
  /\ input' = line /\ asked' = line
  /\ misfit' = (misfit \/ ~Fits(line, prompt))
  /\ typed' = typed + 1
  /\ UNCHANGED <<prompt, ended, choice, restored>>

CloseTerminal ==
  /\ Waiting /\ ended' = TRUE
  /\ UNCHANGED <<prompt, input, choice, restored, asked, misfit, typed>>

HmsProgram == Read \/ ReadPastEnd
HmsNext    == HmsProgram \/ CloseTerminal \/ \E line \in Lines : TypeLine(line)

-----------------------------------------------------------------------------
(***************************************************************************)
(* Properties.                                                             *)
(***************************************************************************)

\* The types of all variables; what is unread is the end of one line.
HmsTypeOK ==
  /\ prompt \in Dialogs \cup {"exit"}
  /\ input \in Seq(Chars) /\ Cardinality({i \in DOMAIN input : input[i] = "\n"}) <= 1
  /\ asked \in Lines \cup {<<>>} /\ choice \in Chars
  /\ ended \in BOOLEAN /\ misfit \in BOOLEAN
  /\ restored \subseteq BOOLEAN
  /\ typed \in 0 .. MaxLines

\* A restore goes ahead on a "yes" typed for it and for nothing else, as long as
\* every line fitted the prompt it was typed at and the input has not ended: the
\* dialogs read no line too few and no line too many.
RestoreIsConfirmed == FALSE \in restored => misfit \/ ended

\* Every dialog comes back to the main menu, or waits for the user, or is left:
\* also when lines spill from one prompt to the next, and at the end of the input.
DialogsComeBack ==
  (prompt \in Dialogs \ {"main"}) ~> (prompt \in {"main", "exit"} \/ Waiting)

=============================================================================
