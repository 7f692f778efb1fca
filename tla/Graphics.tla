------------------------------ MODULE Graphics -------------------------------
(***************************************************************************)
(* src/uefi/graphics.c: the search for the best mode, setting it, the      *)
(* framebuffer fields of the boot parameters, and drawing, one pixel or    *)
(* one query of the firmware a step.  Only graphics_init is called in the  *)
(* build (BootSequence); the client of the rest is external and makes one  *)
(* call after the other.                                                   *)
(*                                                                         *)
(* gModeInfo points to the information of the mode in effect, which the    *)
(* firmware keeps up to date; every mode has a linear framebuffer.         *)
(***************************************************************************)
EXTENDS Naturals, Sequences

CONSTANTS
  ModeLists,    \* modes a firmware may offer: functions on 0 .. MaxMode - 1
  Preferences,  \* sizes find_best_mode looks for, the best first; <<0, 0>> is any
  WordSize,     \* UINT32 arithmetic is modulo 2^32
  CharSize,     \* 8
  TextAt, TextLength,  \* the message of graphics_initialize_complete: 10, 21
  Coordinates,  \* the numbers a client draws with
  MaxGfxCalls   \* bound of the model: calls of the client

Sizes == [width : 1 .. WordSize - 1, height : 1 .. WordSize - 1, scan : 1 .. WordSize - 1]

ASSUME ModesAssumption ==
  \A list \in ModeLists : \E n \in 1 .. WordSize :
     /\ list \in [0 .. n - 1 -> Sizes]
     /\ \A i \in 0 .. n - 1 : /\ list[i].width <= list[i].scan
                             /\ 4 * list[i].scan * list[i].height <= WordSize
ASSUME WordAssumption == WordSize \in Nat \ {0} /\ Coordinates \subseteq 0 .. WordSize - 1
ASSUME PreferencesAssumption == Preferences \in Seq(Nat \X Nat) \ {<<>>}
ASSUME GfxCallsAssumption == MaxGfxCalls \in Nat
ASSUME TextAssumption == {CharSize, TextAt} \subseteq 0 .. WordSize - 1 /\ TextLength \in Nat \ {0}

VARIABLES
  gGOP, gModeInfo,  \* whether the pointers are set
  modes, mode,      \* the firmware: its modes and the one in effect
  broken,           \* the modes QueryMode fails for, during a search
  gfxPc,            \* "idle", or what the call in progress does next
  complete,         \* the call is graphics_initialize_complete
  pref, index,      \* the loops of the search
  best_mode,
  params,           \* the framebuffer fields; history: which call filled them,
                    \* none of them yet if it is 0
  job, row, col,    \* the rectangle being drawn, for how many characters, what
                    \* comes next, and the loops over it
  drawn,            \* where the call has written, in bytes from the base
  outcome,          \* what the last call was and how it ended
  modeSet,          \* history: SetMode has succeeded in the last initialization
  gfxCalls

gfxVars == <<gGOP, gModeInfo, modes, mode, broken, gfxPc, complete, pref, index, best_mode,
             params, job, row, col, drawn, outcome, modeSet, gfxCalls>>
firmware == <<gGOP, gModeInfo, modes, mode>>
search   == <<broken, pref, index, best_mode>>
drawing  == <<job, row, col, drawn>>
history  == <<modeSet, gfxCalls>>

Info(width, height) ==
  [call |-> gfxCalls, width |-> width, height |-> height, pitch |-> (width * 4) % WordSize]
NoInfo == Info(0, 0)
Rect(x, y, width, height, chars, next) ==
  [x |-> x, y |-> y, width |-> width, height |-> height, chars |-> chars, next |-> next]
NoRect == Rect(0, 0, 0, 0, 0, "idle")

GfxInit ==
  /\ gGOP = FALSE /\ gModeInfo = FALSE
  /\ modes \in ModeLists /\ mode \in DOMAIN modes
  /\ broken = {} /\ gfxPc = "idle" /\ complete = FALSE
  /\ pref = 1 /\ index = 0 /\ best_mode = 0
  /\ gfxCalls = 0 /\ params = NoInfo
  /\ job = NoRect /\ row = 0 /\ col = 0 /\ drawn = {}
  /\ outcome = [call |-> "none", ok |-> TRUE]
  /\ modeSet = FALSE

-----------------------------------------------------------------------------
(* The calls.                                                              *)

\* The locals of an earlier call are gone.
Begins(name) ==
  /\ gfxPc = "idle" /\ gfxCalls < MaxGfxCalls
  /\ gfxCalls' = gfxCalls + 1
  /\ outcome' = [call |-> name, ok |-> FALSE]
  /\ complete' = (name = "initialize_complete") /\ modeSet' = FALSE
  /\ broken' = {} /\ pref' = 1 /\ index' = 0
  /\ drawn' = {}
  /\ UNCHANGED firmware

\* A step is over: initialize_complete goes on with the next, whatever has
\* become of this one; any other call returns.
GoesOn(next, ok) ==
  IF complete /\ next # "idle" THEN gfxPc' = next /\ UNCHANGED outcome
  ELSE gfxPc' = "idle" /\ outcome' = [outcome EXCEPT !.ok = ok \/ complete]

Calls(name, first) ==
  /\ Begins(name) /\ gfxPc' = first
  /\ job' = NoRect /\ row' = 0 /\ col' = 0
  /\ UNCHANGED params

CallGraphicsInit    == Calls("init", "locate") /\ best_mode' = 0
CallInitialize      == Calls("initialize_complete", "locate") /\ best_mode' = 0
CallFindBestMode    == Calls("find_best_mode", "find") /\ best_mode' = 0
CallSetMode(m)      == Calls("set_mode", "set") /\ best_mode' = m
CallFramebufferInfo == Calls("get_framebuffer_info", "info") /\ best_mode' = 0
CallClearScreen     == Calls("clear_screen", "clear") /\ best_mode' = 0

Starts(rect) == gfxPc' = "draw" /\ job' = rect /\ row' = rect.y /\ col' = rect.x

CallDraw(name, rect) ==
  /\ Begins(name) /\ Starts(rect) /\ best_mode' = 0
  /\ UNCHANGED params

CallDrawRect(x, y, w, h)   == CallDraw("draw_rect", Rect(x, y, w, h, 1, "idle"))
CallDrawString(x, y, n)    == CallDraw("draw_string", Rect(x, y, CharSize, CharSize, n, "idle"))

-----------------------------------------------------------------------------
(* Modes.                                                                  *)

\* graphics_init; a failing LocateProtocol leaves NULL.
Locate ==
  /\ gfxPc = "locate"
  /\ gGOP' \in BOOLEAN
  /\ GoesOn("find", TRUE)
  /\ UNCHANGED <<gModeInfo, modes, mode, complete, search, params, drawing, history>>

FindBestMode ==
  /\ gfxPc = "find"
  /\ IF gGOP
     THEN broken' \in SUBSET DOMAIN modes /\ gfxPc' = "query" /\ UNCHANGED outcome
     ELSE GoesOn("set", TRUE) /\ UNCHANGED broken
  /\ UNCHANGED <<firmware, complete, pref, index, best_mode, params, drawing, history>>

\* A mutant: the width alone decides.
MatchesWidth(p, i) == Preferences[p][1] \in {0, modes[i].width}

Matches(p, i) ==
  Preferences[p] \in {<<0, 0>>, <<modes[i].width, modes[i].height>>}

\* One turn of the inner loop: a mode that can be queried and matches is taken.
QueryMode ==
  /\ gfxPc = "query"
  /\ IF index \notin broken /\ Matches(pref, index)
     THEN best_mode' = index /\ GoesOn("set", TRUE) /\ UNCHANGED <<pref, index>>
     ELSE IF index + 1 \in DOMAIN modes
     THEN index' = index + 1 /\ UNCHANGED <<gfxPc, pref, best_mode, outcome>>
     ELSE IF pref < Len(Preferences)
     THEN pref' = pref + 1 /\ index' = 0 /\ UNCHANGED <<gfxPc, best_mode, outcome>>
     ELSE best_mode' = mode /\ GoesOn("set", TRUE) /\ UNCHANGED <<pref, index>>
  /\ UNCHANGED <<firmware, broken, complete, params, drawing, history>>

SetMode ==
  /\ gfxPc = "set"
  /\ IF gGOP THEN best_mode \in DOMAIN modes /\ mode' = best_mode /\ gModeInfo' = TRUE
     ELSE UNCHANGED <<mode, gModeInfo>>
  /\ modeSet' = TRUE
  /\ GoesOn("info", TRUE)
  /\ UNCHANGED <<gGOP, modes, complete, search, params, drawing, gfxCalls>>

\* The mode stays; graphics_initialize_complete returns at once.
SetModeFails ==
  /\ gfxPc = "set" /\ gGOP
  /\ GoesOn("idle", FALSE)
  /\ UNCHANGED <<firmware, complete, search, params, drawing, history>>

\* A mutant: the size of the first mode is handed over.
InfoOfFirstMode ==
  IF gGOP /\ gModeInfo THEN Info(modes[0].width, modes[0].height) ELSE NoInfo

\* The pitch is taken from the width, not from the scan line.
FramebufferInfo ==
  IF gGOP /\ gModeInfo THEN Info(modes[mode].width, modes[mode].height) ELSE NoInfo

\* In graphics_initialize_complete the screen is cleared next.
GetFramebufferInfo ==
  /\ gfxPc = "info"
  /\ params' = FramebufferInfo
  /\ GoesOn("clear", TRUE)
  /\ UNCHANGED <<firmware, complete, search, drawing, history>>

-----------------------------------------------------------------------------
(* Drawing.                                                                *)

\* graphics_clear_screen and the message; without graphics nothing is cleared.
ClearScreen ==
  /\ gfxPc = "clear"
  /\ IF gGOP /\ gModeInfo
     THEN Starts(Rect(0, 0, modes[mode].width, modes[mode].height, 1, "text")) /\ drawn' = {}
          /\ UNCHANGED outcome
     ELSE GoesOn("text", FALSE) /\ UNCHANGED drawing
  /\ UNCHANGED <<firmware, complete, search, params, history>>

DrawMessage ==
  /\ gfxPc = "text"
  /\ Starts(Rect(TextAt, TextAt, CharSize, CharSize, TextLength, "idle"))
  /\ UNCHANGED <<firmware, complete, search, params, drawn, outcome, history>>

\* A mutant: one column too many.
AllowsOneMore(x, y) ==
  gGOP /\ gModeInfo /\ x <= modes[mode].width /\ y < modes[mode].height

\* What graphics_draw_pixel refuses, it returns an error for.
InBounds(x, y) ==
  gGOP /\ gModeInfo /\ x < modes[mode].width /\ y < modes[mode].height

Offset(x, y) == ((y * modes[mode].scan * 4) % WordSize) + ((x * 4) % WordSize)

\* A mutant: the last column is left out.
SkipsLastCol == col + 1 < (job.x + job.width) % WordSize

InRows == row < (job.y + job.height) % WordSize
InCols == col < (job.x + job.width) % WordSize

\* One turn of the loops of graphics_draw_rect.
DrawPixel ==
  /\ gfxPc = "draw" /\ InRows /\ InCols /\ InBounds(col, row)
  /\ drawn' = drawn \cup {Offset(col, row)}
  /\ col' = (col + 1) % WordSize
  /\ UNCHANGED <<firmware, gfxPc, complete, search, params, job, row, outcome, history>>

DrawFails ==
  /\ gfxPc = "draw" /\ InRows /\ InCols /\ ~InBounds(col, row)
  /\ GoesOn(job.next, FALSE)
  /\ UNCHANGED <<firmware, complete, search, params, drawing, history>>

\* A mutant: the row is not counted.
ForgetsRow ==
  /\ gfxPc = "draw" /\ InRows /\ ~InCols
  /\ col' = job.x
  /\ UNCHANGED <<firmware, gfxPc, complete, search, params, job, row, drawn, outcome, history>>

NextRow ==
  /\ gfxPc = "draw" /\ InRows /\ ~InCols
  /\ row' = (row + 1) % WordSize /\ col' = job.x
  /\ UNCHANGED <<firmware, gfxPc, complete, search, params, job, drawn, outcome, history>>

\* The rectangle is drawn; graphics_draw_string goes on to the next character.
NextChar ==
  /\ gfxPc = "draw" /\ ~InRows /\ job.chars > 1
  /\ Starts([job EXCEPT !.x = (job.x + CharSize) % WordSize, !.chars = job.chars - 1])
  /\ UNCHANGED <<firmware, complete, search, params, drawn, outcome, history>>

DrawEnds ==
  /\ gfxPc = "draw" /\ ~InRows /\ job.chars = 1
  /\ GoesOn(job.next, TRUE)
  /\ UNCHANGED <<firmware, complete, search, params, drawing, history>>

GfxProgram ==
  \/ Locate \/ FindBestMode \/ QueryMode \/ SetMode \/ SetModeFails \/ GetFramebufferInfo
  \/ ClearScreen \/ DrawMessage
  \/ DrawPixel \/ DrawFails \/ NextRow \/ NextChar \/ DrawEnds

GfxNext ==
  \/ GfxProgram
  \/ CallGraphicsInit \/ CallInitialize \/ CallFindBestMode \/ CallFramebufferInfo \/ CallClearScreen
  \/ \E m \in DOMAIN modes \cup {WordSize - 1} : CallSetMode(m)
  \/ \E x, y, w, h \in Coordinates : CallDrawRect(x, y, w, h)
  \/ \E x, y \in Coordinates : CallDrawString(x, y, TextLength)

-----------------------------------------------------------------------------
(***************************************************************************)
(* Properties.                                                             *)
(***************************************************************************)

Returned(name) == gfxPc = "idle" /\ outcome.call = name /\ outcome.ok

FirmwareTypeOK == gGOP \in BOOLEAN /\ gModeInfo \in BOOLEAN /\ modes \in ModeLists /\ mode \in DOMAIN modes
SearchTypeOK ==
  /\ broken \subseteq DOMAIN modes
  /\ pref \in DOMAIN Preferences /\ index \in DOMAIN modes /\ best_mode \in 0 .. WordSize - 1
ParamsTypeOK ==
  /\ params.call \in 0 .. gfxCalls
  /\ \A field \in {"width", "height", "pitch"} : params[field] \in 0 .. WordSize - 1
DrawingTypeOK ==
  /\ job.x \in 0 .. WordSize - 1 /\ job.y \in 0 .. WordSize - 1
  /\ row \in 0 .. WordSize - 1 /\ col \in 0 .. WordSize - 1
ControlTypeOK ==
  /\ gfxPc \in {"idle", "locate", "find", "query", "set", "info", "clear", "text", "draw"}
  /\ complete \in BOOLEAN /\ modeSet \in BOOLEAN
  /\ gfxCalls \in 0 .. MaxGfxCalls

\* The types of all variables: every number of a drawing is one of UINT32.
GfxTypeOK ==
  FirmwareTypeOK /\ SearchTypeOK /\ ParamsTypeOK /\ DrawingTypeOK /\ ControlTypeOK

\* The mode the comment of graphics_find_best_mode promises, among those that can
\* be queried: the first preference that any has, and the first mode that has it.
Best ==
  LET having(p) == {i \in DOMAIN modes \ broken :
                      Preferences[p] \in {<<0, 0>>, <<modes[i].width, modes[i].height>>}}
      possible  == {p \in DOMAIN Preferences : having(p) # {}}
      first(S)  == CHOOSE n \in S : \A m \in S : n <= m
  IN  IF possible = {} THEN mode ELSE first(having(first(possible)))

\* The search ends with that mode, and graphics_initialize_complete is in it when
\* it could be set.
BestModeIsFound ==
  /\ (Returned("find_best_mode") /\ gGOP) => best_mode = Best
  /\ (Returned("initialize_complete") /\ gGOP /\ modeSet) => mode = Best

\* Whatever is drawn, rectangles and text that leave the screen or pass the end of
\* the numbers included, every pixel written is one of the mode in effect.
PixelsStayInside ==
  (gfxPc = "draw" /\ gGOP /\ gModeInfo) =>
    drawn \subseteq {4 * (y * modes[mode].scan + x) :
                       x \in 0 .. modes[mode].width - 1, y \in 0 .. modes[mode].height - 1}

\* A rectangle reported as drawn is drawn whole, or not at all when it passes the
\* end of the numbers; one that leaves the screen is never reported as drawn.
RectangleIsWhole ==
  Returned("draw_rect") =>
    LET x == job.x  y == job.y  w == job.width  h == job.height
    IN  IF x + w >= WordSize \/ y + h >= WordSize \/ w = 0 \/ h = 0 THEN drawn = {}
        ELSE drawn = {Offset(col1, row1) : col1 \in x .. x + w - 1, row1 \in y .. y + h - 1}

\* Where a reader of the boot parameters finds a pixel, in bytes from the base.
OffsetByPitch(x, y) == y * params.pitch + 4 * x

\* graphics_initialize_complete always reports success, and fills in the boot
\* parameters exactly when a mode could be set: after a failed SetMode they are
\* those of an earlier call, or uninitialized.  Without graphics they are zero;
\* otherwise they have the size of the mode in effect, and the pitch leads to the
\* pixels where graphics_draw_pixel writes them in the first row and, below it,
\* only if the mode has no padding: graphics.c:236 calls it the bytes per scan
\* line, but it is those of the visible width.
FramebufferMatchesMode ==
  Returned("initialize_complete") =>
    /\ params.call = gfxCalls <=> modeSet
    /\ modeSet /\ ~gGOP => params = NoInfo
    /\ modeSet /\ gGOP =>
         LET m == modes[mode]
         IN  /\ params.width = m.width /\ params.height = m.height
             /\ \A x \in 0 .. m.width - 1, y \in 0 .. m.height - 1 :
                  OffsetByPitch(x, y) = Offset(x, y) <=> y = 0 \/ m.scan = m.width

\* Every call returns: no loop over rows or columns runs on past the end of the
\* numbers.
CallsReturn == (gfxPc # "idle") ~> (gfxPc = "idle")

=============================================================================
