---------------------------- MODULE GraphicsProofs ----------------------------
(***************************************************************************)
(* What graphics.c guarantees for every firmware, width of the numbers and *)
(* rectangle, and for any number of calls: the types of its variables,     *)
(* that no pixel is written outside the mode in effect, and what each call *)
(* that reports success has achieved.                                      *)
(*                                                                         *)
(* PixelsInside rests on the arithmetic of one pixel (OffsetIsExact): one  *)
(* that graphics_draw_pixel accepts does not wrap, so its offset is that   *)
(* of a pixel of the screen; PitchFinds compares it with the one that the  *)
(* pitch in the boot parameters leads to.  The others each rest on an      *)
(* invariant of their own, about the middle of a call: FramebufferInv,     *)
(* that the fields are those of the mode from when they are filled until   *)
(* the call after; SearchInv, what the loops of the search have passed     *)
(* over; RectangleInv, what those of the drawing have drawn.               *)
(* CallsAreBounded counts the turns the loops of a call can still make.    *)
(***************************************************************************)
EXTENDS FirmwareCallsProofs, SequenceTheorems

Num == 0 .. WordSize - 1

\* The offsets of the pixels of the mode in effect.
Screen == {4 * (y * modes[mode].scan + x) :
             x \in 0 .. modes[mode].width - 1, y \in 0 .. modes[mode].height - 1}

-----------------------------------------------------------------------------
(* Arithmetic.                                                             *)

\* UINT32 arithmetic stays within UINT32.
LEMMA ModIsNum ==
  ASSUME NEW n \in Nat
  PROVE  n % WordSize \in Num
BY WordAssumption DEF Num

\* What every firmware's modes have in common.
LEMMA ModeFacts ==
  ASSUME NEW list \in ModeLists
  PROVE  /\ 0 \in DOMAIN list /\ DOMAIN list \subseteq Num
         /\ \A i \in DOMAIN list : /\ list[i] \in Sizes /\ list[i].width <= list[i].scan
                                  /\ 4 * list[i].scan * list[i].height <= WordSize
<1>1. PICK n \in 1 .. WordSize :
        /\ list \in [0 .. n - 1 -> Sizes]
        /\ \A i \in 0 .. n - 1 : /\ list[i].width <= list[i].scan
                                /\ 4 * list[i].scan * list[i].height <= WordSize
  BY ModesAssumption
<1>2. DOMAIN list = 0 .. n - 1
  BY <1>1
<1>3. QED  BY <1>1, <1>2, WordAssumption DEF Num

\* The product in Offset: a row of the screen begins below the end of the numbers.
LEMMA RowIsBelow ==
  ASSUME NEW y \in Nat, NEW s \in Nat \ {0}, NEW h \in Nat, NEW w \in Nat,
         y < h, 4 * s * h <= w
  PROVE  y * s * 4 + 4 * s <= w /\ y * s \in Nat
<1>1. PICK d \in Nat : h = y + 1 + d
  <2>1. h - y - 1 \in Nat /\ h = y + 1 + (h - y - 1)
    OBVIOUS
  <2>2. QED  BY <2>1
<1>2. s * h = s * y + s + s * d
  BY <1>1
<1>3. s * d \in Nat /\ y * s \in Nat /\ s * y = y * s
  BY <1>1
<1>4. 4 * s * h = 4 * (s * h)
  OBVIOUS
<1>5. QED  BY <1>2, <1>3, <1>4

\* A pixel that graphics_draw_pixel accepts does not wrap.
LEMMA OffsetIsExact ==
  ASSUME modes \in ModeLists, mode \in DOMAIN modes,
         NEW x \in Nat, NEW y \in Nat, InBounds(x, y)
  PROVE  Offset(x, y) = 4 * (y * modes[mode].scan + x) /\ Offset(x, y) \in Screen
<1> DEFINE s == modes[mode].scan
           h == modes[mode].height
           w == modes[mode].width
<1>1. /\ s \in Nat \ {0} /\ h \in Nat /\ w \in Nat
      /\ w <= s /\ 4 * s * h <= WordSize /\ x < w /\ y < h
  BY ModeFacts, WordAssumption DEF Sizes, InBounds
<1>2. Offset(x, y) = ((y * s * 4) % WordSize) + ((x * 4) % WordSize)
  BY DEF Offset
<1>3. Screen = {4 * (b * s + a) : a \in 0 .. w - 1, b \in 0 .. h - 1}
  BY DEF Screen
<1> HIDE DEF s, h, w
<1>4. y * s * 4 + 4 * s <= WordSize /\ y * s \in Nat
  BY <1>1, RowIsBelow, WordAssumption
<1>5. (y * s * 4) % WordSize = y * s * 4 /\ (x * 4) % WordSize = x * 4
  <2> DEFINE r == y * s
  <2>1. r \in Nat /\ r * 4 + 4 * s <= WordSize
    BY <1>4
  <2> HIDE DEF r
  <2>2. r * 4 \in 0 .. WordSize - 1 /\ x * 4 \in 0 .. WordSize - 1
    BY <1>1, <2>1, WordAssumption
  <2>3. \A n \in 0 .. WordSize - 1 : n % WordSize = n
    BY WordAssumption
  <2>4. QED  BY <2>2, <2>3 DEF r
<1>6. Offset(x, y) = 4 * (y * s + x)
  BY <1>1, <1>2, <1>4, <1>5
<1>7. Offset(x, y) \in Screen
  BY <1>1, <1>3, <1>6
<1>8. QED  BY <1>6, <1>7 DEF s

\* The rows of a screen with padding begin later than its width tells.
LEMMA PaddingShifts ==
  ASSUME NEW y \in Nat \ {0}, NEW w \in Nat, NEW s \in Nat, w <= s
  PROVE  y * w = y * s <=> s = w
<1>1. PICK e \in Nat : s = w + e
  <2>1. s - w \in Nat /\ s = w + (s - w)
    OBVIOUS
  <2>2. QED  BY <2>1
<1>2. PICK z \in Nat : y = z + 1
  <2>1. y - 1 \in Nat /\ y = (y - 1) + 1
    OBVIOUS
  <2>2. QED  BY <2>1
<1>3. y * s = y * w + y * e /\ y * e = z * e + e
  BY <1>1, <1>2
<1>4. y * w \in Nat /\ z * e \in Nat
  BY <1>2
<1>5. QED  BY <1>1, <1>3, <1>4

\* A pixel is where the pitch leads to in the first row, and below it only if the
\* mode has no padding.
LEMMA PitchFinds ==
  ASSUME modes \in ModeLists, mode \in DOMAIN modes, gGOP, gModeInfo,
         NEW x \in 0 .. modes[mode].width - 1, NEW y \in 0 .. modes[mode].height - 1,
         params.pitch = (modes[mode].width * 4) % WordSize
  PROVE  OffsetByPitch(x, y) = Offset(x, y) <=> y = 0 \/ modes[mode].scan = modes[mode].width
<1> DEFINE s == modes[mode].scan
           h == modes[mode].height
           w == modes[mode].width
           pitch == params.pitch
<1>1. /\ s \in Nat \ {0} /\ h \in Nat /\ w \in Nat
      /\ w <= s /\ 4 * s * h <= WordSize /\ x \in 0 .. w - 1 /\ y \in 0 .. h - 1
      /\ pitch = (w * 4) % WordSize
  BY ModeFacts, WordAssumption DEF Sizes
<1>2. Offset(x, y) = 4 * (y * s + x)
  <2>1. x \in Nat /\ y \in Nat /\ x < w /\ y < h
    BY <1>1
  <2>2. InBounds(x, y)
    BY <2>1 DEF InBounds
  <2>3. QED  BY <2>1, <2>2, OffsetIsExact
<1>3. OffsetByPitch(x, y) = y * pitch + 4 * x
  BY DEF OffsetByPitch
<1> HIDE DEF s, h, w, pitch
<1>4. pitch \in Nat
  <2> DEFINE n == w * 4
  <2>1. n \in Nat /\ pitch = n % WordSize
    BY <1>1
  <2> HIDE DEF n
  <2>2. QED  BY <2>1, ModIsNum, WordAssumption DEF Num
<1>5. CASE y = 0
  <2>1. 0 * pitch = 0 /\ 0 * s = 0
    BY <1>1, <1>4
  <2>2. QED  BY <1>1, <1>2, <1>3, <1>5, <2>1
<1>6. CASE y # 0
  <2>1. pitch = w * 4
    <3>1. 1 * s * 4 + 4 * s <= WordSize
      <4>1. 1 < h
        BY <1>1, <1>6
      <4>2. QED  BY <1>1, <4>1, RowIsBelow, WordAssumption
    <3>2. w * 4 \in 0 .. WordSize - 1
      BY <1>1, <3>1, WordAssumption
    <3>3. \A n \in 0 .. WordSize - 1 : n % WordSize = n
      BY WordAssumption
    <3>4. QED  BY <1>1, <3>2, <3>3
  <2>2. y * pitch = 4 * (y * w) /\ y * w \in Nat /\ y * s \in Nat
    BY <1>1, <2>1
  <2>3. y * w = y * s <=> s = w
    BY <1>1, <1>6, PaddingShifts
  <2> DEFINE a == y * w
             b == y * s
             c == y * pitch
  <2>4. /\ c = 4 * a /\ a \in Nat /\ b \in Nat /\ (a = b <=> s = w) /\ x \in Nat
        /\ Offset(x, y) = 4 * (b + x) /\ OffsetByPitch(x, y) = c + 4 * x
    BY <1>1, <1>2, <1>3, <2>2, <2>3
  <2> HIDE DEF a, b, c
  <2>5. OffsetByPitch(x, y) = Offset(x, y) <=> a = b
    BY <2>4
  <2>6. QED  BY <1>6, <2>4, <2>5 DEF s, w
<1>7. QED  BY <1>5, <1>6 DEF s, w

-----------------------------------------------------------------------------
(* The invariant.                                                          *)

Rects == [x : Num, y : Num, width : Nat, height : Nat, chars : Nat, next : {"idle", "text"}]

\* What is drawn stays on the screen; while the mode may change nothing is drawn.
DrawnInv ==
  /\ gfxPc \notin {"idle", "draw", "text"} => drawn = {}
  /\ gfxPc \in {"draw", "text"} => drawn \subseteq Screen

GfxInv == GfxTypeOK /\ job \in Rects /\ DrawnInv

\* Whatever the outcome, the call goes on with the step named or returns.
LEMMA GoesOnTo ==
  ASSUME NEW next, NEW ok, GoesOn(next, ok)
  PROVE  gfxPc' \in {next, "idle"}
BY DEF GoesOn

\* The numbers a rectangle is made of.
LEMMA RectIsTyped ==
  ASSUME NEW x \in Num, NEW y \in Num, NEW w \in Nat, NEW h \in Nat, NEW n \in Nat,
         NEW next \in {"idle", "text"}
  PROVE  Rect(x, y, w, h, n, next) \in Rects /\ Rect(x, y, w, h, n, next).x = x
         /\ Rect(x, y, w, h, n, next).y = y
BY DEF Rect, Rects

\* The numbers of the instance are of the width of UINT32.
LEMMA NumFacts == 0 \in Num /\ Num \subseteq Nat /\ CharSize \in Num /\ TextAt \in Num
                  /\ Coordinates \subseteq Num /\ TextLength \in Nat
BY WordAssumption, TextAssumption DEF Num

\* There is a preference to begin with, and one after each but the last.
LEMMA PreferenceFacts ==
  /\ 1 \in DOMAIN Preferences
  /\ \A p \in DOMAIN Preferences : p < Len(Preferences) => p + 1 \in DOMAIN Preferences
<1>1. Len(Preferences) \in Nat \ {0} /\ DOMAIN Preferences = 1 .. Len(Preferences)
  BY PreferencesAssumption, EmptySeq, LenProperties
<1> DEFINE n == Len(Preferences)
<1> HIDE DEF n
<1>2. n \in Nat \ {0} => 1 \in 1 .. n /\ \A p \in 1 .. n : p < n => p + 1 \in 1 .. n
  OBVIOUS
<1>3. QED  BY <1>1, <1>2 DEF n

\* The framebuffer fields, with or without graphics.
InfoTyped(info) == /\ info.call \in 0 .. gfxCalls
                   /\ \A field \in {"width", "height", "pitch"} : info[field] \in Num

\* The fields filled from a mode are UINT32.
LEMMA InfoIsTyped ==
  ASSUME NEW w \in Num, NEW h \in Num, gfxCalls \in Nat
  PROVE  InfoTyped(Info(w, h))
<1>1. (w * 4) % WordSize \in Num
  BY NumFacts, ModIsNum
<1>2. gfxCalls \in 0 .. gfxCalls
  OBVIOUS
<1>3. QED  BY <1>1, <1>2 DEF Info, InfoTyped

\* Before the first call nothing is drawn.
LEMMA GfxInvInit == GfxInit => GfxInv
<1> SUFFICES ASSUME GfxInit  PROVE GfxInv
  OBVIOUS
<1>1. job \in Rects
  BY NumFacts, RectIsTyped DEF NoRect, GfxInit
<1>2. ParamsTypeOK
  <2>1. InfoTyped(params)
    BY NumFacts, InfoIsTyped DEF GfxInit, NoInfo
  <2>2. QED  BY <2>1 DEF InfoTyped, ParamsTypeOK, Num
<1>3. FirmwareTypeOK /\ SearchTypeOK
  BY NumFacts, ModeFacts, PreferenceFacts DEF GfxInit, FirmwareTypeOK, SearchTypeOK, Num
<1>4. DrawingTypeOK
  BY <1>1, NumFacts DEF GfxInit, DrawingTypeOK, Rects, Num
<1>5. ControlTypeOK
  <2>1. gfxCalls \in 0 .. MaxGfxCalls
    BY GfxCallsAssumption DEF GfxInit
  <2>2. QED  BY <2>1 DEF GfxInit, ControlTypeOK
<1>6. DrawnInv
  BY DEF GfxInit, DrawnInv
<1>7. QED  BY <1>1, <1>2, <1>3, <1>4, <1>5, <1>6 DEF GfxTypeOK, GfxInv

\* What every call begins with.
LEMMA BeginsTyped ==
  ASSUME GfxInv, NEW name, Begins(name), params' = params, job' \in Rects,
         row' \in Num, col' \in Num, best_mode' \in Num,
         gfxPc' \in {"locate", "find", "set", "info", "clear", "draw"}
  PROVE  GfxInv'
<1> USE DEF GfxInv, GfxTypeOK, Begins
<1>1. FirmwareTypeOK' /\ ParamsTypeOK'
  <2>1. FirmwareTypeOK'
    BY DEF firmware, FirmwareTypeOK
  <2>2. params.call \in 0 .. gfxCalls'
    <3>1. gfxCalls \in Nat /\ gfxCalls' = gfxCalls + 1
      BY GfxCallsAssumption DEF ControlTypeOK
    <3>2. QED  BY <3>1 DEF ParamsTypeOK
  <2>3. ParamsTypeOK'
    BY <2>2 DEF ParamsTypeOK
  <2>4. QED  BY <2>1, <2>3
<1>2. SearchTypeOK'
  BY ModeFacts, PreferenceFacts DEF firmware, FirmwareTypeOK, SearchTypeOK, Num
<1>3. DrawingTypeOK'
  BY DEF DrawingTypeOK, Rects, Num
<1>4. ControlTypeOK'
  <2>1. complete' \in BOOLEAN /\ modeSet' \in BOOLEAN
    OBVIOUS
  <2>2. gfxCalls' \in 0 .. MaxGfxCalls
    BY GfxCallsAssumption DEF ControlTypeOK
  <2>3. QED  BY <2>1, <2>2 DEF ControlTypeOK
<1>5. DrawnInv'
  BY DEF DrawnInv
<1>6. QED  BY <1>1, <1>2, <1>3, <1>4, <1>5

\* A drawing begins at its first pixel.
LEMMA StartsTyped ==
  ASSUME NEW rect \in Rects, Starts(rect)
  PROVE  job' \in Rects /\ row' \in Num /\ col' \in Num /\ gfxPc' = "draw"
BY DEF Starts, Rects

\* Every call of the client keeps the invariant.
LEMMA CallsTyped ==
  ASSUME GfxInv, NEW name, NEW first \in {"locate", "find", "set", "info", "clear"},
         Calls(name, first), best_mode' \in Num
  PROVE  GfxInv'
BY NumFacts, RectIsTyped, BeginsTyped DEF Calls, NoRect

\* Every call of the client that draws keeps the invariant.
LEMMA DrawsTyped ==
  ASSUME GfxInv, NEW name, NEW rect \in Rects, CallDraw(name, rect)
  PROVE  GfxInv'
BY NumFacts, StartsTyped, BeginsTyped DEF CallDraw

\* A step of the client.
ClientCalls ==
  \/ CallGraphicsInit \/ CallInitialize \/ CallFindBestMode \/ CallFramebufferInfo
  \/ CallClearScreen
  \/ \E m \in DOMAIN modes \cup {WordSize - 1} : CallSetMode(m)
  \/ \E x, y, w, h \in Coordinates : CallDrawRect(x, y, w, h)
  \/ \E x, y \in Coordinates : CallDrawString(x, y, TextLength)

\* Whatever the client calls next, the invariant is kept.
LEMMA ClientStep ==
  ASSUME GfxInv, ClientCalls
  PROVE  GfxInv'
<1>1. CASE \/ CallGraphicsInit \/ CallInitialize \/ CallFindBestMode \/ CallFramebufferInfo
           \/ CallClearScreen
  BY <1>1, NumFacts, CallsTyped
   DEF CallGraphicsInit, CallInitialize, CallFindBestMode, CallFramebufferInfo, CallClearScreen
<1>2. ASSUME NEW m \in DOMAIN modes \cup {WordSize - 1}, CallSetMode(m)
      PROVE  GfxInv'
  <2>1. m \in Num
    BY ModeFacts, WordAssumption DEF GfxInv, GfxTypeOK, FirmwareTypeOK, Num
  <2>2. QED  BY <1>2, <2>1, CallsTyped DEF CallSetMode
<1>3. ASSUME NEW x \in Coordinates, NEW y \in Coordinates, NEW w \in Coordinates,
             NEW h \in Coordinates, CallDrawRect(x, y, w, h)
      PROVE  GfxInv'
  BY <1>3, NumFacts, RectIsTyped, DrawsTyped DEF CallDrawRect
<1>4. ASSUME NEW x \in Coordinates, NEW y \in Coordinates, CallDrawString(x, y, TextLength)
      PROVE  GfxInv'
  BY <1>4, NumFacts, RectIsTyped, DrawsTyped DEF CallDrawString
<1>5. QED  BY <1>1, <1>2, <1>3, <1>4 DEF ClientCalls

\* The search for a mode and its setting: nothing has been drawn yet.
LEMMA ModeStep ==
  ASSUME GfxInv,
         Locate \/ FindBestMode \/ QueryMode \/ SetMode \/ SetModeFails \/ GetFramebufferInfo
  PROVE  GfxInv'
<1> USE DEF GfxInv, GfxTypeOK
<1>1. /\ UNCHANGED <<drawing, complete, gfxCalls, modes>> /\ drawn = {}
      /\ gfxPc' \in {"idle", "find", "query", "set", "info", "clear"}
  BY DEF Locate, FindBestMode, QueryMode, SetMode, SetModeFails, GetFramebufferInfo, GoesOn,
         DrawnInv, drawing, history, firmware
<1>2. job' \in Rects /\ DrawingTypeOK' /\ DrawnInv'
  BY <1>1 DEF drawing, DrawingTypeOK, DrawnInv
<1>3. modeSet' \in BOOLEAN
  BY DEF Locate, FindBestMode, QueryMode, SetMode, SetModeFails, GetFramebufferInfo,
         ControlTypeOK, history
<1>4. ControlTypeOK'
  BY <1>1, <1>3 DEF ControlTypeOK
<1>5. FirmwareTypeOK'
  BY <1>1 DEF Locate, FindBestMode, QueryMode, SetMode, SetModeFails, GetFramebufferInfo,
         FirmwareTypeOK, firmware
<1>6. ParamsTypeOK'
  <2>1. CASE GetFramebufferInfo
    <3>1. modes[mode].width \in Num /\ modes[mode].height \in Num
      BY ModeFacts DEF FirmwareTypeOK, Sizes, Num
    <3>2. InfoTyped(FramebufferInfo)
      <4>1. gfxCalls \in Nat
        BY GfxCallsAssumption DEF ControlTypeOK
      <4>2. QED  BY <3>1, <4>1, NumFacts, InfoIsTyped DEF FramebufferInfo, NoInfo
    <3>3. QED  BY <1>1, <2>1, <3>2 DEF GetFramebufferInfo, InfoTyped, ParamsTypeOK, Num
  <2>2. CASE UNCHANGED params
    BY <1>1, <2>2 DEF ParamsTypeOK
  <2>3. QED
    BY <2>1, <2>2 DEF Locate, FindBestMode, QueryMode, SetMode, SetModeFails
<1>7. SearchTypeOK'
  <2>1. CASE FindBestMode
    BY <1>1, <2>1 DEF FindBestMode, SearchTypeOK, search
  <2>2. CASE QueryMode
    <3>1. index \in Num /\ mode \in Num
      BY ModeFacts DEF SearchTypeOK, FirmwareTypeOK
    <3>2. best_mode' \in Num
      BY <2>2, <3>1 DEF QueryMode, SearchTypeOK, Num
    <3>3. pref' \in DOMAIN Preferences
      BY <2>2, PreferenceFacts DEF QueryMode, SearchTypeOK
    <3>4. index' \in DOMAIN modes /\ broken' = broken
      BY <2>2, ModeFacts DEF QueryMode, SearchTypeOK, FirmwareTypeOK
    <3>5. QED  BY <1>1, <3>2, <3>3, <3>4 DEF SearchTypeOK, Num
  <2>3. CASE UNCHANGED search
    BY <1>1, <2>3 DEF SearchTypeOK, search
  <2>4. QED
    BY <2>1, <2>2, <2>3 DEF Locate, SetMode, SetModeFails, GetFramebufferInfo
<1>8. QED  BY <1>2, <1>4, <1>5, <1>6, <1>7

\* A step of a drawing leaves the mode, and so the screen, as it is.
LEMMA ScreenStays ==
  ASSUME GfxInv, UNCHANGED <<firmware, search, params, modeSet, gfxCalls, complete>>,
         job' \in Rects, row' \in Num, col' \in Num,
         gfxPc' \in {"idle", "text", "draw"}
  PROVE  GfxTypeOK' /\ Screen' = Screen
<1> USE DEF GfxInv, GfxTypeOK
<1>1. FirmwareTypeOK' /\ SearchTypeOK' /\ ParamsTypeOK'
  BY DEF firmware, search, FirmwareTypeOK, SearchTypeOK, ParamsTypeOK
<1>2. DrawingTypeOK' /\ ControlTypeOK'
  BY DEF DrawingTypeOK, ControlTypeOK, Rects, Num
<1>3. QED  BY <1>1, <1>2 DEF Screen, firmware

\* A step of a drawing: a pixel is written only after it has been checked.
LEMMA DrawStep ==
  ASSUME GfxInv,
         \/ ClearScreen \/ DrawMessage
         \/ DrawPixel \/ DrawFails \/ NextRow \/ NextChar \/ DrawEnds
  PROVE  GfxInv'
<1> USE DEF GfxInv, GfxTypeOK
<1>a. /\ job.x \in Num /\ job.y \in Num /\ row \in Num /\ col \in Num
      /\ job.next \in {"idle", "text"}
  BY DEF DrawingTypeOK, Rects, Num
<1>1. CASE DrawPixel
  <2>1. col' \in Num
    BY <1>1, <1>a, NumFacts, ModIsNum DEF DrawPixel
  <2>2. GfxTypeOK' /\ Screen' = Screen
    BY <1>1, <1>a, <2>1, ScreenStays DEF DrawPixel, history
  <2>3. Offset(col, row) \in Screen
    BY <1>1, <1>a, NumFacts, OffsetIsExact DEF DrawPixel, FirmwareTypeOK
  <2>4. QED  BY <1>1, <2>2, <2>3 DEF DrawPixel, DrawnInv
<1>2. CASE DrawFails \/ DrawEnds
  <2>1. gfxPc' \in {"idle", "text"} /\ gfxPc = "draw"
    BY <1>2, <1>a DEF DrawFails, DrawEnds, GoesOn
  <2>2. GfxTypeOK' /\ Screen' = Screen
    BY <1>2, <1>a, <2>1, ScreenStays DEF DrawFails, DrawEnds, history, drawing
  <2>3. QED  BY <1>2, <2>1, <2>2 DEF DrawFails, DrawEnds, drawing, DrawnInv
<1>3. CASE NextRow
  <2>1. row' \in Num
    BY <1>3, <1>a, NumFacts, ModIsNum DEF NextRow
  <2>2. GfxTypeOK' /\ Screen' = Screen
    BY <1>3, <1>a, <2>1, ScreenStays DEF NextRow, history
  <2>3. QED  BY <1>3, <2>2 DEF NextRow, DrawnInv
<1>4. CASE NextChar
  <2> DEFINE rect == [job EXCEPT !.x = (job.x + CharSize) % WordSize, !.chars = job.chars - 1]
  <2>1. (job.x + CharSize) % WordSize \in Num
    <3>1. job.x \in Nat /\ CharSize \in Nat
      BY <1>a, NumFacts
    <3>2. job.x + CharSize \in Nat
      BY ONLY <3>1
    <3>3. QED  BY ONLY <3>2, ModIsNum
  <2>2. rect \in Rects
    <3>1. job.chars - 1 \in Nat
      BY <1>4 DEF NextChar, Rects
    <3> DEFINE x == (job.x + CharSize) % WordSize
               n == job.chars - 1
    <3>2. x \in Num /\ n \in Nat
      BY <2>1, <3>1
    <3> HIDE DEF x, n
    <3>3. [job EXCEPT !.x = x, !.chars = n] \in Rects
      BY <3>2 DEF Rects
    <3>4. QED  BY <3>3 DEF x, n
  <2>3. GfxTypeOK' /\ Screen' = Screen /\ gfxPc' = "draw" /\ job' \in Rects
    BY <1>4, <2>2, StartsTyped, ScreenStays DEF NextChar, history
  <2>4. QED  BY <1>4, <2>3 DEF NextChar, DrawnInv
<1>5. CASE DrawMessage
  <2>1. GfxTypeOK' /\ Screen' = Screen /\ gfxPc' = "draw" /\ job' \in Rects
    BY <1>5, NumFacts, RectIsTyped, StartsTyped, ScreenStays DEF DrawMessage, history
  <2>2. QED  BY <1>5, <2>1 DEF DrawMessage, DrawnInv
<1>6. CASE ClearScreen
  <2>1. CASE gGOP /\ gModeInfo
    <3>1. modes[mode].width \in Num /\ modes[mode].height \in Num
      BY ModeFacts DEF FirmwareTypeOK, Sizes, Num
    <3>2. GfxTypeOK' /\ gfxPc' = "draw" /\ job' \in Rects
      BY <1>6, <2>1, <3>1, NumFacts, RectIsTyped, StartsTyped, ScreenStays DEF ClearScreen, history
    <3>3. QED  BY <1>6, <2>1, <3>2 DEF ClearScreen, DrawnInv
  <2>2. CASE ~(gGOP /\ gModeInfo)
    <3>1. gfxPc' \in {"idle", "text"} /\ drawn = {}
      BY <1>6, <2>2 DEF ClearScreen, GoesOn, DrawnInv
    <3>2. GfxTypeOK'
      BY <1>6, <1>a, <2>2, <3>1, ScreenStays DEF ClearScreen, drawing, history
    <3>3. QED  BY <1>6, <2>2, <3>1, <3>2 DEF ClearScreen, drawing, DrawnInv
  <2>3. QED  BY <2>1, <2>2
<1>7. QED  BY <1>1, <1>2, <1>3, <1>4, <1>5, <1>6

\* A step that leaves all variables of graphics.c as they are.
LEMMA GfxStutter ==
  ASSUME GfxInv, UNCHANGED gfxVars
  PROVE  GfxInv'
BY DEF GfxInv, GfxTypeOK, gfxVars, FirmwareTypeOK, SearchTypeOK, ParamsTypeOK, DrawingTypeOK,
       ControlTypeOK, DrawnInv, Screen

-----------------------------------------------------------------------------
(***************************************************************************)
(* What the calls achieve.  A step is one of the client, which begins a    *)
(* call, or one of the program; both are classified first, so that each of *)
(* the invariants below is shown once for the client and once for each     *)
(* kind of step of the program.                                            *)
(***************************************************************************)

CallNames == {"init", "initialize_complete", "find_best_mode", "set_mode",
              "get_framebuffer_info", "clear_screen", "draw_rect", "draw_string"}

\* A call that begins: where the calls start that the invariants speak of.
LEMMA ClientBegins ==
  ASSUME ClientCalls
  PROVE  \E name \in CallNames :
           /\ Begins(name) /\ params' = params
           /\ name = "initialize_complete" => gfxPc' = "locate"
           /\ name = "find_best_mode" => gfxPc' = "find"
           /\ name = "draw_rect" =>
                \E x, y, w, h \in Coordinates : Starts(Rect(x, y, w, h, 1, "idle"))
<1> USE DEF CallNames, Calls
<1>1. CASE CallGraphicsInit
  BY <1>1 DEF CallGraphicsInit
<1>2. CASE CallInitialize
  BY <1>2 DEF CallInitialize
<1>3. CASE CallFindBestMode
  BY <1>3 DEF CallFindBestMode
<1>4. CASE CallFramebufferInfo \/ CallClearScreen
  BY <1>4 DEF CallFramebufferInfo, CallClearScreen
<1>5. CASE \E m \in DOMAIN modes \cup {WordSize - 1} : CallSetMode(m)
  BY <1>5 DEF CallSetMode
<1>6. CASE \E x, y, w, h \in Coordinates : CallDrawRect(x, y, w, h)
  BY <1>6 DEF CallDrawRect, CallDraw
<1>7. CASE \E x, y \in Coordinates : CallDrawString(x, y, TextLength)
  BY <1>7 DEF CallDrawString, CallDraw
<1>8. QED  BY <1>1, <1>2, <1>3, <1>4, <1>5, <1>6, <1>7 DEF ClientCalls

Outcomes == [call : CallNames \cup {"none"}, ok : BOOLEAN]

\* The result of the call in progress is kept for the call it is of.
OutcomeInv ==
  /\ outcome \in Outcomes
  /\ complete = (outcome.call = "initialize_complete")

\* A step that is over leaves the name of the call; one that returns reports what
\* it was told, or success if the call is graphics_initialize_complete.
LEMMA GoesOnReports ==
  ASSUME OutcomeInv, NEW next, NEW ok \in BOOLEAN, GoesOn(next, ok)
  PROVE  /\ outcome' \in Outcomes /\ outcome'.call = outcome.call
         /\ gfxPc' = IF complete THEN next ELSE "idle"
         /\ ~complete => outcome'.ok = ok
<1>1. outcome.call \in CallNames \cup {"none"} /\ complete \in BOOLEAN
  BY DEF OutcomeInv, Outcomes
<1>2. CASE complete /\ next # "idle"
  BY <1>1, <1>2 DEF GoesOn, OutcomeInv
<1>3. CASE ~(complete /\ next # "idle")
  <2>1. gfxPc' = "idle" /\ outcome' = [outcome EXCEPT !.ok = ok \/ complete]
    BY <1>3 DEF GoesOn
  <2>2. (ok \/ complete) \in BOOLEAN /\ outcome \in Outcomes
    BY DEF OutcomeInv
  <2> DEFINE result == ok \/ complete
  <2>3. result \in BOOLEAN /\ outcome' = [outcome EXCEPT !.ok = result]
    BY <2>1, <2>2
  <2> HIDE DEF result
  <2>4. outcome' \in Outcomes /\ outcome'.call = outcome.call /\ outcome'.ok = result
    BY <2>2, <2>3 DEF Outcomes
  <2>5. ~complete => result = ok
    BY DEF result
  <2>6. QED  BY <1>3, <2>1, <2>4, <2>5
<1>4. QED  BY <1>2, <1>3

\* No step of the program changes which call is in progress.
LEMMA ProgramKeepsCall ==
  ASSUME OutcomeInv, GfxProgram
  PROVE  OutcomeInv' /\ complete' = complete /\ outcome'.call = outcome.call
<1>1. complete' = complete
  BY DEF GfxProgram, Locate, FindBestMode, QueryMode, SetMode, SetModeFails, GetFramebufferInfo,
         ClearScreen, DrawMessage, DrawPixel, DrawFails, NextRow, NextChar, DrawEnds
<1>2. \/ UNCHANGED outcome
      \/ \E next \in {"find", "set", "info", "idle", "clear", "text", job.next}, ok \in BOOLEAN :
           GoesOn(next, ok)
  BY DEF GfxProgram, Locate, FindBestMode, QueryMode, SetMode, SetModeFails, GetFramebufferInfo,
         ClearScreen, DrawMessage, DrawPixel, DrawFails, NextRow, NextChar, DrawEnds, drawing
<1>3. outcome' \in Outcomes /\ outcome'.call = outcome.call
  BY <1>2, GoesOnReports DEF OutcomeInv
<1>4. QED  BY <1>1, <1>3 DEF OutcomeInv

\* A call that begins.
LEMMA BeginsOutcome ==
  ASSUME NEW name \in CallNames, Begins(name)
  PROVE  /\ OutcomeInv' /\ outcome'.call = name /\ outcome'.ok = FALSE
         /\ complete' = (name = "initialize_complete") /\ modeSet' = FALSE
BY DEF Begins, OutcomeInv, Outcomes

-----------------------------------------------------------------------------
(* The framebuffer fields.                                                 *)

\* From the moment graphics_initialize_complete has filled them in, they are those
\* of the mode in effect, and the pointer they are taken from is set; until then
\* they are of an earlier call.
FramebufferInv ==
  /\ gfxPc \in {"locate", "find", "query", "set"} => ~modeSet
  /\ modeSet /\ gGOP => gModeInfo
  /\ complete /\ gfxPc \in {"info", "clear", "text", "draw"} => modeSet
  /\ complete /\ modeSet /\ gfxPc # "info" => params = FramebufferInfo
  /\ complete /\ ~modeSet => params.call # gfxCalls

\* A drawing changes neither the mode nor the fields.
LEMMA FramebufferInDrawing ==
  ASSUME FramebufferInv, UNCHANGED <<firmware, params, complete, modeSet, gfxCalls>>,
         gfxPc \in {"clear", "text", "draw"}, gfxPc' \in {"text", "draw", "idle"}
  PROVE  FramebufferInv'
BY DEF FramebufferInv, FramebufferInfo, Info, NoInfo, firmware

\* Once filled, the fields stay those of the mode in effect until the next call.
LEMMA FramebufferKept ==
  ASSUME GfxInv, OutcomeInv, FramebufferInv, ClientCalls \/ GfxProgram
  PROVE  FramebufferInv'
<1>1. CASE ClientCalls
  <2>1. PICK name \in CallNames : /\ Begins(name) /\ params' = params
                                  /\ name = "initialize_complete" => gfxPc' = "locate"
    BY <1>1, ClientBegins
  <2>2. modeSet' = FALSE /\ complete' = (name = "initialize_complete")
    BY <2>1, BeginsOutcome
  <2>3. params.call # gfxCalls'
    <3>1. gfxCalls \in Nat /\ gfxCalls' = gfxCalls + 1 /\ params.call \in 0 .. gfxCalls
      BY <2>1, GfxCallsAssumption DEF Begins, GfxInv, GfxTypeOK, ControlTypeOK, ParamsTypeOK
    <3>2. QED  BY <3>1
  <2>4. QED  BY <2>1, <2>2, <2>3 DEF FramebufferInv
<1>2. CASE Locate \/ FindBestMode \/ QueryMode
  <2>1. /\ gfxPc \in {"locate", "find", "query"} /\ modeSet' = modeSet /\ complete' = complete
        /\ UNCHANGED <<params, gfxCalls>>
        /\ gfxPc' \in {"find", "query", "set"} \/ (gfxPc' = "idle" /\ ~complete)
    BY <1>2, GoesOnReports DEF Locate, FindBestMode, QueryMode, history
  <2>2. QED  BY <2>1 DEF FramebufferInv
<1>3. CASE SetMode
  <2>1. /\ modeSet' = TRUE /\ complete' = complete /\ (gGOP' => gModeInfo')
        /\ gfxPc' = IF complete THEN "info" ELSE "idle"
    BY <1>3, GoesOnReports DEF SetMode
  <2>2. QED  BY <2>1 DEF FramebufferInv
<1>4. CASE SetModeFails
  <2>1. /\ gfxPc = "set" /\ modeSet' = modeSet /\ complete' = complete /\ gfxPc' = "idle"
        /\ UNCHANGED <<params, gfxCalls>>
    BY <1>4, GoesOnReports DEF SetModeFails, history
  <2>2. QED  BY <2>1 DEF FramebufferInv
<1>5. CASE GetFramebufferInfo
  <2>1. /\ gfxPc = "info"
        /\ UNCHANGED <<gGOP, gModeInfo, modes, mode, modeSet, complete, gfxCalls>>
        /\ params' = FramebufferInfo /\ gfxPc' = IF complete THEN "clear" ELSE "idle"
    BY <1>5, GoesOnReports DEF GetFramebufferInfo, history, firmware
  <2>2. FramebufferInfo' = FramebufferInfo
    BY <2>1 DEF FramebufferInfo, Info, NoInfo
  <2>3. QED  BY <2>1, <2>2 DEF FramebufferInv
<1>6. CASE ClearScreen \/ DrawMessage \/ DrawPixel \/ DrawFails \/ NextRow \/ NextChar \/ DrawEnds
  <2>1. /\ UNCHANGED <<firmware, params, complete, modeSet, gfxCalls>>
        /\ gfxPc \in {"clear", "text", "draw"}
    BY <1>6 DEF ClearScreen, DrawMessage, DrawPixel, DrawFails, NextRow, NextChar, DrawEnds,
            history
  <2>2. gfxPc' \in {"text", "draw", "idle"}
    <3>1. job.next \in {"text", "idle"}
      BY DEF GfxInv, Rects
    <3>2. QED
      BY <1>6, <3>1, GoesOnTo
       DEF ClearScreen, DrawMessage, DrawPixel, DrawFails, NextRow, NextChar, DrawEnds, Starts
  <2>3. QED  BY <2>1, <2>2, FramebufferInDrawing
<1>7. QED  BY <1>1, <1>2, <1>3, <1>4, <1>5, <1>6 DEF GfxProgram

\* The invariant says what the boot parameters must hold.
LEMMA FramebufferFollows ==
  ASSUME GfxInv, OutcomeInv, FramebufferInv
  PROVE  FramebufferMatchesMode
<1> SUFFICES ASSUME Returned("initialize_complete")
             PROVE  /\ params.call = gfxCalls <=> modeSet
                    /\ modeSet /\ ~gGOP => params = NoInfo
                    /\ modeSet /\ gGOP =>
                         /\ params.width = modes[mode].width
                         /\ params.height = modes[mode].height
                         /\ \A x \in 0 .. modes[mode].width - 1,
                               y \in 0 .. modes[mode].height - 1 :
                              OffsetByPitch(x, y) = Offset(x, y)
                                <=> y = 0 \/ modes[mode].scan = modes[mode].width
  BY DEF FramebufferMatchesMode
<1>1. complete /\ gfxPc = "idle"
  BY DEF Returned, OutcomeInv
<1>2. CASE ~modeSet
  BY <1>1, <1>2 DEF FramebufferInv
<1>3. CASE modeSet /\ ~gGOP
  <2>1. params = NoInfo
    BY <1>1, <1>3 DEF FramebufferInv, FramebufferInfo
  <2>2. QED  BY <1>3, <2>1 DEF NoInfo, Info
<1>4. CASE modeSet /\ gGOP
  <2>1. gModeInfo /\ params = Info(modes[mode].width, modes[mode].height)
    BY <1>1, <1>4 DEF FramebufferInv, FramebufferInfo
  <2>2. /\ params.call = gfxCalls
        /\ params.width = modes[mode].width /\ params.height = modes[mode].height
        /\ params.pitch = (modes[mode].width * 4) % WordSize
    BY <2>1 DEF Info
  <2>3. modes \in ModeLists /\ mode \in DOMAIN modes
    BY DEF GfxInv, GfxTypeOK, FirmwareTypeOK
  <2>4. QED  BY <1>4, <2>1, <2>2, <2>3, PitchFinds
<1>5. QED  BY <1>2, <1>3, <1>4

-----------------------------------------------------------------------------
(* The search.                                                             *)

\* Best, with names for its parts.
Having(p) == {i \in DOMAIN modes \ broken : Matches(p, i)}
Possible  == {p \in DOMAIN Preferences : Having(p) # {}}
First(S)  == CHOOSE n \in S : \A m \in S : n <= m

\* The mode promised, by the first preference and the first mode that has it.
LEMMA BestIsFirst ==
  Best = IF Possible = {} THEN mode ELSE First(Having(First(Possible)))
BY DEF Best, Possible, Having, First, Matches

\* A number below which a set has nothing is its first.
LEMMA FirstIs ==
  ASSUME NEW S \in SUBSET Int, NEW n \in S, \A m \in S : ~(m < n)
  PROVE  First(S) = n
<1>1. \A m \in S : n <= m
  OBVIOUS
<1>2. \A k \in S : (\A m \in S : k <= m) => k = n
  BY <1>1
<1>3. QED  BY <1>1, <1>2 DEF First

\* What the loops have passed over: the preferences before this one have no mode,
\* and this one has none among the modes before this one.
Searched ==
  /\ \A p \in DOMAIN Preferences : p < pref => Having(p) = {}
  /\ \A i \in Having(pref) : ~(i < index)

SearchInv ==
  /\ gfxPc \in {"locate", "find"} => pref = 1 /\ index = 0
  /\ gfxPc = "query" => Searched
  /\ outcome.call = "find_best_mode" => gfxPc \in {"find", "query", "idle"}
  /\ (outcome.call = "find_best_mode" /\ gfxPc = "idle" /\ gGOP) => best_mode = Best
  /\ (complete /\ gfxPc = "set" /\ gGOP) => best_mode = Best
  /\ (complete /\ modeSet /\ gGOP) => mode = Best

\* The numbers the search counts with.
LEMMA SearchNumbers ==
  ASSUME GfxInv
  PROVE  /\ DOMAIN Preferences = 1 .. Len(Preferences) /\ Len(Preferences) \in Nat
         /\ \E n \in Nat : DOMAIN modes = 0 .. n
         /\ pref \in DOMAIN Preferences /\ index \in DOMAIN modes
<1>1. modes \in ModeLists /\ pref \in DOMAIN Preferences /\ index \in DOMAIN modes
  BY DEF GfxInv, GfxTypeOK, FirmwareTypeOK, SearchTypeOK
<1>2. PICK n \in 1 .. WordSize : modes \in [0 .. n - 1 -> Sizes]
  BY <1>1, ModesAssumption
<1>3. n - 1 \in Nat /\ DOMAIN modes = 0 .. n - 1
  BY <1>2
<1>4. QED  BY <1>1, <1>3, PreferencesAssumption, LenProperties

\* The first mode that can be queried and matches is the best one.
LEMMA MatchIsBest ==
  ASSUME GfxInv, Searched, index \notin broken, Matches(pref, index)
  PROVE  Best = index
<1>1. index \in Having(pref) /\ Having(pref) \subseteq Int
  BY SearchNumbers DEF Having
<1>2. First(Having(pref)) = index
  BY <1>1, FirstIs DEF Searched
<1>3. pref \in Possible /\ Possible \subseteq Int /\ \A p \in Possible : ~(p < pref)
  BY <1>1, SearchNumbers DEF Possible, Searched
<1>4. First(Possible) = pref
  BY <1>3, FirstIs
<1>5. QED  BY <1>2, <1>3, <1>4, BestIsFirst

\* At the end of the modes of a preference it has none.
LEMMA NoneLeft ==
  ASSUME GfxInv, Searched, index \in broken \/ ~Matches(pref, index),
         index + 1 \notin DOMAIN modes
  PROVE  Having(pref) = {}
<1>1. PICK n \in Nat : DOMAIN modes = 0 .. n
  BY SearchNumbers
<1>2. index \notin Having(pref)
  BY DEF Having
<1>3. \A i \in Having(pref) : i \in DOMAIN modes /\ ~(i < index) /\ i # index
  BY <1>2 DEF Having, Searched
<1>4. index \in 0 .. n /\ index + 1 \notin 0 .. n
  BY <1>1, SearchNumbers
<1>5. \A i \in 0 .. n : ~(i < index) => i = index
  BY <1>4
<1>6. QED  BY <1>1, <1>3, <1>5

\* At the end of the preferences none has a mode, and the mode in effect is best.
LEMMA NoneIsBest ==
  ASSUME GfxInv, Searched, Having(pref) = {}, ~(pref < Len(Preferences))
  PROVE  Best = mode
<1>1. \A p \in DOMAIN Preferences : p < pref \/ p = pref
  BY SearchNumbers
<1>2. Possible = {}
  BY <1>1 DEF Possible, Searched
<1>3. QED  BY <1>2, BestIsFirst

\* What is best depends on the firmware's modes and on which can be queried.
LEMMA BestStays ==
  ASSUME UNCHANGED <<modes, broken, mode>>
  PROVE  Best' = Best
BY DEF Best

\* A turn of the inner loop.
LEMMA SearchQuery ==
  ASSUME GfxInv, OutcomeInv, FramebufferInv, SearchInv, QueryMode
  PROVE  SearchInv'
<1>1. /\ gfxPc = "query" /\ Searched /\ ~modeSet /\ modeSet' = modeSet
      /\ UNCHANGED <<modes, broken, mode, gGOP, complete>>
  BY DEF QueryMode, SearchInv, FramebufferInv, firmware, history
<1>2. OutcomeInv' /\ outcome'.call = outcome.call
  BY ProgramKeepsCall DEF GfxProgram
<1>3. \A p : Having(p)' = Having(p)
  BY <1>1 DEF Having, Matches
<1>4. CASE index \notin broken /\ Matches(pref, index)
  <2>1. best_mode' = index /\ gfxPc' = IF complete THEN "set" ELSE "idle"
    BY <1>4, GoesOnReports DEF QueryMode
  <2>2. best_mode' = Best'
    BY <1>1, <1>4, <2>1, MatchIsBest, BestStays
  <2>3. QED  BY <1>1, <1>2, <2>1, <2>2 DEF SearchInv, OutcomeInv
<1>5. CASE ~(index \notin broken /\ Matches(pref, index)) /\ index + 1 \in DOMAIN modes
  <2>1. index' = index + 1 /\ UNCHANGED <<gfxPc, pref>>
    BY <1>5 DEF QueryMode
  <2>2. index \notin Having(pref)
    BY <1>5 DEF Having
  <2>3. \A i \in Having(pref) : i \in Int /\ ~(i < index) /\ i # index
    BY <1>1, <2>2, SearchNumbers DEF Having, Searched
  <2>4. \A i \in Having(pref) : ~(i < index + 1)
    BY <2>3, SearchNumbers
  <2>5. Searched'
    BY <1>1, <1>3, <2>1, <2>4 DEF Searched
  <2>6. QED  BY <1>1, <1>2, <2>1, <2>5 DEF SearchInv
<1>6. CASE /\ ~(index \notin broken /\ Matches(pref, index)) /\ index + 1 \notin DOMAIN modes
           /\ pref < Len(Preferences)
  <2>1. pref' = pref + 1 /\ index' = 0 /\ gfxPc' = gfxPc
    BY <1>6 DEF QueryMode
  <2>2. \A p \in DOMAIN Preferences : p < pref + 1 => Having(p) = {}
    <3>1. \A p \in DOMAIN Preferences : p < pref + 1 => p < pref \/ p = pref
      BY SearchNumbers
    <3>2. QED  BY <1>1, <1>6, <3>1, NoneLeft DEF Searched
  <2>3. \A p : \A i \in Having(p) : ~(i < 0)
    BY SearchNumbers DEF Having
  <2>4. Searched'
    BY <1>3, <2>1, <2>2, <2>3 DEF Searched
  <2>5. QED  BY <1>1, <1>2, <2>1, <2>4 DEF SearchInv
<1>7. CASE /\ ~(index \notin broken /\ Matches(pref, index)) /\ index + 1 \notin DOMAIN modes
           /\ ~(pref < Len(Preferences))
  <2>1. best_mode' = mode /\ gfxPc' = IF complete THEN "set" ELSE "idle"
    BY <1>7, GoesOnReports DEF QueryMode
  <2>2. best_mode' = Best'
    BY <1>1, <1>7, <2>1, NoneLeft, NoneIsBest, BestStays
  <2>3. QED  BY <1>1, <1>2, <2>1, <2>2 DEF SearchInv, OutcomeInv
<1>8. QED  BY <1>4, <1>5, <1>6, <1>7

\* Steps that come before the search, and those that come after it.
LEMMA SearchKept ==
  ASSUME GfxInv, OutcomeInv, FramebufferInv, SearchInv, ClientCalls \/ GfxProgram
  PROVE  SearchInv'
<1>1. CASE ClientCalls
  <2>1. PICK name \in CallNames :
          /\ Begins(name)
          /\ name = "initialize_complete" => gfxPc' = "locate"
          /\ name = "find_best_mode" => gfxPc' = "find"
    BY <1>1, ClientBegins
  <2>2. modeSet' = FALSE /\ complete' = (name = "initialize_complete") /\ outcome'.call = name
    BY <2>1, BeginsOutcome
  <2>3. pref' = 1 /\ index' = 0
    BY <2>1 DEF Begins
  <2>4. gfxPc' # "query"
    BY <1>1 DEF ClientCalls, CallGraphicsInit, CallInitialize, CallFindBestMode, CallSetMode,
                CallFramebufferInfo, CallClearScreen, Calls, CallDrawRect, CallDrawString, CallDraw,
                Starts
  <2>5. QED  BY <2>1, <2>2, <2>3, <2>4 DEF SearchInv
<1>2. ASSUME GfxProgram, ~QueryMode
      PROVE  SearchInv'
  <2>1. OutcomeInv' /\ outcome'.call = outcome.call /\ complete' = complete
    BY <1>2, ProgramKeepsCall
  <2>2. CASE Locate
    <3>1. /\ gfxPc = "locate" /\ pref' = pref /\ index' = index /\ modeSet' = modeSet
          /\ gfxPc' = IF complete THEN "find" ELSE "idle"
      BY <2>2, GoesOnReports DEF Locate, search, history
    <3>2. ~modeSet /\ outcome.call # "find_best_mode" /\ pref = 1 /\ index = 0
      BY <3>1 DEF SearchInv, FramebufferInv
    <3>3. QED  BY <2>1, <3>1, <3>2 DEF SearchInv
  <2>3. CASE FindBestMode
    <3>1. /\ gfxPc = "find" /\ pref' = 1 /\ index' = 0 /\ modeSet' = modeSet /\ ~modeSet
          /\ UNCHANGED <<gGOP, modes, mode>>
      BY <2>3 DEF FindBestMode, SearchInv, FramebufferInv, history, firmware
    <3>2. CASE gGOP
      <4>1. gfxPc' = "query" /\ broken' \in SUBSET DOMAIN modes
        BY <2>3, <3>2 DEF FindBestMode
      <4>2. Searched'
        <5>1. /\ \A p \in DOMAIN Preferences : ~(p < 1)
              /\ \A i \in DOMAIN modes : ~(i < 0)
          BY SearchNumbers
        <5>2. QED  BY <3>1, <5>1 DEF Searched, Having
      <4>3. QED  BY <2>1, <3>1, <4>1, <4>2 DEF SearchInv
    <3>3. CASE ~gGOP
      <4>1. gfxPc' = IF complete THEN "set" ELSE "idle"
        BY <2>3, <3>3, GoesOnReports DEF FindBestMode
      <4>2. ~gGOP' /\ ~modeSet' /\ gfxPc' \in {"set", "idle"}
        BY <3>1, <3>3, <4>1
      <4>3. outcome'.call = "find_best_mode" => gfxPc' = "idle"
        BY <2>1, <4>1 DEF OutcomeInv
      <4>4. QED  BY <4>2, <4>3 DEF SearchInv
    <3>4. QED  BY <3>2, <3>3
  <2>4. CASE SetMode
    <3>1. /\ gfxPc = "set" /\ gGOP' = gGOP /\ UNCHANGED <<modes, broken, best_mode>>
          /\ gfxPc' = IF complete THEN "info" ELSE "idle"
          /\ gGOP => mode' = best_mode
      BY <2>4, GoesOnReports DEF SetMode, search
    <3>2. outcome.call # "find_best_mode"
      BY <3>1 DEF SearchInv
    <3>3. (complete /\ gGOP) => mode' = Best'
      <4>1. SUFFICES ASSUME complete, gGOP  PROVE mode' = Best'
        OBVIOUS
      <4>2. mode' = Best
        BY <3>1, <4>1 DEF SearchInv
      <4>3. /\ Having(First(Possible))' = Having(First(Possible)) /\ Possible' = Possible
            /\ First(Having(First(Possible)))' = First(Having(First(Possible)))
        BY <3>1 DEF Having, Possible, Matches, First
      <4>4. Best' = IF Possible = {} THEN mode' ELSE First(Having(First(Possible)))
        <5>1. (Best = IF Possible = {} THEN mode ELSE First(Having(First(Possible))))'
          BY BestIsFirst, PTL
        <5>2. QED  BY <4>3, <5>1
      <4>5. QED  BY <4>2, <4>4, BestIsFirst
    <3>4. QED  BY <2>1, <3>1, <3>2, <3>3 DEF SearchInv
  <2>5. CASE SetModeFails
    <3>1. /\ gfxPc = "set" /\ gfxPc' = "idle" /\ modeSet' = modeSet
      BY <2>5, GoesOnReports DEF SetModeFails, history
    <3>2. ~modeSet /\ outcome.call # "find_best_mode"
      BY <3>1 DEF SearchInv, FramebufferInv
    <3>3. QED  BY <2>1, <3>1, <3>2 DEF SearchInv
  <2>6. CASE GetFramebufferInfo \/ ClearScreen \/ DrawMessage \/ DrawPixel \/ DrawFails \/ NextRow
             \/ NextChar \/ DrawEnds
    <3>1. /\ UNCHANGED <<firmware, search, modeSet>>
          /\ gfxPc \in {"info", "clear", "text", "draw"}
      BY <2>6 DEF GetFramebufferInfo, ClearScreen, DrawMessage, DrawPixel, DrawFails, NextRow,
                  NextChar, DrawEnds, history
    <3>2. gfxPc' \in {"clear", "text", "draw", "idle"}
      <4>1. job.next \in {"text", "idle"}
        BY DEF GfxInv, Rects
      <4>2. QED
        BY <2>6, <4>1, GoesOnTo
         DEF GetFramebufferInfo, ClearScreen, DrawMessage, DrawPixel, DrawFails, NextRow,
             NextChar, DrawEnds, Starts
    <3>3. outcome.call # "find_best_mode"
      BY <3>1 DEF SearchInv
    <3>4. Best' = Best /\ UNCHANGED <<gGOP, mode>>
      BY <3>1, BestStays DEF firmware, search
    <3>5. QED  BY <2>1, <3>1, <3>2, <3>3, <3>4 DEF SearchInv
  <2>7. QED  BY <1>2, <2>2, <2>3, <2>4, <2>5, <2>6 DEF GfxProgram
<1>3. QED  BY <1>1, <1>2, SearchQuery

\* The invariant says what both calls promise.
LEMMA BestFollows ==
  ASSUME OutcomeInv, SearchInv
  PROVE  BestModeIsFound
BY DEF OutcomeInv, SearchInv, BestModeIsFound, Returned

-----------------------------------------------------------------------------
(* A rectangle.                                                            *)

\* Where its loops end.
Right  == (job.x + job.width) % WordSize
Bottom == (job.y + job.height) % WordSize

Pixels(cols, rows) == {Offset(c, r) : c \in cols, r \in rows}

\* The rows before this one are drawn, and this one up to this column.  The loops
\* stop at their ends: they neither pass them nor draw in a row that has none.
RectangleInv ==
  outcome.call = "draw_rect" =>
    /\ gfxPc \in {"draw", "idle"}
    /\ job.chars = 1 /\ job.next = "idle" /\ job.width \in Num /\ job.height \in Num
    /\ gfxPc = "draw" =>
         /\ job.x <= col /\ (job.x < col => row < Bottom /\ col <= Right)
         /\ job.y <= row /\ (job.y < row => row <= Bottom)
         /\ drawn = Pixels(job.x .. Right - 1, job.y .. row - 1)
                      \cup Pixels(job.x .. col - 1, {row})
    /\ (gfxPc = "idle" /\ outcome.ok) =>
         drawn = Pixels(job.x .. Right - 1, job.y .. Bottom - 1)

\* A row or column that has just begun has no pixels.
LEMMA NoPixels ==
  ASSUME NEW cols, NEW rows
  PROVE  Pixels({}, rows) = {} /\ Pixels(cols, {}) = {}
BY DEF Pixels

\* A row more.
LEMMA PixelsOfRow ==
  ASSUME NEW cols, NEW rows, NEW r
  PROVE  Pixels(cols, rows \cup {r}) = Pixels(cols, rows) \cup Pixels(cols, {r})
BY DEF Pixels

\* The ends of the loops are numbers, and none is lost on the way to them.
LEMMA LoopEnds ==
  ASSUME GfxInv, RectangleInv, outcome.call = "draw_rect"
  PROVE  /\ Right \in Num /\ Bottom \in Num
         /\ job.x \in Num /\ job.y \in Num /\ row \in Num /\ col \in Num
         /\ \A n \in Num : n + 1 \in Num => (n + 1) % WordSize = n + 1
<1>1. /\ job.x \in Num /\ job.y \in Num /\ row \in Num /\ col \in Num
      /\ job.width \in Num /\ job.height \in Num
  BY DEF GfxInv, GfxTypeOK, DrawingTypeOK, RectangleInv, Num
<1>2. job.x + job.width \in Nat /\ job.y + job.height \in Nat
  <2>1. \A m, n \in Num : m + n \in Nat
    BY WordAssumption DEF Num
  <2>2. QED  BY ONLY <1>1, <2>1
<1>3. Right \in Num /\ Bottom \in Num
  BY <1>2, ModIsNum DEF Right, Bottom
<1>4. \A n \in Num : n + 1 \in Num => (n + 1) % WordSize = n + 1
  BY WordAssumption DEF Num
<1>5. QED  BY <1>1, <1>3, <1>4

\* What one turn of the inner loop adds, and what one of the outer loop does not.
LEMMA LoopPixels ==
  ASSUME GfxInv, RectangleInv, outcome.call = "draw_rect", gfxPc = "draw"
  PROVE  /\ Pixels(job.x .. (col + 1) - 1, {row})
              = Pixels(job.x .. col - 1, {row}) \cup {Offset(col, row)}
         /\ ~(col < Right) =>
              Pixels(job.x .. Right - 1, job.y .. (row + 1) - 1)
                  \cup Pixels(job.x .. job.x - 1, {row + 1})
                = Pixels(job.x .. Right - 1, job.y .. row - 1) \cup Pixels(job.x .. col - 1, {row})
<1> DEFINE x == job.x
           y == job.y
           right == Right
<1>1. x \in Nat /\ y \in Nat /\ row \in Nat /\ col \in Nat /\ right \in Nat
  BY LoopEnds, NumFacts
<1>2. x <= col /\ (x < col => col <= right) /\ y <= row
  BY DEF RectangleInv
<1> HIDE DEF x, y, right
<1>3. Pixels(x .. (col + 1) - 1, {row}) = Pixels(x .. col - 1, {row}) \cup {Offset(col, row)}
  <2>1. x .. (col + 1) - 1 = (x .. col - 1) \cup {col}
    BY <1>1, <1>2
  <2>2. Pixels((x .. col - 1) \cup {col}, {row})
          = Pixels(x .. col - 1, {row}) \cup {Offset(col, row)}
    BY DEF Pixels
  <2>3. QED  BY ONLY <2>1, <2>2
<1>4. ASSUME ~(col < right)
      PROVE  Pixels(x .. right - 1, y .. (row + 1) - 1) \cup Pixels(x .. x - 1, {row + 1})
               = Pixels(x .. right - 1, y .. row - 1) \cup Pixels(x .. col - 1, {row})
  <2>1. y .. (row + 1) - 1 = (y .. row - 1) \cup {row}
    BY <1>1, <1>2
  <2>2. Pixels(x .. right - 1, (y .. row - 1) \cup {row})
          = Pixels(x .. right - 1, y .. row - 1) \cup Pixels(x .. right - 1, {row})
    BY ONLY PixelsOfRow
  <2>3. x .. col - 1 = x .. right - 1
    BY <1>1, <1>2, <1>4
  <2>4. x .. x - 1 = {}
    BY <1>1
  <2>5. Pixels(x .. x - 1, {row + 1}) = {}
    BY ONLY <2>4, NoPixels
  <2>6. QED  BY ONLY <2>1, <2>2, <2>3, <2>5
<1>5. QED  BY <1>3, <1>4 DEF x, y, right

\* A drawing that begins has drawn nothing.
LEMMA RectangleBegins ==
  ASSUME NEW x \in Coordinates, NEW y \in Coordinates, NEW w \in Coordinates,
         NEW h \in Coordinates, Starts(Rect(x, y, w, h, 1, "idle")), drawn' = {},
         outcome'.ok = FALSE
  PROVE  RectangleInv'
<1>1. /\ job'.x = x /\ job'.y = y /\ job'.width = w /\ job'.height = h
      /\ job'.chars = 1 /\ job'.next = "idle" /\ row' = y /\ col' = x /\ gfxPc' = "draw"
  BY DEF Starts, Rect
<1>2. x \in Nat /\ y \in Nat /\ w \in Num /\ h \in Num
  BY NumFacts
<1>3. x .. x - 1 = {} /\ y .. y - 1 = {} /\ x <= x /\ y <= y /\ ~(x < x) /\ ~(y < y)
  BY <1>2
<1>4. /\ \A rows : Pixels({}, rows)' = {}
      /\ \A cols : Pixels(cols, {})' = {}
  BY DEF Pixels
<1>5. drawn' = (Pixels(job.x .. Right - 1, job.y .. row - 1) \cup Pixels(job.x .. col - 1, {row}))'
  BY <1>1, <1>3 DEF Pixels
<1>6. QED  BY <1>1, <1>2, <1>3, <1>5 DEF RectangleInv

\* A step of the loops that leaves them in a row and column of the rectangle.
LEMMA RectangleGoesOn ==
  ASSUME GfxInv, RectangleInv, outcome.call = "draw_rect", gfxPc = "draw", gfxPc' = "draw",
         UNCHANGED <<job, modes, mode>>, NEW r, NEW c, row' = r, col' = c,
         job.x <= c, job.x < c => r < Bottom /\ c <= Right,
         job.y <= r, job.y < r => r <= Bottom,
         drawn' = Pixels(job.x .. Right - 1, job.y .. r - 1) \cup Pixels(job.x .. c - 1, {r})
  PROVE  RectangleInv'
<1>1. Right' = Right /\ Bottom' = Bottom
  BY DEF Right, Bottom
<1>2. \A cols, rows : Pixels(cols, rows) = {Offset(c1, r1) : c1 \in cols, r1 \in rows}
  BY DEF Pixels
<1>3. \A c1, r1 : Offset(c1, r1)' = Offset(c1, r1)
  BY DEF Offset
<1>4. drawn' = (Pixels(job.x .. Right - 1, job.y .. row - 1) \cup Pixels(job.x .. col - 1, {row}))'
  BY <1>1, <1>2, <1>3 DEF Pixels
<1>5. QED  BY <1>1, <1>4 DEF RectangleInv

\* The last row is drawn, or there is none.
LEMMA RectangleEnds ==
  ASSUME GfxInv, RectangleInv, outcome.call = "draw_rect", gfxPc = "draw", ~InRows
  PROVE  drawn = Pixels(job.x .. Right - 1, job.y .. Bottom - 1)
<1> DEFINE x == job.x
           y == job.y
           right == Right
           bottom == Bottom
<1>1. x \in Nat /\ y \in Nat /\ row \in Nat /\ col \in Nat /\ right \in Nat /\ bottom \in Nat
  BY LoopEnds, NumFacts
<1>2. /\ x <= col /\ (x < col => row < bottom)
      /\ y <= row /\ (y < row => row <= bottom)
      /\ drawn = Pixels(x .. right - 1, y .. row - 1) \cup Pixels(x .. col - 1, {row})
      /\ ~(row < bottom)
  BY DEF RectangleInv, InRows, Right, Bottom
<1> HIDE DEF x, y, right, bottom
<1>3. col = x /\ (row = y \/ row = bottom)
  BY <1>1, <1>2
<1>4. Pixels(x .. x - 1, {row}) = {} /\ Pixels(x .. right - 1, y .. y - 1) = {}
  <2>1. x .. x - 1 = {} /\ y .. y - 1 = {}
    BY <1>1
  <2>2. QED  BY ONLY <2>1, NoPixels
<1>5. drawn = Pixels(x .. right - 1, y .. row - 1)
  BY <1>2, <1>3, <1>4
<1>6. CASE row = bottom
  BY <1>5, <1>6 DEF x, y, right, bottom
<1>7. CASE row = y
  <2>1. y .. row - 1 = {} /\ y .. bottom - 1 = {}
    BY <1>1, <1>2, <1>7
  <2>2. drawn = Pixels(x .. right - 1, y .. bottom - 1)
    BY ONLY <1>5, <2>1
  <2>3. QED  BY <2>2 DEF x, y, right, bottom
<1>8. QED  BY <1>3, <1>6, <1>7

\* A call that returns has drawn what its rectangle says, if it reports success.
LEMMA RectangleReturns ==
  ASSUME RectangleInv, outcome.call = "draw_rect", gfxPc' = "idle",
         UNCHANGED <<job, drawn, modes, mode>>,
         outcome'.ok => drawn = Pixels(job.x .. Right - 1, job.y .. Bottom - 1)
  PROVE  RectangleInv'
<1>1. Right' = Right /\ Bottom' = Bottom
  BY DEF Right, Bottom
<1>2. Pixels(job.x .. Right - 1, job.y .. Bottom - 1)'
        = Pixels(job.x .. Right - 1, job.y .. Bottom - 1)
  BY <1>1 DEF Pixels, Offset
<1>3. outcome'.ok => drawn' = Pixels(job.x .. Right - 1, job.y .. Bottom - 1)'
  BY <1>2
<1>4. QED  BY <1>3 DEF RectangleInv

\* Every step of a drawing keeps what has been drawn of the rectangle so far.
LEMMA RectangleKept ==
  ASSUME GfxInv, OutcomeInv, RectangleInv, ClientCalls \/ GfxProgram
  PROVE  RectangleInv'
<1>1. CASE ClientCalls
  <2>1. PICK name \in CallNames :
          /\ Begins(name)
          /\ name = "draw_rect" =>
               \E x, y, w, h \in Coordinates : Starts(Rect(x, y, w, h, 1, "idle"))
    BY <1>1, ClientBegins
  <2>2. outcome'.call = name /\ outcome'.ok = FALSE /\ drawn' = {}
    BY <2>1, BeginsOutcome DEF Begins
  <2>3. CASE name = "draw_rect"
    BY <2>1, <2>2, <2>3, RectangleBegins
  <2>4. CASE name # "draw_rect"
    BY <2>2, <2>4 DEF RectangleInv
  <2>5. QED  BY <2>3, <2>4
<1>2. ASSUME GfxProgram, outcome.call = "draw_rect"
      PROVE  RectangleInv'
  <2>1. gfxPc # "idle"
    BY <1>2 DEF GfxProgram, Locate, FindBestMode, QueryMode, SetMode, SetModeFails,
                GetFramebufferInfo, ClearScreen, DrawMessage, DrawPixel, DrawFails, NextRow,
                NextChar, DrawEnds
  <2>2. gfxPc = "draw" /\ ~complete /\ job.chars = 1 /\ job.next = "idle"
    BY <1>2, <2>1 DEF RectangleInv, OutcomeInv
  <2> DEFINE x == job.x
             y == job.y
             right == Right
             bottom == Bottom
  <2>3. /\ x \in Nat /\ y \in Nat /\ row \in Nat /\ col \in Nat
        /\ right \in Num /\ bottom \in Num /\ right \in Nat /\ bottom \in Nat
    BY <1>2, LoopEnds, NumFacts
  <2>4. /\ x <= col /\ (x < col => row < bottom /\ col <= right)
        /\ y <= row /\ (y < row => row <= bottom)
        /\ drawn = Pixels(x .. right - 1, y .. row - 1) \cup Pixels(x .. col - 1, {row})
    BY <1>2, <2>2 DEF RectangleInv
  <2>5. CASE DrawPixel
    <3>1. row < bottom /\ col < right /\ drawn' = drawn \cup {Offset(col, row)}
          /\ col' = (col + 1) % WordSize
          /\ UNCHANGED <<gfxPc, job, modes, mode, row>>
      BY <2>5 DEF DrawPixel, InRows, InCols, Right, Bottom, firmware
    <3>2. col + 1 \in Num
      BY <2>3, <3>1, WordAssumption DEF Num
    <3>3. col' = col + 1
      BY <1>2, <3>1, <3>2, LoopEnds
    <3>4. drawn' = Pixels(x .. right - 1, y .. row - 1) \cup Pixels(x .. (col + 1) - 1, {row})
      <4>1. Pixels(x .. (col + 1) - 1, {row}) = Pixels(x .. col - 1, {row}) \cup {Offset(col, row)}
        BY <1>2, <2>2, LoopPixels
      <4>2. QED  BY ONLY <2>4, <3>1, <4>1
    <3>5. x <= col + 1 /\ col + 1 <= right
      BY <2>3, <2>4, <3>1
    <3>6. QED
      BY <1>2, <2>2, <2>4, <3>1, <3>3, <3>4, <3>5, RectangleGoesOn
  <2>6. CASE DrawFails
    <3>1. /\ gfxPc' = "idle" /\ outcome'.ok = FALSE /\ UNCHANGED <<job, drawn, modes, mode>>
      BY <2>2, <2>6, GoesOnReports DEF DrawFails, firmware, drawing
    <3>2. QED  BY <1>2, <3>1, RectangleReturns
  <2>7. CASE NextRow
    <3>1. row < bottom /\ ~(col < right) /\ drawn' = drawn /\ row' = (row + 1) % WordSize
          /\ col' = x /\ UNCHANGED <<gfxPc, job, modes, mode>>
      BY <2>7 DEF NextRow, InRows, InCols, Right, Bottom, firmware
    <3>2. row + 1 \in Num
      BY <2>3, <3>1, WordAssumption DEF Num
    <3>3. row' = row + 1
      BY <1>2, <3>1, <3>2, LoopEnds
    <3>4. drawn' = Pixels(x .. right - 1, y .. (row + 1) - 1) \cup Pixels(x .. x - 1, {row + 1})
      <4>1. Pixels(x .. right - 1, y .. (row + 1) - 1) \cup Pixels(x .. x - 1, {row + 1})
              = Pixels(x .. right - 1, y .. row - 1) \cup Pixels(x .. col - 1, {row})
        BY <1>2, <2>2, <3>1, LoopPixels
      <4>2. QED  BY ONLY <2>4, <3>1, <4>1
    <3>5. y <= row + 1 /\ row + 1 <= bottom /\ x <= x /\ ~(x < x)
      BY <2>3, <2>4, <3>1
    <3>6. QED
      BY <1>2, <2>2, <2>4, <3>1, <3>3, <3>4, <3>5, RectangleGoesOn
  <2>8. CASE DrawEnds
    <3>1. /\ gfxPc' = "idle" /\ UNCHANGED <<job, drawn, modes, mode>> /\ ~InRows
      BY <2>2, <2>8, GoesOnReports DEF DrawEnds, firmware, drawing
    <3>2. QED  BY <1>2, <2>2, <3>1, RectangleEnds, RectangleReturns
  <2>9. ~NextChar
    BY <2>2 DEF NextChar
  <2>10. QED
    BY <1>2, <2>2, <2>5, <2>6, <2>7, <2>8, <2>9
     DEF GfxProgram, Locate, FindBestMode, QueryMode, SetMode, SetModeFails,
         GetFramebufferInfo, ClearScreen, DrawMessage
<1>3. ASSUME GfxProgram, outcome.call # "draw_rect"
      PROVE  RectangleInv'
  BY <1>3, ProgramKeepsCall DEF RectangleInv
<1>4. QED  BY <1>1, <1>2, <1>3

\* A rectangle that wraps has no column or no row; any other is drawn whole.
LEMMA RectangleFollows ==
  ASSUME GfxInv, RectangleInv
  PROVE  RectangleIsWhole
<1> DEFINE x == job.x
           y == job.y
           w == job.width
           h == job.height
           right == Right
           bottom == Bottom
<1> SUFFICES ASSUME Returned("draw_rect")
             PROVE  IF x + w >= WordSize \/ y + h >= WordSize \/ w = 0 \/ h = 0 THEN drawn = {}
                    ELSE drawn = {Offset(c, r) : c \in x .. x + w - 1, r \in y .. y + h - 1}
  BY DEF RectangleIsWhole
<1>1. drawn = Pixels(x .. right - 1, y .. bottom - 1)
  BY DEF Returned, RectangleInv
<1>2. x \in Num /\ y \in Num /\ w \in Num /\ h \in Num
  BY DEF Returned, GfxInv, Rects, RectangleInv
<1>3. right = (x + w) % WordSize /\ bottom = (y + h) % WordSize
  BY DEF Right, Bottom
<1> HIDE DEF x, y, w, h, right, bottom
<1>4. ASSUME NEW a \in Num, NEW b \in Num
      PROVE  /\ a + b >= WordSize => a .. ((a + b) % WordSize) - 1 = {}
             /\ b = 0 => a .. ((a + b) % WordSize) - 1 = {}
             /\ ~(a + b >= WordSize) => a .. ((a + b) % WordSize) - 1 = a .. a + b - 1
  <2>1. a \in Nat /\ b \in Nat /\ a < WordSize /\ b < WordSize /\ WordSize \in Nat \ {0}
    BY WordAssumption DEF Num
  <2>2. CASE a + b >= WordSize
    <3>1. (a + b) % WordSize = a + b - WordSize
      BY <2>1, <2>2
    <3>2. (a + b) % WordSize < a
      BY <2>1, <3>1
    <3>3. QED  BY <2>1, <2>2, <3>1, <3>2
  <2>3. CASE ~(a + b >= WordSize)
    <3>1. (a + b) % WordSize = a + b
      BY <2>1, <2>3
    <3>2. QED  BY <2>1, <2>3, <3>1
  <2>4. QED  BY <2>2, <2>3
<1>5. \A s : Pixels({}, s) = {} /\ Pixels(s, {}) = {}
  BY DEF Pixels
<1>6. CASE x + w >= WordSize \/ w = 0
  <2>1. x .. right - 1 = {}
    BY <1>2, <1>3, <1>4, <1>6
  <2>2. drawn = {}
    BY ONLY <1>1, <1>5, <2>1
  <2>3. QED  BY <1>6, <2>2
<1>7. CASE y + h >= WordSize \/ h = 0
  <2>1. y .. bottom - 1 = {}
    BY <1>2, <1>3, <1>4, <1>7
  <2>2. drawn = {}
    BY ONLY <1>1, <1>5, <2>1
  <2>3. QED  BY <1>7, <2>2
<1>8. CASE ~(x + w >= WordSize \/ y + h >= WordSize \/ w = 0 \/ h = 0)
  <2>1. x .. right - 1 = x .. x + w - 1 /\ y .. bottom - 1 = y .. y + h - 1
    BY <1>2, <1>3, <1>4, <1>8
  <2>2. drawn = Pixels(x .. x + w - 1, y .. y + h - 1)
    BY ONLY <1>1, <2>1
  <2>3. QED  BY <1>8, <2>2 DEF Pixels
<1>9. QED  BY <1>6, <1>7, <1>8

-----------------------------------------------------------------------------
(* The theorems.                                                           *)

\* A session keeps the invariant, whichever functions it is with.
LEMMA GfxInvHolds == LibSpec => []GfxInv
<1>1. LibInit => GfxInv
  BY GfxInvInit DEF LibInit
<1>2. GfxInv /\ [LibNext]_libVars => GfxInv'
  <2> SUFFICES ASSUME GfxInv, [LibNext]_libVars  PROVE GfxInv'
    OBVIOUS
  <2>1. CASE GfxNext
    BY <2>1, ClientStep, ModeStep, DrawStep DEF GfxNext, GfxProgram, ClientCalls
  <2>2. CASE UNCHANGED gfxVars
    BY <2>2, GfxStutter
  <2>3. QED  BY <2>1, <2>2 DEF LibNext, CallStep, GraphicsStep, libVars
<1>3. QED  BY <1>1, <1>2, PTL DEF LibSpec

\* For every firmware and every client: all variables of both parts keep their
\* types, and nothing is released that is not held.
THEOREM LibTypesCorrect == LibSpec => []LibTypeOK
<1>1. CallInv /\ GfxInv => LibTypeOK
  BY DEF CallInv, GfxInv, LibTypeOK
<1>2. QED  BY <1>1, CallInvHolds, GfxInvHolds, PTL

\* For every framebuffer, width of the numbers and rectangle, also one that leaves
\* the screen or wraps: every pixel written is one of the mode in effect.
THEOREM PixelsInside == LibSpec => []PixelsStayInside
<1>1. GfxInv => PixelsStayInside
  BY DEF GfxInv, DrawnInv, Screen, PixelsStayInside
<1>2. QED  BY <1>1, GfxInvHolds, PTL

\* The invariants about the middle of a call hold throughout a session.
LEMMA CallsInvHolds ==
  LibSpec => [](OutcomeInv /\ FramebufferInv /\ SearchInv /\ RectangleInv)
<1> DEFINE Inv == OutcomeInv /\ FramebufferInv /\ SearchInv /\ RectangleInv
<1>1. LibInit => Inv
  <2> SUFFICES ASSUME GfxInit  PROVE Inv
    BY DEF LibInit
  <2>1. outcome = [call |-> "none", ok |-> TRUE] /\ complete = FALSE /\ modeSet = FALSE /\ gfxPc = "idle"
    BY DEF GfxInit
  <2>2. OutcomeInv
    BY <2>1 DEF OutcomeInv, Outcomes
  <2>3. FramebufferInv /\ SearchInv /\ RectangleInv
    BY <2>1 DEF FramebufferInv, SearchInv, RectangleInv
  <2>4. QED  BY <2>2, <2>3
<1>2. GfxInv /\ Inv /\ [LibNext]_libVars => Inv'
  <2> SUFFICES ASSUME GfxInv, Inv, [LibNext]_libVars  PROVE Inv'
    OBVIOUS
  <2>1. CASE ClientCalls
    <3>1. OutcomeInv'
      BY <2>1, ClientBegins, BeginsOutcome
    <3>2. QED  BY <2>1, <3>1, FramebufferKept, SearchKept, RectangleKept
  <2>2. CASE GfxProgram
    BY <2>2, ProgramKeepsCall, FramebufferKept, SearchKept, RectangleKept
  <2>3. CASE UNCHANGED gfxVars
    <3>1. OutcomeInv' /\ FramebufferInv'
      BY <2>3 DEF gfxVars, OutcomeInv, FramebufferInv, FramebufferInfo, Info, NoInfo
    <3>2. SearchInv'
      <4>1. Best' = Best
        BY <2>3, BestStays DEF gfxVars
      <4>2. Searched' = Searched
        BY <2>3 DEF gfxVars, Searched, Having, Matches
      <4>3. QED  BY <2>3, <4>1, <4>2 DEF gfxVars, SearchInv
    <3>3. RectangleInv'
      BY <2>3 DEF gfxVars, RectangleInv, Right, Bottom, Pixels, Offset
    <3>4. QED  BY <3>1, <3>2, <3>3
  <2>4. QED
    BY <2>1, <2>2, <2>3 DEF LibNext, CallStep, GraphicsStep, GfxNext, ClientCalls, libVars
<1>3. QED  BY <1>1, <1>2, GfxInvHolds, PTL DEF LibSpec

\* For every list of modes and preferences, and whichever modes cannot be queried:
\* the search ends with the first mode of the first preference that any has, and
\* graphics_initialize_complete is in that mode when it could be set.
THEOREM SearchFindsBest == LibSpec => []BestModeIsFound
<1>1. OutcomeInv /\ SearchInv => BestModeIsFound
  BY BestFollows
<1>2. QED  BY <1>1, CallsInvHolds, PTL

\* For every rectangle and width of the numbers: one reported as drawn is drawn
\* whole, or not at all when it passes the end of the numbers.
THEOREM RectanglesWhole == LibSpec => []RectangleIsWhole
<1>1. GfxInv /\ RectangleInv => RectangleIsWhole
  BY RectangleFollows
<1>2. QED  BY <1>1, GfxInvHolds, CallsInvHolds, PTL

\* For every firmware, and however the drawing that follows ends: the boot
\* parameters are filled in exactly when a mode could be set; they have its size,
\* and a pitch that leads to every pixel of a mode without padding, and below the
\* first row to none of one with padding.
THEOREM FramebufferDescribed == LibSpec => []FramebufferMatchesMode
<1>1. GfxInv /\ OutcomeInv /\ FramebufferInv => FramebufferMatchesMode
  BY FramebufferFollows
<1>2. QED  BY <1>1, GfxInvHolds, CallsInvHolds, PTL

-----------------------------------------------------------------------------
(* The calls' ends.                                                        *)

\* The turns of the loops over a rectangle from a row and column on: for every row
\* one for each column and one for the row itself.
Line        == WordSize + 1
CharTurns   == Line * Line
Turns(r, c) == (WordSize - r) * Line + (WordSize - c)

\* Those of a string of n characters, of the message, and of the screen before it.
CharsLeft(n, r, c) == n * CharTurns + Turns(r, c)
TextTurns          == (TextLength + 1) * CharTurns
ScreenTurns        == 2 * CharTurns + TextTurns

\* The turns of the two loops of the search, from a preference and a mode on.
Queries(p, i) == (Len(Preferences) - p) * Line + (WordSize - i)

\* The most steps of a call from each place on; graphics_initialize_complete has
\* them all in front of it, in this order.
LeftAt(turn, j, r, c, p, i) ==
  CASE turn = "idle"   -> 0
    [] turn = "draw"   -> CharsLeft(j.chars, r, c) + (IF j.next = "text" THEN TextTurns ELSE 0)
    [] turn = "text"   -> TextTurns
    [] turn = "clear"  -> ScreenTurns
    [] turn = "info"   -> ScreenTurns + 1
    [] turn = "set"    -> ScreenTurns + 2
    [] turn = "query"  -> ScreenTurns + 3 + Queries(p, i)
    [] turn = "find"   -> ScreenTurns + 3 + Queries(0, 0)
    [] turn = "locate" -> ScreenTurns + 4 + Queries(0, 0)

CallLeft == LeftAt(gfxPc, job, row, col, pref, index)

\* Within a call every step brings its end nearer.
CallsRunDown ==
  [][gfxPc # "idle" =>
       /\ CallLeft' <= CallLeft
       /\ GfxProgram => CallLeft' < CallLeft]_libVars

\* Products with a fixed factor.
LEMMA TimesNext ==
  ASSUME NEW a \in Nat, NEW c \in Nat
  PROVE  a * c \in Nat /\ (a + 1) * c = a * c + c
OBVIOUS

\* A product grows with its other factor.
LEMMA TimesGrow ==
  ASSUME NEW a \in Nat, NEW b \in Nat, NEW c \in Nat, a <= b
  PROVE  a * c <= b * c
<1>1. PICK d \in Nat : b = a + d
  <2>1. b - a \in Nat /\ b = a + (b - a)
    OBVIOUS
  <2>2. QED  BY <2>1
<1>2. b * c = a * c + d * c /\ d * c \in Nat /\ a * c \in Nat
  BY <1>1
<1>3. QED  BY <1>2

\* A rectangle takes fewer turns than a character has room for, and every turn leaves
\* fewer.
LEMMA TurnsFacts ==
  ASSUME NEW r \in Num, NEW c \in Num
  PROVE  /\ CharTurns \in Nat /\ Turns(r, c) \in Nat /\ 1 <= Turns(r, c) /\ Turns(r, c) < CharTurns
         /\ c + 1 \in Num => Turns(r, c + 1) < Turns(r, c)
         /\ r + 1 \in Num => \A d \in Num : Turns(r + 1, d) < Turns(r, c)
<1> DEFINE w == WordSize
           rest == (w - r) * Line
           less == (w - (r + 1)) * Line
           full == w * Line
<1>1. w \in Nat \ {0} /\ r \in 0 .. w - 1 /\ c \in 0 .. w - 1 /\ Line = w + 1 /\ Line \in Nat
  BY WordAssumption DEF Num, Line
<1>2. /\ Turns(r, c) = rest + (w - c)
      /\ Turns(r, c + 1) = rest + (w - (c + 1))
      /\ \A d \in Num : Turns(r + 1, d) = less + (w - d)
  BY DEF Turns
<1>3. CharTurns = full + Line /\ full \in Nat
  <2>1. CharTurns = (w + 1) * Line
    BY <1>1 DEF CharTurns
  <2>2. w \in Nat
    BY <1>1
  <2>3. QED  BY ONLY <1>1, <2>1, <2>2, TimesNext
<1>4. rest \in Nat /\ rest <= full
  <2>1. w - r \in Nat /\ w \in Nat /\ w - r <= w
    BY <1>1
  <2>2. rest \in Nat
    BY ONLY <1>1, <2>1, TimesNext
  <2>3. rest <= full
    BY ONLY <1>1, <2>1, TimesGrow
  <2>4. QED  BY <2>2, <2>3
<1>5. rest = less + Line /\ less \in Nat
  <2>1. w - (r + 1) \in Nat /\ w - r = (w - (r + 1)) + 1
    BY <1>1
  <2>2. QED  BY ONLY <1>1, <2>1, TimesNext
<1>6. \A d \in Num : d \in 0 .. w - 1
  BY DEF Num
<1> HIDE DEF w, rest, less, full
<1>7. CharTurns \in Nat /\ Turns(r, c) \in Nat /\ 1 <= Turns(r, c) /\ Turns(r, c) < CharTurns
  BY <1>1, <1>2, <1>3, <1>4
<1>8. Turns(r, c + 1) < Turns(r, c)
  BY <1>1, <1>2, <1>4
<1>9. \A d \in Num : Turns(r + 1, d) < Turns(r, c)
  BY <1>1, <1>2, <1>5, <1>6
<1>10. QED  BY <1>7, <1>8, <1>9

\* The next character begins with fewer turns left than the one before ended with.
LEMMA CharsFacts ==
  ASSUME NEW n \in Nat, NEW r \in Num, NEW c \in Num
  PROVE  /\ CharsLeft(n, r, c) \in Nat /\ 1 <= CharsLeft(n, r, c)
         /\ CharsLeft(n, r, c) < (n + 1) * CharTurns
         /\ \A q \in Num, d \in Num : CharsLeft(n, q, d) < CharsLeft(n + 1, r, c)
         /\ \A q \in Num, d \in Num :
              Turns(q, d) < Turns(r, c) => CharsLeft(n, q, d) < CharsLeft(n, r, c)
<1> DEFINE now == n * CharTurns
           more == (n + 1) * CharTurns
<1>1. /\ CharTurns \in Nat /\ Turns(r, c) \in Nat /\ 1 <= Turns(r, c) /\ Turns(r, c) < CharTurns
      /\ \A q \in Num, d \in Num : Turns(q, d) \in Nat /\ Turns(q, d) < CharTurns
  BY TurnsFacts
<1>2. now \in Nat /\ more = now + CharTurns
  BY ONLY <1>1, n \in Nat, TimesNext
<1>3. /\ \A q \in Num, d \in Num : CharsLeft(n, q, d) = now + Turns(q, d)
      /\ CharsLeft(n, r, c) = now + Turns(r, c)
      /\ CharsLeft(n + 1, r, c) = more + Turns(r, c)
  BY DEF CharsLeft
<1> HIDE DEF now, more
<1>4. /\ CharsLeft(n, r, c) \in Nat /\ 1 <= CharsLeft(n, r, c)
      /\ CharsLeft(n, r, c) < more
  BY <1>1, <1>2, <1>3
<1>5. \A q \in Num, d \in Num : CharsLeft(n, q, d) < CharsLeft(n + 1, r, c)
  BY <1>1, <1>2, <1>3
<1>6. \A q \in Num, d \in Num :
        Turns(q, d) < Turns(r, c) => CharsLeft(n, q, d) < CharsLeft(n, r, c)
  BY <1>1, <1>2, <1>3
<1>7. QED  BY <1>4, <1>5, <1>6 DEF more

\* Each turn of the search leaves fewer.
LEMMA QueriesFacts ==
  ASSUME NEW p \in DOMAIN Preferences, NEW i \in Num
  PROVE  /\ Queries(p, i) \in Nat /\ 1 <= Queries(p, i)
         /\ Queries(0, 0) \in Nat /\ Queries(p, i) < Queries(0, 0)
         /\ i + 1 \in Num => Queries(p, i + 1) < Queries(p, i)
         /\ p < Len(Preferences) => Queries(p + 1, 0) < Queries(p, i)
<1> DEFINE w == WordSize
           n == Len(Preferences)
           rest == (n - p) * Line
           less == (n - (p + 1)) * Line
           all == (n - 0) * Line
<1>1. /\ w \in Nat \ {0} /\ i \in 0 .. w - 1 /\ Line = w + 1 /\ Line \in Nat
      /\ n \in Nat /\ p \in 1 .. n
  BY WordAssumption, PreferencesAssumption DEF Num, Line
<1>2. /\ Queries(p, i) = rest + (w - i) /\ Queries(0, 0) = all + (w - 0)
      /\ Queries(p, i + 1) = rest + (w - (i + 1))
      /\ Queries(p + 1, 0) = less + (w - 0)
  BY DEF Queries
<1>3. rest \in Nat /\ all \in Nat /\ rest + Line <= all
  <2>1. n - p \in Nat /\ n - 0 \in Nat /\ (n - p) + 1 <= n - 0 /\ (n - p) + 1 \in Nat
    BY <1>1
  <2> DEFINE m == n - p
             k == n - 0
  <2>2. m \in Nat /\ k \in Nat /\ m + 1 \in Nat /\ m + 1 <= k /\ Line \in Nat
    BY <1>1, <2>1
  <2> HIDE DEF m, k
  <2>3. m * Line \in Nat /\ (m + 1) * Line = m * Line + Line
    BY ONLY <2>2, TimesNext
  <2>4. k * Line \in Nat
    BY ONLY <2>2, TimesNext
  <2>5. (m + 1) * Line <= k * Line
    BY ONLY <2>2, TimesGrow
  <2>6. QED  BY <2>3, <2>4, <2>5 DEF m, k
<1>4. p < n => rest = less + Line /\ less \in Nat
  <2> SUFFICES ASSUME p < n PROVE rest = less + Line /\ less \in Nat
    OBVIOUS
  <2>1. n - (p + 1) \in Nat /\ n - p = (n - (p + 1)) + 1
    BY <1>1
  <2>2. QED  BY ONLY <1>1, <2>1, TimesNext
<1> HIDE DEF w, rest, less, all
<1>5. /\ Queries(p, i) \in Nat /\ 1 <= Queries(p, i)
      /\ Queries(0, 0) \in Nat /\ Queries(p, i) < Queries(0, 0)
  BY <1>1, <1>2, <1>3
<1>6. Queries(p, i + 1) < Queries(p, i)
  BY <1>1, <1>2, <1>3
<1>7. p < n => Queries(p + 1, 0) < Queries(p, i)
  BY <1>1, <1>2, <1>4
<1>8. QED  BY <1>5, <1>6, <1>7

\* The bound by itself, for each place.
LEMMA LeftFacts ==
  ASSUME NEW turn, NEW j \in Rects, NEW r \in Num, NEW c \in Num,
         NEW p \in DOMAIN Preferences, NEW i \in Num
  PROVE  /\ turn = "idle" => LeftAt(turn, j, r, c, p, i) = 0
         /\ turn = "draw" /\ j.next = "text" =>
              LeftAt(turn, j, r, c, p, i) = CharsLeft(j.chars, r, c) + TextTurns
         /\ turn = "draw" /\ j.next = "idle" =>
              LeftAt(turn, j, r, c, p, i) = CharsLeft(j.chars, r, c)
         /\ turn = "text" => LeftAt(turn, j, r, c, p, i) = TextTurns
         /\ turn = "clear" => LeftAt(turn, j, r, c, p, i) = ScreenTurns
         /\ turn = "info" => LeftAt(turn, j, r, c, p, i) = ScreenTurns + 1
         /\ turn = "set" => LeftAt(turn, j, r, c, p, i) = ScreenTurns + 2
         /\ turn = "query" => LeftAt(turn, j, r, c, p, i) = ScreenTurns + 3 + Queries(p, i)
         /\ turn = "find" => LeftAt(turn, j, r, c, p, i) = ScreenTurns + 3 + Queries(0, 0)
         /\ turn = "locate" => LeftAt(turn, j, r, c, p, i) = ScreenTurns + 4 + Queries(0, 0)
<1>1. /\ CharsLeft(j.chars, r, c) \in Nat
      /\ j.next \in {"idle", "text"}
  BY CharsFacts DEF Rects
<1>2. j.next = "idle" => CharsLeft(j.chars, r, c) + 0 = CharsLeft(j.chars, r, c)
  BY <1>1
<1>3. j.next = "idle" => j.next # "text"
  OBVIOUS
<1>4. QED  BY <1>2, <1>3 DEF LeftAt

\* How much of it the text and the screen are.
LEMMA TextFacts ==
  /\ CharTurns \in Nat /\ 1 <= CharTurns /\ TextTurns \in Nat /\ 1 <= TextTurns
  /\ ScreenTurns \in Nat /\ TextTurns < ScreenTurns
  /\ 2 * CharTurns = (1 + 1) * CharTurns
<1>1. CharTurns \in Nat /\ 1 <= CharTurns
  <2>1. 0 \in Num
    BY NumFacts
  <2>2. /\ CharTurns \in Nat /\ Turns(0, 0) \in Nat
        /\ 1 <= Turns(0, 0) /\ Turns(0, 0) < CharTurns
    BY ONLY <2>1, TurnsFacts
  <2>3. QED  BY <2>2
<1>2. TextTurns = TextLength * CharTurns + CharTurns /\ TextLength * CharTurns \in Nat
  <2>1. TextLength \in Nat
    BY NumFacts
  <2>2. (TextLength + 1) * CharTurns = TextLength * CharTurns + CharTurns
          /\ TextLength * CharTurns \in Nat
    BY ONLY <1>1, <2>1, TimesNext
  <2>3. QED  BY <2>2 DEF TextTurns
<1> DEFINE t == TextLength * CharTurns
<1> HIDE DEF t
<1>3. TextTurns \in Nat /\ 1 <= TextTurns
  BY <1>1, <1>2 DEF t
<1>4. QED  BY <1>1, <1>3 DEF ScreenTurns

\* What the counts are made of, with their types.
LEMMA NumbersTyped ==
  ASSUME GfxInv
  PROVE  /\ job \in Rects /\ row \in Num /\ col \in Num
         /\ pref \in DOMAIN Preferences /\ index \in Num
         /\ modes \in ModeLists /\ mode \in DOMAIN modes /\ index \in DOMAIN modes
<1>1. modes \in ModeLists /\ index \in DOMAIN modes /\ mode \in DOMAIN modes
  BY DEF GfxInv, GfxTypeOK, SearchTypeOK, FirmwareTypeOK
<1>2. index \in Num
  BY <1>1, ModeFacts
<1>3. QED  BY <1>1, <1>2 DEF GfxInv, GfxTypeOK, SearchTypeOK, DrawingTypeOK, Num

\* A turn of a loop over unsigned numbers that has passed its test does not wrap.
LEMMA NextIsExact ==
  ASSUME NEW n \in Num, NEW m \in Nat, n < m % WordSize
  PROVE  (n + 1) % WordSize = n + 1 /\ n + 1 \in Num
<1>1. m % WordSize \in 0 .. WordSize - 1
  BY ModIsNum DEF Num
<1> DEFINE k == m % WordSize
<1> HIDE DEF k
<1>2. n + 1 \in 0 .. WordSize - 1
  BY <1>1, WordAssumption DEF k, Num
<1>3. \A a \in 0 .. WordSize - 1 : a % WordSize = a
  BY WordAssumption
<1>4. QED  BY <1>2, <1>3 DEF Num

\* A step of the search and of the initialization.
LEMMA ModeStepCounts ==
  ASSUME GfxInv, GfxInv',
         Locate \/ FindBestMode \/ QueryMode \/ SetMode \/ SetModeFails \/ GetFramebufferInfo
  PROVE  CallLeft' < CallLeft
<1> DEFINE now == CallLeft
           next == CallLeft'
           q == Queries(pref, index)
           z == Queries(0, 0)
<1>1. /\ gfxPc = "locate" => now = ScreenTurns + 4 + z
      /\ gfxPc = "find" => now = ScreenTurns + 3 + z
      /\ gfxPc = "query" => now = ScreenTurns + 3 + q
      /\ gfxPc = "set" => now = ScreenTurns + 2
      /\ gfxPc = "info" => now = ScreenTurns + 1
  BY NumbersTyped, LeftFacts DEF CallLeft
<1>2. /\ job' \in Rects /\ row' \in Num /\ col' \in Num
      /\ pref' \in DOMAIN Preferences /\ index' \in Num
  <2>1. (GfxInv => /\ job \in Rects /\ row \in Num /\ col \in Num
                   /\ pref \in DOMAIN Preferences /\ index \in Num)'
    BY NumbersTyped, PTL
  <2>2. QED  BY <2>1
<1>3. /\ gfxPc' = "find" => next = ScreenTurns + 3 + z
      /\ gfxPc' = "query" => next = ScreenTurns + 3 + Queries(pref', index')
      /\ gfxPc' = "set" => next = ScreenTurns + 2
      /\ gfxPc' = "info" => next = ScreenTurns + 1
      /\ gfxPc' = "clear" => next = ScreenTurns
      /\ gfxPc' = "idle" => next = 0
  <2>1. next = LeftAt(gfxPc', job', row', col', pref', index')
    BY DEF CallLeft, LeftAt
  <2>2. QED  BY <1>2, <2>1, LeftFacts
<1>4. q \in Nat /\ z \in Nat /\ 1 <= q /\ q < z /\ ScreenTurns \in Nat /\ 1 <= ScreenTurns
  BY NumbersTyped, QueriesFacts, TextFacts
<1> SUFFICES next < now
  OBVIOUS
<1> HIDE DEF now, next, z
<1>5. CASE Locate
  <2>1. gfxPc = "locate" /\ gfxPc' \in {"find", "idle"}
    BY <1>5, GoesOnTo DEF Locate
  <2>2. QED  BY <1>1, <1>3, <1>4, <2>1
<1>6. CASE FindBestMode
  <2>1. gfxPc = "find" /\ gfxPc' \in {"query", "set", "idle"}
    BY <1>6, GoesOnTo DEF FindBestMode
  <2>2. Queries(pref', index') = q
    BY <1>6 DEF FindBestMode
  <2>3. QED  BY <1>1, <1>3, <1>4, <2>1, <2>2
<1>7. CASE QueryMode
  <2>1. CASE gfxPc' \in {"set", "idle"}
    BY <1>1, <1>3, <1>4, <1>7, <2>1 DEF QueryMode
  <2>2. CASE gfxPc' = "query" /\ index' = index + 1 /\ pref' = pref
    <3>1. Queries(pref', index') < q
      BY <1>2, <2>2, NumbersTyped, QueriesFacts
    <3>2. Queries(pref', index') \in Nat
      BY <1>2, QueriesFacts
    <3>3. gfxPc = "query"
      BY <1>7 DEF QueryMode
    <3> HIDE DEF q
    <3>4. QED  BY <1>1, <1>3, <1>4, <2>2, <3>1, <3>2, <3>3
  <2>3. CASE gfxPc' = "query" /\ index' = 0 /\ pref < Len(Preferences) /\ pref' = pref + 1
    <3>1. Queries(pref', index') < q
      BY <1>2, <2>3, NumbersTyped, QueriesFacts
    <3>2. Queries(pref', index') \in Nat
      BY <1>2, QueriesFacts
    <3>3. gfxPc = "query"
      BY <1>7 DEF QueryMode
    <3> HIDE DEF q
    <3>4. QED  BY <1>1, <1>3, <1>4, <2>3, <3>1, <3>2, <3>3
  <2>4. QED  BY <1>7, <2>1, <2>2, <2>3, GoesOnTo DEF QueryMode
<1>8. CASE SetMode \/ SetModeFails
  <2>1. gfxPc = "set" /\ gfxPc' \in {"info", "idle"}
    BY <1>8, GoesOnTo DEF SetMode, SetModeFails
  <2>2. QED  BY <1>1, <1>3, <1>4, <2>1
<1>9. CASE GetFramebufferInfo
  <2>1. gfxPc = "info" /\ gfxPc' \in {"clear", "idle"}
    BY <1>9, GoesOnTo DEF GetFramebufferInfo
  <2>2. QED  BY <1>1, <1>3, <1>4, <2>1
<1>10. QED  BY <1>5, <1>6, <1>7, <1>8, <1>9

\* A step of a drawing.
LEMMA DrawStepCounts ==
  ASSUME GfxInv, GfxInv',
         \/ ClearScreen \/ DrawMessage
         \/ DrawPixel \/ DrawFails \/ NextRow \/ NextChar \/ DrawEnds
  PROVE  CallLeft' < CallLeft
<1> DEFINE now == CallLeft
           next == CallLeft'
           n == job.chars
           here == CharsLeft(n, row, col)
           there == CharsLeft(job'.chars, row', col')
<1>1. /\ gfxPc = "draw" /\ job.next = "text" => now = here + TextTurns
      /\ gfxPc = "draw" /\ job.next = "idle" => now = here
      /\ gfxPc = "text" => now = TextTurns
      /\ gfxPc = "clear" => now = ScreenTurns
  BY NumbersTyped, LeftFacts DEF CallLeft
<1>2. /\ job' \in Rects /\ row' \in Num /\ col' \in Num
      /\ pref' \in DOMAIN Preferences /\ index' \in Num
  <2>1. (GfxInv => /\ job \in Rects /\ row \in Num /\ col \in Num
                   /\ pref \in DOMAIN Preferences /\ index \in Num)'
    BY NumbersTyped, PTL
  <2>2. QED  BY <2>1
<1>3. /\ gfxPc' = "draw" /\ job'.next = "text" => next = there + TextTurns
      /\ gfxPc' = "draw" /\ job'.next = "idle" => next = there
      /\ gfxPc' = "text" => next = TextTurns
      /\ gfxPc' = "idle" => next = 0
  <2>1. next = LeftAt(gfxPc', job', row', col', pref', index')
    BY DEF CallLeft, LeftAt
  <2>2. QED  BY <1>2, <2>1, LeftFacts
<1>4. /\ job \in Rects /\ row \in Num /\ col \in Num /\ n \in Nat
      /\ job'.chars \in Nat /\ job.next \in {"idle", "text"}
  BY <1>2, NumbersTyped DEF Rects
<1>5. /\ here \in Nat /\ 1 <= here /\ there \in Nat
      /\ there < (job'.chars + 1) * CharTurns
  BY <1>2, <1>4, CharsFacts
<1>6. /\ TextTurns \in Nat /\ 1 <= TextTurns /\ ScreenTurns = 2 * CharTurns + TextTurns
      /\ CharTurns \in Nat /\ TextTurns < ScreenTurns
  BY TextFacts DEF ScreenTurns
<1> SUFFICES next < now
  OBVIOUS
<1>7. ASSUME gfxPc = "draw", gfxPc' = "draw", job'.next = job.next, there < here
      PROVE  next < now
  <2> HIDE DEF now, next, here, there
  <2>1. QED  BY <1>1, <1>3, <1>4, <1>5, <1>6, <1>7
<1>8. CASE DrawPixel
  <2>1. job.x + job.width \in Nat /\ col < (job.x + job.width) % WordSize
    <3>1. job.x \in Nat /\ job.width \in Nat
      BY <1>4, NumFacts DEF Rects
    <3>2. col < (job.x + job.width) % WordSize
      BY <1>8 DEF DrawPixel, InCols
    <3>3. QED  BY ONLY <3>1, <3>2
  <2>2. col' = col + 1 /\ col + 1 \in Num
    BY <1>4, <1>8, <2>1, NextIsExact DEF DrawPixel
  <2>3. Turns(row, col + 1) < Turns(row, col)
    BY <1>4, <2>2, TurnsFacts
  <2>4. CharsLeft(n, row, col + 1) < here
    BY <1>4, <2>2, <2>3, CharsFacts
  <2>5. gfxPc = "draw" /\ gfxPc' = "draw" /\ job' = job /\ row' = row
    BY <1>8 DEF DrawPixel
  <2>6. there < here
    BY <2>2, <2>4, <2>5
  <2>7. QED  BY ONLY <1>7, <2>5, <2>6
<1>9. CASE NextRow
  <2>1. job.y + job.height \in Nat /\ row < (job.y + job.height) % WordSize
    <3>1. job.y \in Nat /\ job.height \in Nat
      BY <1>4, NumFacts DEF Rects
    <3>2. row < (job.y + job.height) % WordSize
      BY <1>9 DEF NextRow, InRows
    <3>3. QED  BY ONLY <3>1, <3>2
  <2>2. row' = row + 1 /\ row + 1 \in Num
    BY <1>4, <1>9, <2>1, NextIsExact DEF NextRow
  <2>3. Turns(row + 1, col') < Turns(row, col)
    BY <1>2, <1>4, <2>2, TurnsFacts
  <2>4. CharsLeft(n, row + 1, col') < here
    BY <1>2, <1>4, <2>2, <2>3, CharsFacts
  <2>5. gfxPc = "draw" /\ gfxPc' = "draw" /\ job' = job
    BY <1>9 DEF NextRow
  <2>6. there < here
    BY <2>2, <2>4, <2>5
  <2>7. QED  BY ONLY <1>7, <2>5, <2>6
<1>10. CASE NextChar
  <2>1. /\ gfxPc = "draw" /\ gfxPc' = "draw" /\ n > 1
        /\ job' = [job EXCEPT !.x = (job.x + CharSize) % WordSize, !.chars = job.chars - 1]
    BY <1>10 DEF NextChar, Starts
  <2>2. job'.next = job.next /\ job'.chars = n - 1
    BY <1>4, <2>1 DEF Rects
  <2>3. n - 1 \in Nat /\ (n - 1) + 1 = n
    BY <1>4, <2>1
  <2>4. CharsLeft(n - 1, row', col') < CharsLeft((n - 1) + 1, row, col)
    BY <1>2, <1>4, <2>3, CharsFacts
  <2>5. there < here
    BY <2>2, <2>3, <2>4
  <2>6. QED  BY ONLY <1>7, <2>1, <2>2, <2>5
<1>11. CASE DrawFails \/ DrawEnds
  <2>1. gfxPc = "draw" /\ gfxPc' \in {job.next, "idle"}
    BY <1>11, GoesOnTo DEF DrawFails, DrawEnds
  <2> HIDE DEF now, next, here, there
  <2>2. QED  BY <1>1, <1>3, <1>4, <1>5, <1>6, <2>1
<1>12. CASE DrawMessage
  <2>1. /\ gfxPc = "text" /\ gfxPc' = "draw"
        /\ job' = Rect(TextAt, TextAt, CharSize, CharSize, TextLength, "idle")
    BY <1>12 DEF DrawMessage, Starts
  <2>2. job'.chars = TextLength /\ job'.next = "idle"
    BY <2>1 DEF Rect
  <2>3. there < TextTurns
    BY <1>5, <2>2 DEF TextTurns
  <2> HIDE DEF now, next, here, there
  <2>4. QED  BY <1>1, <1>3, <2>1, <2>2, <2>3
<1>13. CASE ClearScreen
  <2>1. gfxPc = "clear"
    BY <1>13 DEF ClearScreen
  <2>2. CASE gGOP /\ gModeInfo
    <3>1. /\ gfxPc' = "draw"
          /\ job' = Rect(0, 0, modes[mode].width, modes[mode].height, 1, "text")
      BY <1>13, <2>2 DEF ClearScreen, Starts
    <3>2. job'.chars = 1 /\ job'.next = "text"
      BY <3>1 DEF Rect
    <3>3. there < 2 * CharTurns
      BY <1>5, <3>2, TextFacts
    <3> HIDE DEF now, next, here, there
    <3>4. QED  BY <1>1, <1>3, <1>5, <1>6, <2>1, <3>1, <3>2, <3>3
  <2>3. CASE ~(gGOP /\ gModeInfo)
    <3>1. gfxPc' \in {"text", "idle"}
      BY <1>13, <2>3, GoesOnTo DEF ClearScreen
    <3> HIDE DEF now, next, here, there
    <3>2. QED  BY <1>1, <1>3, <1>6, <2>1, <3>1
  <2>4. QED  BY <2>2, <2>3
<1>14. QED  BY <1>8, <1>9, <1>10, <1>11, <1>12, <1>13

\* For every firmware, width of the numbers, rectangle and text, also those that wrap or
\* leave the screen: a call takes at most so many steps as are left when it begins,
\* a number that each of its steps lowers.
THEOREM CallsAreBounded == LibSpec => [](CallLeft \in Nat) /\ CallsRunDown
<1>1. GfxInv => CallLeft \in Nat
  <2> SUFFICES ASSUME GfxInv PROVE CallLeft \in Nat
    OBVIOUS
  <2> DEFINE here == CharsLeft(job.chars, row, col)
             q == Queries(pref, index)
  <2>1. /\ here \in Nat /\ q \in Nat /\ Queries(0, 0) \in Nat
        /\ TextTurns \in Nat /\ ScreenTurns \in Nat /\ job.next \in {"idle", "text"}
    BY NumbersTyped, CharsFacts, QueriesFacts, TextFacts DEF Rects
  <2>2. gfxPc \in {"idle", "locate", "find", "query", "set", "info", "clear", "text", "draw"}
    BY DEF GfxInv, GfxTypeOK, ControlTypeOK
  <2>3. /\ gfxPc = "draw" => CallLeft \in {here, here + TextTurns}
        /\ gfxPc = "idle" => CallLeft = 0
        /\ gfxPc = "text" => CallLeft = TextTurns
        /\ gfxPc = "clear" => CallLeft = ScreenTurns
        /\ gfxPc = "info" => CallLeft = ScreenTurns + 1
        /\ gfxPc = "set" => CallLeft = ScreenTurns + 2
        /\ gfxPc = "query" => CallLeft = ScreenTurns + 3 + q
        /\ gfxPc = "find" => CallLeft = ScreenTurns + 3 + Queries(0, 0)
        /\ gfxPc = "locate" => CallLeft = ScreenTurns + 4 + Queries(0, 0)
    BY <2>1, NumbersTyped, LeftFacts DEF CallLeft
  <2> HIDE DEF here, q
  <2>4. QED  BY <2>1, <2>2, <2>3
<1>2. ASSUME GfxInv, GfxInv', [LibNext]_libVars, gfxPc # "idle"
      PROVE  CallLeft' <= CallLeft /\ (GfxProgram => CallLeft' < CallLeft)
  <2> DEFINE now == CallLeft
             next == CallLeft'
  <2>1. GfxProgram => next < now
    BY <1>2, ModeStepCounts, DrawStepCounts DEF GfxProgram
  <2>2. GfxProgram \/ next = now
    <3>1. CASE UNCHANGED gfxVars
      BY <3>1 DEF gfxVars, CallLeft, LeftAt
    <3>2. CASE ClientCalls
      BY <1>2, <3>2 DEF ClientCalls, CallGraphicsInit, CallInitialize, CallFindBestMode,
           CallFramebufferInfo, CallClearScreen, CallSetMode, CallDrawRect, CallDrawString,
           Calls, CallDraw, Begins
    <3>3. QED
      BY <1>2, <3>1, <3>2 DEF LibNext, CallStep, GraphicsStep, GfxNext, ClientCalls, libVars
  <2>3. now \in Nat /\ next \in Nat
    <3>1. (GfxInv => CallLeft \in Nat)'
      BY <1>1, PTL
    <3>2. QED  BY <1>1, <1>2, <3>1
  <2> HIDE DEF now, next
  <2>4. next <= now /\ (GfxProgram => next < now)
    BY <2>1, <2>2, <2>3
  <2>5. QED  BY <2>4 DEF now, next
<1>3. GfxInv /\ GfxInv' /\ [LibNext]_libVars =>
        [gfxPc # "idle" => /\ CallLeft' <= CallLeft
                           /\ GfxProgram => CallLeft' < CallLeft]_libVars
  BY <1>2
<1>4. QED  BY <1>1, <1>3, GfxInvHolds, PTL DEF LibSpec, CallsRunDown

=============================================================================
