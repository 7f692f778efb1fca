SPECIFICATION LibSpec
CONSTANTS
  MaxRequests <- MCMaxRequests
  ModeLists   <- MCModeLists
  Preferences <- MCPreferences
  WordSize    <- MCWordSize
  CharSize    <- MCCharSize
  TextAt      <- MCTextAt
  TextLength  <- MCTextLength
  Coordinates <- MCCoordinates
  MaxGfxCalls <- MCMaxGfxCalls
INVARIANTS LibTypeOK HandlesAreClosed BuffersAreAccounted
  BestModeIsFound PixelsStayInside RectangleIsWhole 
PROPERTY CallsReturn
CHECK_DEADLOCK FALSE
