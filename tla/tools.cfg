SPECIFICATION ToolSpec
CONSTANTS
  HeaderSize  <- MCHeaderSize
  SectorSize  <- MCSectorSize
  ByteBits    <- MCByteBits
  Shift       <- MCShift
  Width       <- MCWidth
  BootFiles   <- MCBootFiles
  KernelFiles <- MCKernelFiles
  MaxCommands <- MCMaxCommands
  MaxFaults   <- MCMaxFaults
  ChoiceRoom  <- MCChoiceRoom
  PathRoom    <- MCPathRoom
  Lines       <- MCLines
  MaxLines    <- MCMaxLines
INVARIANTS ToolTypeOK VerifiedIsComplete ExtractGivesBack RestoreIsConfirmed
PROPERTIES DamageIsDetected DialogsComeBack
CHECK_DEADLOCK FALSE
