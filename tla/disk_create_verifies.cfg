SPECIFICATION ToolSpec
CONSTANTS
  HeaderSize  <- MCHeaderSize
  SectorSize  <- MCSectorSize
  ByteBits    <- MCByteBits
  Shift       <- MCShift
  Width       <- MCWidth
  BootFiles   <- MCBootFiles
  KernelFiles <- MCKernelFiles
  MaxCommands <- MCMaxCommands
  MaxFaults   <- MCMaxFaults
  ChoiceRoom  <- MCChoiceRoom
  PathRoom    <- MCPathRoom
  Lines       <- MCLines
  MaxLines    <- MCMaxLines
INVARIANT CreatedImageVerifies
CHECK_DEADLOCK FALSE
