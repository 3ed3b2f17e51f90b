CONSTANTS
  Bases <- MCBases
  NullBase = "zero"
  MaxMappings = 64
  Limits = {4}
  MaxEvent = 0
  Placements <- MCPlacements
  Unloadable = {"zero"}
  Pins <- MCPins
  Ntdll = "ntdll"
  Proxy = "proxy"
  Asi = "asi"
  CodecModules <- MCCodec
  RunGoals <- Goals
  EventLimit = 160
  ThreadLimit = 1
  ByteLimit = 5
  FileBytes <- MCBytes
  MayRefuse = TRUE
  MayTamper = FALSE
SPECIFICATION Spec
PROPERTY WalkKept
