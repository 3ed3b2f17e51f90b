CONSTANTS
  Bases <- MCBases
  NullBase = "zero"
  MaxMappings = 64
  Limits = {4}
  MaxEvent = 0
  Placements <- MCPlacements
  Unloadable = {"zero", "b", "c", "d"}
  Pins <- MCPins
  Ntdll = "ntdll"
  Proxy = "proxy"
  Asi = "asi"
  CodecModules <- MCCodec
  RunGoals <- MCGoals
  EventLimit = 14
  ThreadLimit = 1
  ByteLimit = 5
  FileBytes <- MCBytes
  MayRefuse = FALSE
  MayTamper = FALSE
SPECIFICATION Spec
INVARIANTS TypeOK MappingsTrusted LedgerInStep QuietScan DefensiveUnreachable
