SPECIFICATION MCSpec
CONSTANTS
  Bases <- MCBases
  NullBase = 0
  MaxMappings = 3
  Limits <- MCLimits
  MaxEvent = 6
INVARIANTS
  LedgerInvariant
  MovedOnce
  AppliesOrUndoes
  VerifiedRoundTrip
PROPERTIES
  HistoryAppendOnly
