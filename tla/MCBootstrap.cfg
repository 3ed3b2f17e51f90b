SPECIFICATION MCSpec
CONSTANTS
  Threads = {t1, t2, t3}
  NoOutput = NoOutput
INVARIANTS
  SessionInvariant
  GenuineAccepted
  VerifiedIsSessionRun
PROPERTIES
  PromiseKept
  FlagReleased
