CONSTANTS
  DrainLimit = 2
  MaxStops = 2
  MaxReports = 4
SPECIFICATION Spec
INVARIANT KillPrecedesRelease
