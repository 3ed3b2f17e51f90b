SPECIFICATION Spec
CONSTANTS
  Bits = 14
  Low = 1024
  Request = 64
  Entries = 2
  MinSector = 16
  MaxSector = 1024
  Tops <- MCTops
  Geometries <- MCGeometries
  Heaps <- MCHeaps
  Blocks <- MCBlocks
  Pointers <- MCPointers
  Clobbers <- MCClobbers
  Usual <- MCUsual
INVARIANTS GenuineRunNotRefused HeaderInsideBlock ReportIsTrue
PROPERTY StopsAreReached
