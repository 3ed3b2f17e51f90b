SPECIFICATION Spec
CONSTANTS
  c = c
  d = d
  t = t
  u = u
  m = m
  n = n
  one = one
  two = two
  Nothing = Nothing
  Environments <- MCEnvironments
  MaxUnits = 12
  MaxEntries = 3
  MaxEntryUnits = 9
  Ways <- MCWays
  Trees <- MCTrees
  Names <- MCNames
  Ids <- MCIds
INVARIANTS EnvironmentExact StartsWherePinned
