SPECIFICATION MCSpec
CONSTANTS
  Word = 16
  Charge = 3
  MaxItems = 3
  MaxBytes = 13
  Sizes = {0, 2, 4, 10, 11, 14, 15}
  Epochs = {0, 1}
  MaxPushes = 5
  Plans <- MCPlans
  MaxResources = 3
  MaxAssets = 3
  MaxCapabilities = 2
  MaxNames = 2
  MaxAssetNames = 2
INVARIANTS
  InboxInvariant
  OnceInOrder
  DiagnosticsExact
  OrderByLongestWait
PROPERTY Answers
