SPECIFICATION MCSpec
CONSTANTS
  game = game
  system = system
  dll_a = dll_a
  dll_b = dll_b
  dll_c = dll_c
  bytes_x = bytes_x
  bytes_y = bytes_y
  Nothing = Nothing
  Recipes <- MCRecipes
  Origins <- MCOrigins
  Names <- MCNames
  Files <- MCFiles
  Contents <- MCContents
  MaxFiles = 3
  MaxBytes = 4
  Budget = 6
  Headers <- MCHeaders
  Sections <- MCSections
  Anchors <- MCAnchors
  Word = 64
  MaxImage = 16
  MaxSections = 2
  MaxDirectories = 2
  MaxAnchors = 1
  ChunkBytes = 3
  DosBytes = 2
  NtBytes = 1
  OptionalBytes = 1
  DirectoryBytes = 1
  LineBytes = 1
  MinAlignment = 2
  MaxAlignment = 8
  BaseUnit = 8
INVARIANTS
  PinsAreRecipe
  FileMatchesMapping
