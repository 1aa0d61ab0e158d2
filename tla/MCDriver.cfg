SPECIFICATION DriverSpec
CONSTANTS
  p = p
  f = f
  b1 = b1
  b2 = b2
  b3 = b3
  b4 = b4
  x = x
  y = y
  z = z
  Null = Null
  FreeList = FreeList
  Arenas <- MCArenas
  Blocks <- MCBlocks
  Sizes <- MCSizes
  BlockSize = 2
  Constructed <- MCArenas
  Allocating <- ProgramOnly
  Resetting <- FileOnly
  Clearing <- None
  Moving <- None
  MaxDestroy = 2
  Texts <- MCTexts
  Hash <- MCHash
  Program = p
  File = f
  BucketSize = 2
  TextSize = 1
  MaxFiles = 2
  MaxLiterals = 2
  MaxFunctions = 1
SYMMETRY BlockSymmetry
CHECK_DEADLOCK FALSE
INVARIANTS
  NoDangling
  AllFreed
  InternExact
  NamesIntact
  RefusedExactly
  OutputExact
