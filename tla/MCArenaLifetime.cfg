SPECIFICATION LifeSpec
CONSTANTS
  p = p
  f = f
  b1 = b1
  b2 = b2
  b3 = b3
  Null = Null
  FreeList = FreeList
  Arenas <- MCArenas
  Blocks <- MCBlocks
  Sizes <- MCSizes
  BlockSize = 1
  Constructed <- ProgramOnly
  Allocating <- MCArenas
  Resetting <- MCArenas
  Clearing <- MCArenas
  Moving <- MCArenas
  MaxDestroy = 1
SYMMETRY BlockSymmetry
CHECK_DEADLOCK FALSE
INVARIANTS
  TypeOK
  UniqueReference
  LiveDisjoint
  LiveReachable
