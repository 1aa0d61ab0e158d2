SPECIFICATION Spec
CONSTANTS
  p = p
  f = f
  b1 = b1
  b2 = b2
  b3 = b3
  Null = Null
  FreeList = FreeList
  Arenas <- MCArenas
  Blocks <- MCBlocks
  Sizes <- MCSizes
  BlockSize = 1
  Allocating <- MCArenas
  Clearing <- MCArenas
  Resetting <- MCArenas
INVARIANT NoLeak
