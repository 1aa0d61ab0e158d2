SPECIFICATION ScopingSpec
CONSTANTS
  x = x
  y = y
  NoName = NoName
  Names <- MCNames
  Buckets <- MCBuckets
  Hash <- MCHash
  MaxSymbols = 8
  MaxEvents = 3
  MaxBlocks = 1
  MaxFunctions = 2
SYMMETRY NameSymmetry
INVARIANTS
  UsesMeant
  FunctionInScope
  PassesAgree
  ListedTwice
PROPERTY ImplementsScopes
