SPECIFICATION RunSpec
CONSTANTS
  Trees <- AllTrees
  Programs <- AllPrograms
  Runnable <- Structured
INVARIANTS
  LaidOutOnce
  EdgesExact
  Faithful
PROPERTY BlocksProgress
