SPECIFICATION RunSpec
CONSTANTS
  Trees <- AssignTrees
  Programs <- AssignPrograms
  Runnable <- AssignPrograms
INVARIANT Faithful
