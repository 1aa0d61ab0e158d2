SPECIFICATION X86Spec
CONSTANTS
  Trees <- EarlyTrees
  Programs <- EarlyReturn
  Runnable <- EarlyReturn
INVARIANT AsmFaithful
