SPECIFICATION X86Spec
CONSTANTS
  Trees <- MCTreeNodes
  Programs <- MCPrograms
  Runnable <- Emittable
INVARIANTS
  LabelsDefined
  OperandsEncodable
  AsmFaithful
  SlotsWritten
