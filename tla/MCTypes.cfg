SPECIFICATION TypesSpec
CONSTANT Clients <- MCClients
CHECK_DEADLOCK FALSE
INVARIANTS
  FieldsDisjoint
  FieldsAligned
  CompatibleSymmetric
  ArithmeticAsC
PROPERTIES
  CompositeCompatible
  CompositeNarrows
