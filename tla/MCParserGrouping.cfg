SPECIFICATION ParserSpec
CONSTANTS
  Texts <- MCIncrement
  MaxExternals = 6
INVARIANT GroupsAsC
CHECK_DEADLOCK FALSE
