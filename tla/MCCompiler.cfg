SPECIFICATION CompileSpec
CONSTANTS
  Texts <- CompilerTexts
  MaxExternals = 6
INVARIANTS KeepsTokens GroupsLikeC ElseNearest DiesForCallsOnly
PROPERTY Halts
CHECK_DEADLOCK FALSE
