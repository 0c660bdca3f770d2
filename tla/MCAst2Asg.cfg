SPECIFICATION Spec
CHECK_DEADLOCK FALSE
CONSTANTS
  Sources <- MCSources
  Names = {"x", "f", "g", "n", "a", "b", "m"}
  ArrayLength <- EvalArrlen
  MaxOps = 3
  MaxItems = 3
  SmallItems = 2
INVARIANTS
  ScopesAreLexical
  LengthsAreConstant
  TreesFollowPrecedence
  DiesOnlyOnErrors
